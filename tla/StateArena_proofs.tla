------------------------- MODULE StateArena_proofs -------------------------
(***************************************************************************)
(* StateArena: the theorems and their proofs.                              *)
(*                                                                         *)
(* ArenaInvariant is the inductive invariant.  It says what the guards on  *)
(* the Rust stack and the slot table know of each other; the properties    *)
(* that the run checks are consequences of it.                             *)
(***************************************************************************)
EXTENDS StateArena, TLAPS, SequenceTheorems, FiniteSetTheorems

\* The free list holds the vacant slots, each of them once.
FreeListIsExact ==
    /\ \A k \in DOMAIN free :
           free[k] \in DOMAIN slots /\ ~slots[free[k]].retired /\ ~slots[free[k]].state
    /\ \A j, k \in DOMAIN free : free[j] = free[k] => j = k
    /\ \A i \in DOMAIN slots :
           ~slots[i].retired /\ ~slots[i].state => \E k \in DOMAIN free : free[k] = i

SlotsAreExact ==
    \A i \in DOMAIN slots :
        /\ slots[i].retired => ~slots[i].state /\ slots[i].gen = MaxGen
        /\ ~slots[i].state => ~slots[i].main /\ ~slots[i].borrowed /\ slots[i].root = 0
        /\ slots[i].main => i = 1 /\ slots[i].root = 0
        /\ slots[i].root < nextRoot
        /\ \A j \in DOMAIN slots :
               slots[i].root # 0 /\ slots[j].root = slots[i].root => j = i

CountIsExact == Cardinality(Coroutines) = liveCount

\* Each borrow has its own slot and each borrowed slot its borrow; only the
\* outermost one is a turn or the host's borrow of the main state.
BorrowsMatch ==
    /\ \A k \in DOMAIN borrows : Valid(borrows[k].h) /\ slots[borrows[k].h[1]].borrowed
    /\ \A i \in DOMAIN slots :
           slots[i].borrowed => \E k \in DOMAIN borrows : borrows[k].h[1] = i
    /\ \A j, k \in DOMAIN borrows : borrows[j].h[1] = borrows[k].h[1] => j = k
    /\ \A k \in DOMAIN borrows : k > 1 => borrows[k].kind = "nested"
    /\ borrows = <<>> => turn = NoHandle
    /\ borrows # <<>> =>
           \/ borrows[1].kind = "turn" /\ turn = borrows[1].h
           \/ borrows[1].kind = "direct" /\ turn = NoHandle /\ borrows[1].h = MainHandle

\* A guard of an unpublished state is nested inside the borrow that made it, so
\* no borrow that it is nested in is one of that state.
PendingsMatch ==
    /\ \A k \in DOMAIN pendings :
           /\ ~pendings[k].committed => ValidPending(pendings[k])
           /\ pendings[k].root < nextRoot
           /\ pendings[k].depth \in 1..Len(borrows)
           /\ \A j \in DOMAIN pendings : j < k => pendings[j].depth <= pendings[k].depth
           /\ \A j \in DOMAIN pendings : pendings[j].root = pendings[k].root => j = k
           /\ \A b \in DOMAIN borrows :
                  ~pendings[k].committed /\ borrows[b].h[1] = pendings[k].h[1]
                  => b > pendings[k].depth
    /\ \A i \in DOMAIN slots :
           slots[i].root # 0 =>
               \E k \in DOMAIN pendings :
                   ~pendings[k].committed /\ pendings[k].h[1] = i
    /\ rejected = 0

\* The handles given out: those of the generations that a slot has been through.
IssuedMatch ==
    \A h \in Handle :
        h \in issued <=>
            /\ h[1] \in DOMAIN slots
            /\ \/ h[2] < slots[h[1]].gen
               \/ h[2] = slots[h[1]].gen /\ (slots[h[1]].state \/ slots[h[1]].retired)

\* Nothing is lent or unpublished while states are being removed.
JobMatches ==
    /\ job \in {"sweep", "drain", "closed"} => borrows = <<>> /\ pendings = <<>>
    /\ job \in {"sweep", "drain"} => \A i \in todo : slots[i].state
    /\ job \in {"none", "closed"} => todo = {}

ArenaInvariant ==
    /\ TypeOK
    /\ FreeListIsExact /\ SlotsAreExact /\ CountIsExact
    /\ BorrowsMatch /\ PendingsMatch /\ IssuedMatch /\ JobMatches

-----------------------------------------------------------------------------
(* Shapes *)

LEMMA Handles ==
    /\ MainHandle \in Handle
    /\ \A h \in Handle : /\ h[1] \in 1..MaxSlots /\ h[2] \in 1..MaxGen
                         /\ h = <<h[1], h[2]>> /\ h # NoHandle
BY BoundsAssumption DEF Handle, MainHandle, NoHandle

LEMMA Shapes ==
    ASSUME TypeOK
    PROVE  /\ Len(slots) \in 1..MaxSlots /\ DOMAIN slots = 1..Len(slots)
           /\ slots \in [1..Len(slots) -> SlotType]
           /\ Len(free) \in Nat /\ DOMAIN free = 1..Len(free)
           /\ free \in [1..Len(free) -> 1..MaxSlots]
           /\ Len(borrows) \in Nat /\ DOMAIN borrows = 1..Len(borrows)
           /\ borrows \in [1..Len(borrows) -> BorrowType]
           /\ (borrows = <<>> <=> Len(borrows) = 0)
           /\ Len(pendings) \in Nat /\ DOMAIN pendings = 1..Len(pendings)
           /\ pendings \in [1..Len(pendings) -> PendingType]
           /\ (pendings = <<>> <=> Len(pendings) = 0)
BY LenProperties, EmptySeq DEF TypeOK

\* An entry of the slot table is replaced.
LEMMA Replaced ==
    ASSUME TypeOK, NEW i \in DOMAIN slots, NEW e \in SlotType,
           slots' = [slots EXCEPT ![i] = e]
    PROVE  /\ slots' \in Seq(SlotType) /\ Len(slots') = Len(slots)
           /\ DOMAIN slots' = DOMAIN slots
           /\ slots'[i] = e /\ \A j \in DOMAIN slots \ {i} : slots'[j] = slots[j]
<1>1. i \in 1..Len(slots) /\ slots \in Seq(SlotType)
  BY Shapes DEF TypeOK
<1>2. /\ [slots EXCEPT ![i] = e] \in Seq(SlotType)
      /\ Len([slots EXCEPT ![i] = e]) = Len(slots)
      /\ \A j \in 1..Len(slots) : [slots EXCEPT ![i] = e][j] = IF j = i THEN e ELSE slots[j]
  BY <1>1, ExceptSeq
<1>3. DOMAIN slots' = 1..Len(slots)
  BY <1>2, LenProperties
<1>4. QED
  BY <1>1, <1>2, <1>3, Shapes

\* The borrowed bit of a slot is written.
LEMMA BorrowedBit ==
    ASSUME TypeOK, NEW i \in DOMAIN slots, NEW b \in BOOLEAN,
           slots' = [slots EXCEPT ![i].borrowed = b]
    PROVE  /\ slots' \in Seq(SlotType) /\ Len(slots') = Len(slots)
           /\ DOMAIN slots' = DOMAIN slots
           /\ \A j \in DOMAIN slots :
                  /\ slots'[j].gen = slots[j].gen /\ slots'[j].retired = slots[j].retired
                  /\ slots'[j].state = slots[j].state /\ slots'[j].main = slots[j].main
                  /\ slots'[j].root = slots[j].root
                  /\ slots'[j].borrowed = IF j = i THEN b ELSE slots[j].borrowed
<1> DEFINE e == [slots[i] EXCEPT !.borrowed = b]
<1>1. slots[i] \in SlotType
  BY Shapes
<1>2. e \in SlotType /\ slots' = [slots EXCEPT ![i] = e]
  BY <1>1 DEF SlotType
<1>3. /\ slots' \in Seq(SlotType) /\ Len(slots') = Len(slots) /\ DOMAIN slots' = DOMAIN slots
      /\ slots'[i] = e /\ \A j \in DOMAIN slots \ {i} : slots'[j] = slots[j]
  BY <1>2, Replaced
<1>4. QED
  BY <1>1, <1>3 DEF SlotType

\* A guard is pushed.
LEMMA Pushed ==
    ASSUME NEW S, NEW s \in Seq(S), NEW e \in S
    PROVE  /\ Append(s, e) \in Seq(S)
           /\ DOMAIN s = 1..Len(s) /\ Len(s) \in Nat
           /\ DOMAIN Append(s, e) = 1..(Len(s) + 1)
           /\ Len(Append(s, e)) = Len(s) + 1
           /\ \A k \in DOMAIN s : Append(s, e)[k] = s[k]
           /\ Append(s, e)[Len(s) + 1] = e
           /\ Append(s, e) # <<>>
BY AppendProperties, LenProperties

\* A sequence is cut after its first n elements.
LEMMA Cut ==
    ASSUME NEW S, NEW s \in Seq(S), NEW n \in 0..Len(s)
    PROVE  /\ SubSeq(s, 1, n) \in Seq(S)
           /\ DOMAIN s = 1..Len(s) /\ Len(s) \in Nat
           /\ DOMAIN SubSeq(s, 1, n) = 1..n /\ Len(SubSeq(s, 1, n)) = n
           /\ \A k \in 1..n : SubSeq(s, 1, n)[k] = s[k]
<1>1. Len(s) \in Nat /\ \A k \in 1..n : s[k] \in S
  BY LenProperties, ElementOfSeq
<1>2. /\ SubSeq(s, 1, n) \in Seq(S)
      /\ Len(SubSeq(s, 1, n)) = IF 1 <= n THEN n - 1 + 1 ELSE 0
      /\ \A k \in 1..n - 1 + 1 : SubSeq(s, 1, n)[k] = s[1 + k - 1]
  BY <1>1, SubSeqProperties
<1>3. QED
  BY <1>1, <1>2, LenProperties

-----------------------------------------------------------------------------
(* Steps that leave the occupation of the slots alone *)

\* The slots keep generations and occupants; none is added.
OccupationKept ==
    /\ Len(slots') = Len(slots) /\ DOMAIN slots' = DOMAIN slots
    /\ \A i \in DOMAIN slots :
           /\ slots'[i].gen = slots[i].gen /\ slots'[i].retired = slots[i].retired
           /\ slots'[i].state = slots[i].state /\ slots'[i].main = slots[i].main
    /\ UNCHANGED <<free, liveCount, issued>>

LEMMA OccupationStays ==
    ASSUME ArenaInvariant, OccupationKept
    PROVE  /\ FreeListIsExact' /\ CountIsExact' /\ IssuedMatch'
           /\ \A h : Valid(h)' <=> Valid(h)
<1>1. FreeListIsExact'
  BY DEF ArenaInvariant, FreeListIsExact, OccupationKept
<1>2. Coroutines' = Coroutines
  BY DEF Coroutines, OccupationKept
<1>3. CountIsExact'
  BY <1>2 DEF ArenaInvariant, CountIsExact, OccupationKept
<1>4. IssuedMatch'
  BY DEF ArenaInvariant, IssuedMatch, OccupationKept
<1>5. \A h : Valid(h)' <=> Valid(h)
  BY DEF Valid, OccupationKept
<1>6. QED
  BY <1>1, <1>3, <1>4, <1>5

-----------------------------------------------------------------------------
(* Borrowing *)

\* The three ways to lend the state h.
Lends(h, kind) ==
    /\ Idle /\ Valid(h) /\ ~slots[h[1]].borrowed
    /\ slots' = [slots EXCEPT ![h[1]].borrowed = TRUE]
    /\ borrows' = Append(borrows, [h |-> h, kind |-> kind])
    /\ turn' = IF kind = "turn" THEN h ELSE turn
    /\ UNCHANGED <<free, liveCount, nextRoot, pendings, job, todo, rejected, issued>>
    /\ IF kind = "nested" THEN borrows # <<>> ELSE turn = NoHandle /\ borrows = <<>>
    /\ kind = "direct" => h = MainHandle

LEMMA TurnLends ==
    ASSUME ArenaInvariant, NEW h \in Handle, BeginTurn(h)
    PROVE  Lends(h, "turn")
<1>1. borrows = <<>>
  <2>1. ASSUME borrows # <<>> PROVE FALSE
    <3>1. 1 \in DOMAIN borrows
      BY <2>1, Shapes DEF ArenaInvariant
    <3>2. borrows[1].h[1] \in DOMAIN slots /\ slots[borrows[1].h[1]].borrowed
      BY <3>1 DEF ArenaInvariant, BorrowsMatch, Valid
    <3>3. QED
      BY <3>2 DEF BeginTurn, NothingBorrowed
  <2>2. QED
    BY <2>1
<1>2. h[1] \in DOMAIN slots /\ ~slots[h[1]].borrowed
  BY DEF BeginTurn, NothingBorrowed, Valid
<1>3. QED
  BY <1>1, <1>2 DEF BeginTurn, Lends

LEMMA DirectLends ==
    ASSUME ArenaInvariant, BeginDirect
    PROVE  Lends(MainHandle, "direct")
<1>1. MainHandle[1] = 1 /\ MainHandle \in Handle
  BY Handles DEF MainHandle
<1>2. borrows = <<>>
  <2>1. ASSUME borrows # <<>> PROVE FALSE
    <3>1. 1 \in DOMAIN borrows /\ borrows \in [1..Len(borrows) -> BorrowType]
      BY <2>1, Shapes DEF ArenaInvariant
    <3>2. borrows[1].h # NoHandle
      BY <3>1, Shapes, Handles DEF ArenaInvariant, BorrowType
    <3>3. borrows[1].h = MainHandle
      BY <2>1, <3>2 DEF ArenaInvariant, BorrowsMatch, BeginDirect
    <3>4. slots[borrows[1].h[1]].borrowed
      BY <3>1 DEF ArenaInvariant, BorrowsMatch
    <3>5. QED
      BY <1>1, <3>3, <3>4 DEF BeginDirect
  <2>2. QED
    BY <2>1
<1>3. QED
  BY <1>1, <1>2 DEF BeginDirect, Lends

LEMMA NestedLends ==
    ASSUME ArenaInvariant, NEW h \in Handle, BeginNested(h)
    PROVE  Lends(h, "nested")
BY DEF BeginNested, Resolves, Lends

LEMMA LendingIsSound ==
    ASSUME ArenaInvariant, NEW h \in Handle, NEW kind \in {"turn", "direct", "nested"},
           Lends(h, kind)
    PROVE  ArenaInvariant'
<1> DEFINE i == h[1]
           b == [h |-> h, kind |-> kind]
           n == Len(borrows) + 1
<1>0. TypeOK
  BY DEF ArenaInvariant
<1>1. i \in DOMAIN slots /\ slots' = [slots EXCEPT ![i].borrowed = TRUE]
  BY DEF Lends, Valid
<1>2. /\ slots' \in Seq(SlotType) /\ Len(slots') = Len(slots) /\ DOMAIN slots' = DOMAIN slots
      /\ \A j \in DOMAIN slots :
            /\ slots'[j].gen = slots[j].gen /\ slots'[j].retired = slots[j].retired
            /\ slots'[j].state = slots[j].state /\ slots'[j].main = slots[j].main
            /\ slots'[j].root = slots[j].root
            /\ slots'[j].borrowed = IF j = i THEN TRUE ELSE slots[j].borrowed
  BY <1>0, <1>1, BorrowedBit
<1>3. \A j \in DOMAIN slots : slots'[j].borrowed => slots[j].borrowed \/ j = i
  BY <1>2
<1>4. OccupationKept
  BY <1>2, <1>3 DEF OccupationKept, Lends
<1>5. /\ FreeListIsExact' /\ CountIsExact' /\ IssuedMatch'
      /\ \A g : Valid(g)' <=> Valid(g)
  BY <1>4, OccupationStays
<1>6. /\ borrows' \in Seq(BorrowType) /\ n = Len(borrows')
      /\ DOMAIN borrows = 1..Len(borrows) /\ Len(borrows) \in Nat /\ DOMAIN borrows' = 1..n
      /\ \A k \in DOMAIN borrows : borrows'[k] = borrows[k]
      /\ borrows'[n] = b /\ borrows' # <<>>
  BY <1>0, Pushed DEF TypeOK, BorrowType, Lends
<1>7. TypeOK'
  BY <1>0, <1>2, <1>6 DEF TypeOK, Lends
<1>8. SlotsAreExact'
  BY <1>1, <1>2, <1>3 DEF ArenaInvariant, SlotsAreExact, Lends, Valid
<1>9. BorrowsMatch'
  <2>1. \A k \in DOMAIN borrows : borrows[k].h[1] # i /\ borrows[k].h[1] \in DOMAIN slots
    BY DEF ArenaInvariant, BorrowsMatch, Lends, Valid
  <2>2. \A k \in DOMAIN borrows' : Valid(borrows'[k].h) /\ slots'[borrows'[k].h[1]].borrowed
    BY <1>1, <1>3, <1>6, <2>1 DEF ArenaInvariant, BorrowsMatch, Lends
  <2>3. \A j \in DOMAIN slots' :
            slots'[j].borrowed => \E k \in DOMAIN borrows' : borrows'[k].h[1] = j
    BY <1>2, <1>3, <1>6, SMTT(30) DEF ArenaInvariant, BorrowsMatch
  <2>4. \A j, k \in DOMAIN borrows' : borrows'[j].h[1] = borrows'[k].h[1] => j = k
    BY <1>6, <2>1 DEF ArenaInvariant, BorrowsMatch
  <2>5. \A k \in DOMAIN borrows' : k > 1 => borrows'[k].kind = "nested"
    BY <1>0, <1>6, Shapes DEF ArenaInvariant, BorrowsMatch, Lends
  <2>6. \/ borrows'[1].kind = "turn" /\ turn' = borrows'[1].h
        \/ borrows'[1].kind = "direct" /\ turn' = NoHandle /\ borrows'[1].h = MainHandle
    <3>1. CASE kind = "nested"
      BY <1>0, <1>6, <3>1, Shapes DEF ArenaInvariant, BorrowsMatch, Lends
    <3>2. CASE kind # "nested"
      <4>1. n = 1 /\ borrows'[1] = b
        BY <1>0, <1>6, <3>2, Shapes DEF Lends
      <4>2. QED
        BY <4>1, <3>2 DEF Lends
    <3>3. QED
      BY <3>1, <3>2
  <2>7. QED
    BY <1>5, <1>6, <2>2, <2>3, <2>4, <2>5, <2>6 DEF BorrowsMatch
<1>10. PendingsMatch'
  <2>1. \A p : ValidPending(p) => ValidPending(p)'
    BY <1>2, <1>3, <1>5 DEF ValidPending, Valid
  <2>2. \A k \in DOMAIN pendings : pendings[k].depth \in 1..Len(borrows)
    BY DEF ArenaInvariant, PendingsMatch
  <2>3. UNCHANGED <<pendings, nextRoot, rejected>>
    BY DEF Lends
  <2>4. \A k \in DOMAIN pendings : \A c \in DOMAIN borrows' :
            ~pendings[k].committed /\ borrows'[c].h[1] = pendings[k].h[1]
            => c > pendings[k].depth
    BY <1>6, <2>2 DEF ArenaInvariant, PendingsMatch
  <2>5. \A j \in DOMAIN slots' :
           slots'[j].root # 0 =>
               \E k \in DOMAIN pendings : ~pendings[k].committed /\ pendings[k].h[1] = j
    BY <1>2, <1>3 DEF ArenaInvariant, PendingsMatch
  <2>6. \A k \in DOMAIN pendings : pendings[k].depth \in 1..Len(borrows')
    BY <1>6, <2>2
  <2>7. QED
    BY <2>1, <2>3, <2>4, <2>5, <2>6 DEF ArenaInvariant, PendingsMatch
<1>11. JobMatches'
  BY DEF ArenaInvariant, JobMatches, Lends, Idle
<1>12. QED
  BY <1>5, <1>7, <1>8, <1>9, <1>10, <1>11 DEF ArenaInvariant

\* The innermost borrow is the one that the code expects to find.
LEMMA InnermostBorrow ==
    ASSUME ArenaInvariant, borrows # <<>>
    PROVE  LET b == borrows[Len(borrows)] IN
           /\ Len(borrows) \in DOMAIN borrows /\ b \in BorrowType
           /\ Valid(b.h) /\ slots[b.h[1]].borrowed
           /\ b.kind = "turn" => turn = b.h
           /\ b.kind = "turn" <=> Len(borrows) = 1 /\ turn # NoHandle
           /\ Len(borrows) = 1 => turn = NoHandle \/ b.kind = "turn"
<1> DEFINE n == Len(borrows)
<1>1. n \in DOMAIN borrows /\ n \in Nat \ {0} /\ borrows \in [1..n -> BorrowType]
  BY Shapes DEF ArenaInvariant
<1>2. borrows[n] \in BorrowType /\ borrows[n].h # NoHandle
  BY <1>1, Handles DEF BorrowType
<1>3. Valid(borrows[n].h) /\ slots[borrows[n].h[1]].borrowed
  BY <1>1 DEF ArenaInvariant, BorrowsMatch
<1>4. CASE n = 1
  BY <1>1, <1>2, <1>3, <1>4 DEF ArenaInvariant, BorrowsMatch
<1>5. CASE n # 1
  <2>1. borrows[n].kind = "nested"
    BY <1>1, <1>5 DEF ArenaInvariant, BorrowsMatch
  <2>2. QED
    BY <1>1, <1>2, <1>3, <1>5, <2>1
<1>6. QED
  BY <1>4, <1>5

LEMMA ReturnIsSound ==
    ASSUME ArenaInvariant, EndBorrow
    PROVE  ArenaInvariant'
<1> DEFINE n == Len(borrows)
           h == borrows[n].h
           i == h[1]
<1>0. TypeOK
  BY DEF ArenaInvariant
<1>1. /\ borrows # <<>> /\ ~PendingOnTop
      /\ borrows' = SubSeq(borrows, 1, n - 1)
      /\ UNCHANGED <<free, liveCount, nextRoot, pendings, job, todo, rejected, issued>>
  BY DEF EndBorrow
<1>2. /\ n \in DOMAIN borrows /\ borrows[n] \in BorrowType
      /\ Valid(h) /\ slots[i].borrowed
      /\ borrows[n].kind = "turn" => turn = h
      /\ borrows[n].kind = "turn" <=> n = 1 /\ turn # NoHandle
  BY <1>1, InnermostBorrow
<1>3. /\ slots' = [slots EXCEPT ![i].borrowed = FALSE]
      /\ turn' = IF borrows[n].kind = "turn" THEN NoHandle ELSE turn
  BY <1>2 DEF EndBorrow
<1>4. i \in DOMAIN slots
  BY <1>2 DEF Valid
<1>5. /\ slots' \in Seq(SlotType) /\ Len(slots') = Len(slots) /\ DOMAIN slots' = DOMAIN slots
      /\ \A j \in DOMAIN slots :
            /\ slots'[j].gen = slots[j].gen /\ slots'[j].retired = slots[j].retired
            /\ slots'[j].state = slots[j].state /\ slots'[j].main = slots[j].main
            /\ slots'[j].root = slots[j].root
            /\ slots'[j].borrowed = IF j = i THEN FALSE ELSE slots[j].borrowed
  BY <1>0, <1>3, <1>4, BorrowedBit
<1>6. \A j \in DOMAIN slots :
          /\ slots'[j].borrowed => slots[j].borrowed /\ j # i
          /\ slots[j].borrowed /\ j # i => slots'[j].borrowed
          /\ slots[j].state => slots'[j].state
  BY <1>5
<1>7. OccupationKept
  BY <1>1, <1>5, <1>6 DEF OccupationKept
<1>8. /\ FreeListIsExact' /\ CountIsExact' /\ IssuedMatch'
      /\ \A g : Valid(g)' <=> Valid(g)
  BY <1>7, OccupationStays
<1>9. /\ n \in Nat /\ n >= 1 /\ n - 1 \in 0..n
      /\ DOMAIN borrows = 1..n
  BY <1>0, <1>1, Shapes
<1>10. /\ borrows' \in Seq(BorrowType) /\ Len(borrows') = n - 1 /\ DOMAIN borrows' = 1..(n - 1)
       /\ \A k \in 1..(n - 1) : borrows'[k] = borrows[k]
  BY <1>0, <1>1, <1>9, Cut DEF TypeOK
<1>11. TypeOK'
  <2>1. turn' \in Handle \cup {NoHandle}
    BY <1>0, <1>3 DEF TypeOK
  <2>2. QED
    BY <1>0, <1>1, <1>5, <1>10, <2>1 DEF TypeOK
<1>12. SlotsAreExact'
  <2>1. \A j \in DOMAIN slots : ~slots[j].state => ~slots'[j].borrowed
    BY <1>6 DEF ArenaInvariant, SlotsAreExact
  <2>2. /\ DOMAIN slots' = DOMAIN slots /\ nextRoot' = nextRoot
        /\ \A j \in DOMAIN slots :
              /\ slots'[j].gen = slots[j].gen /\ slots'[j].retired = slots[j].retired
              /\ slots'[j].state = slots[j].state /\ slots'[j].main = slots[j].main
              /\ slots'[j].root = slots[j].root
    BY <1>1, <1>5
  <2>3. QED
    BY <2>1, <2>2 DEF ArenaInvariant, SlotsAreExact
<1>13. BorrowsMatch'
  <2>1. \A k \in 1..(n - 1) : borrows[k].h[1] # i /\ borrows[k].h[1] \in DOMAIN slots
    <3>n. n \in Nat /\ n >= 1
      BY <1>9
    <3>1. \A k \in 1..(n - 1) : k \in 1..n /\ k # n
      BY <3>n
    <3>0. \A k \in DOMAIN borrows : borrows[k].h[1] = borrows[n].h[1] => k = n
      BY <1>2 DEF ArenaInvariant, BorrowsMatch
    <3>2. \A k \in 1..(n - 1) : borrows[k].h[1] # borrows[n].h[1]
      BY <1>9, <3>0, <3>1
    <3>3. \A k \in 1..(n - 1) : borrows[k].h[1] \in DOMAIN slots
      BY <1>9, <3>1 DEF ArenaInvariant, BorrowsMatch, Valid
    <3>4. QED
      BY <3>2, <3>3
  <2>2. \A k \in DOMAIN borrows' : Valid(borrows'[k].h) /\ slots'[borrows'[k].h[1]].borrowed
    <3>1. \A k \in 1..(n - 1) : Valid(borrows[k].h) /\ slots[borrows[k].h[1]].borrowed
      BY <1>9 DEF ArenaInvariant, BorrowsMatch
    <3>2. \A k \in 1..(n - 1) : slots'[borrows[k].h[1]].borrowed
      BY <1>6, <2>1, <3>1
    <3>3. QED
      BY <1>10, <3>1, <3>2
  <2>3. \A j \in DOMAIN slots' :
            slots'[j].borrowed => \E k \in DOMAIN borrows' : borrows'[k].h[1] = j
    <3> SUFFICES ASSUME NEW j \in DOMAIN slots, slots[j].borrowed, j # i
                 PROVE  \E k \in DOMAIN borrows' : borrows'[k].h[1] = j
      BY <1>5, <1>6
    <3>1. PICK k \in DOMAIN borrows : borrows[k].h[1] = j
      BY DEF ArenaInvariant, BorrowsMatch
    <3>2. k # n
      BY <3>1
    <3>3. QED
      BY <3>1, <3>2, <1>9, <1>10
  <2>4. \A j, k \in DOMAIN borrows' : borrows'[j].h[1] = borrows'[k].h[1] => j = k
    BY <1>9, <1>10 DEF ArenaInvariant, BorrowsMatch
  <2>5. \A k \in DOMAIN borrows' : k > 1 => borrows'[k].kind = "nested"
    BY <1>9, <1>10 DEF ArenaInvariant, BorrowsMatch
  <2>6. CASE n = 1
    <3>1. borrows' = <<>>
      BY <1>10, <2>6, EmptySeq
    <3>2. turn' = NoHandle
      BY <1>2, <1>3, <2>6
    <3>3. QED
      BY <1>8, <2>2, <2>3, <2>4, <2>5, <3>1, <3>2 DEF BorrowsMatch
  <2>7. CASE n # 1
    <3>1. turn' = turn /\ borrows' # <<>> /\ 1 \in 1..(n - 1)
      BY <1>2, <1>3, <1>9, <1>10, <2>7, EmptySeq
    <3>2. \/ borrows'[1].kind = "turn" /\ turn' = borrows'[1].h
          \/ borrows'[1].kind = "direct" /\ turn' = NoHandle /\ borrows'[1].h = MainHandle
      BY <1>1, <1>10, <3>1 DEF ArenaInvariant, BorrowsMatch
    <3>3. QED
      BY <1>8, <2>2, <2>3, <2>4, <2>5, <3>1, <3>2 DEF BorrowsMatch
  <2>8. QED
    BY <2>6, <2>7
<1>14. PendingsMatch'
  <2>1. \A p : ValidPending(p) => ValidPending(p)'
    BY <1>5, <1>6, <1>8 DEF ValidPending, Valid
  <2>2. \A k \in DOMAIN pendings : pendings[k].depth \in 1..(n - 1)
    <3> SUFFICES ASSUME NEW k \in DOMAIN pendings PROVE pendings[k].depth \in 1..(n - 1)
      OBVIOUS
    <3> DEFINE m == Len(pendings)
    <3>1. m \in Nat /\ DOMAIN pendings = 1..m /\ k \in 1..m /\ m \in DOMAIN pendings
          /\ pendings # <<>>
      BY <1>0, Shapes
    <3>2. pendings[k].depth \in 1..n /\ pendings[m].depth \in 1..n
      BY <3>1 DEF ArenaInvariant, PendingsMatch
    <3>3. pendings[m].depth # n
      BY <1>1, <3>1 DEF PendingOnTop
    <3>4. k = m \/ pendings[k].depth <= pendings[m].depth
      BY <3>1 DEF ArenaInvariant, PendingsMatch
    <3>5. QED
      BY <1>9, <3>2, <3>3, <3>4
  <2>3. \A k \in DOMAIN pendings : \A c \in DOMAIN borrows' :
            ~pendings[k].committed /\ borrows'[c].h[1] = pendings[k].h[1]
            => c > pendings[k].depth
    BY <1>9, <1>10 DEF ArenaInvariant, PendingsMatch
  <2>4. \A j \in DOMAIN slots' :
           slots'[j].root # 0 =>
               \E k \in DOMAIN pendings : ~pendings[k].committed /\ pendings[k].h[1] = j
    BY <1>5, <1>6 DEF ArenaInvariant, PendingsMatch
  <2>5. QED
    BY <1>1, <1>10, <2>1, <2>2, <2>3, <2>4 DEF ArenaInvariant, PendingsMatch
<1>15. JobMatches'
  <2>1. job \notin {"sweep", "drain", "closed"}
    BY <1>1 DEF ArenaInvariant, JobMatches
  <2>2. QED
    BY <1>1, <2>1 DEF ArenaInvariant, JobMatches
<1>16. QED
  BY <1>8, <1>11, <1>12, <1>13, <1>14, <1>15 DEF ArenaInvariant

-----------------------------------------------------------------------------
(* Publishing *)

LEMMA BorrowsStay ==
    ASSUME BorrowsMatch, UNCHANGED <<borrows, turn>>,
           \A k \in DOMAIN borrows : /\ Valid(borrows[k].h) => Valid(borrows[k].h)'
                                     /\ slots'[borrows[k].h[1]].borrowed,
           \A i \in DOMAIN slots' : slots'[i].borrowed => i \in DOMAIN slots /\ slots[i].borrowed
    PROVE  BorrowsMatch'
BY DEF BorrowsMatch

\* The guard that BindThread, Commit and EndPending work on.
LEMMA InnermostPending ==
    ASSUME ArenaInvariant, PendingOnTop
    PROVE  LET m == Len(pendings) IN
           /\ m \in DOMAIN pendings /\ DOMAIN pendings = 1..m
           /\ Innermost = pendings[m] /\ Innermost \in PendingType
           /\ Innermost.depth = Len(borrows)
           /\ ValidPending(Innermost) =>
                  /\ Innermost.h[1] \in DOMAIN slots
                  /\ slots[Innermost.h[1]] \in SlotType
                  /\ slots[Innermost.h[1]].state /\ ~slots[Innermost.h[1]].main
                  /\ slots[Innermost.h[1]].root = Innermost.root
           /\ ~Innermost.committed =>
                  /\ ValidPending(Innermost) /\ ~slots[Innermost.h[1]].borrowed
                  /\ \A k \in DOMAIN borrows : borrows[k].h[1] # Innermost.h[1]
<1> DEFINE m == Len(pendings)
<1>0. TypeOK
  BY DEF ArenaInvariant
<1>1. m \in DOMAIN pendings /\ DOMAIN pendings = 1..m /\ pendings \in [1..m -> PendingType]
  BY <1>0, Shapes DEF PendingOnTop
<1>2. Innermost = pendings[m] /\ Innermost \in PendingType /\ Innermost.depth = Len(borrows)
  BY <1>1 DEF Innermost, PendingOnTop
<1>3. ASSUME ValidPending(Innermost)
      PROVE  /\ Innermost.h[1] \in DOMAIN slots
             /\ slots[Innermost.h[1]] \in SlotType
             /\ slots[Innermost.h[1]].state /\ ~slots[Innermost.h[1]].main
             /\ slots[Innermost.h[1]].root = Innermost.root
  BY <1>0, <1>3, Shapes DEF ValidPending, Valid
<1>4. ASSUME ~Innermost.committed
      PROVE  /\ ValidPending(Innermost) /\ ~slots[Innermost.h[1]].borrowed
             /\ \A k \in DOMAIN borrows : borrows[k].h[1] # Innermost.h[1]
  <2>1. ValidPending(Innermost)
    BY <1>1, <1>2, <1>4 DEF ArenaInvariant, PendingsMatch
  <2>2. \A k \in DOMAIN borrows :
            borrows[k].h[1] = Innermost.h[1] => k > Innermost.depth
    BY <1>1, <1>2, <1>4 DEF ArenaInvariant, PendingsMatch
  <2>3. \A k \in DOMAIN borrows : borrows[k].h[1] # Innermost.h[1]
    BY <1>0, <1>2, <2>2, Shapes
  <2>4. ~slots[Innermost.h[1]].borrowed
    BY <1>3, <2>1, <2>3 DEF ArenaInvariant, BorrowsMatch
  <2>5. QED
    BY <2>1, <2>3, <2>4
<1>5. QED
  BY <1>1, <1>2, <1>3, <1>4

LEMMA BindingIsSound ==
    ASSUME ArenaInvariant, BindThread
    PROVE  ArenaInvariant'
<1> DEFINE i == Innermost.h[1]
           e == [slots[i] EXCEPT !.bound = TRUE]
<1>0. TypeOK
  BY DEF ArenaInvariant
<1>1. /\ i \in DOMAIN slots /\ slots[i] \in SlotType
      /\ slots' = [slots EXCEPT ![i].bound = TRUE]
      /\ UNCHANGED <<free, liveCount, nextRoot, turn, borrows, pendings, job, todo,
                     rejected, issued>>
  BY InnermostPending DEF BindThread
<1>2. e \in SlotType /\ slots' = [slots EXCEPT ![i] = e]
  BY <1>1 DEF SlotType
<1>3. /\ slots' \in Seq(SlotType) /\ Len(slots') = Len(slots) /\ DOMAIN slots' = DOMAIN slots
      /\ slots'[i] = e /\ \A j \in DOMAIN slots \ {i} : slots'[j] = slots[j]
  BY <1>0, <1>1, <1>2, Replaced
<1>4. \A j \in DOMAIN slots :
          /\ slots'[j].gen = slots[j].gen /\ slots'[j].retired = slots[j].retired
          /\ slots'[j].state = slots[j].state /\ slots'[j].main = slots[j].main
          /\ slots'[j].root = slots[j].root
          /\ slots'[j].borrowed = slots[j].borrowed
  BY <1>1, <1>3 DEF SlotType
<1>5. OccupationKept
  BY <1>1, <1>3, <1>4 DEF OccupationKept
<1>6. /\ FreeListIsExact' /\ CountIsExact' /\ IssuedMatch'
      /\ \A h : Valid(h)' <=> Valid(h)
  BY <1>5, OccupationStays
<1>7. TypeOK'
  BY <1>0, <1>1, <1>3 DEF TypeOK
<1>8. SlotsAreExact'
  BY <1>1, <1>3, <1>4 DEF ArenaInvariant, SlotsAreExact
<1>9. BorrowsMatch'
  <2>1. \A k \in DOMAIN borrows : borrows[k].h[1] \in DOMAIN slots
    BY DEF ArenaInvariant, BorrowsMatch, Valid
  <2>2. \A k \in DOMAIN borrows : slots'[borrows[k].h[1]].borrowed
    BY <1>4, <2>1 DEF ArenaInvariant, BorrowsMatch
  <2>3. QED
    BY <1>1, <1>3, <1>4, <1>6, <2>2, BorrowsStay DEF ArenaInvariant
<1>10. PendingsMatch'
  <2>1. \A p : ValidPending(p) => ValidPending(p)'
    BY <1>3, <1>4, <1>6 DEF ValidPending, Valid
  <2>2. QED
    BY <1>1, <1>3, <1>4, <2>1 DEF ArenaInvariant, PendingsMatch
<1>11. JobMatches'
  BY <1>1 DEF ArenaInvariant, JobMatches, BindThread, Idle
<1>12. QED
  BY <1>6, <1>7, <1>8, <1>9, <1>10, <1>11 DEF ArenaInvariant

LEMMA PublicationIsSound ==
    ASSUME ArenaInvariant, Commit
    PROVE  ArenaInvariant'
<1> DEFINE i == Innermost.h[1]
           e == [slots[i] EXCEPT !.root = 0]
           m == Len(pendings)
           p == [pendings[m] EXCEPT !.committed = TRUE]
<1>0. TypeOK
  BY DEF ArenaInvariant
<1>1. /\ i \in DOMAIN slots /\ slots[i] \in SlotType
      /\ slots[i].root = pendings[m].root
      /\ slots' = [slots EXCEPT ![i].root = 0]
      /\ m \in DOMAIN pendings /\ pendings[m] \in PendingType /\ DOMAIN pendings = 1..m
      /\ pendings[m].h[1] = i
      /\ pendings' = [pendings EXCEPT ![m].committed = TRUE]
      /\ UNCHANGED <<free, liveCount, nextRoot, turn, borrows, job, todo, rejected, issued>>
  BY InnermostPending DEF Commit
<1>2. e \in SlotType /\ slots' = [slots EXCEPT ![i] = e]
  <2>1. 0 \in 0..MaxRoot
    BY BoundsAssumption
  <2>2. e \in SlotType
    BY <1>1, <2>1 DEF SlotType
  <2>3. QED
    BY <1>1, <2>2
<1>3. /\ slots' \in Seq(SlotType) /\ Len(slots') = Len(slots) /\ DOMAIN slots' = DOMAIN slots
      /\ slots'[i] = e /\ \A j \in DOMAIN slots \ {i} : slots'[j] = slots[j]
  BY <1>0, <1>1, <1>2, Replaced
<1>4. \A j \in DOMAIN slots :
          /\ slots'[j].gen = slots[j].gen /\ slots'[j].retired = slots[j].retired
          /\ slots'[j].state = slots[j].state /\ slots'[j].main = slots[j].main
          /\ slots'[j].root = (IF j = i THEN 0 ELSE slots[j].root)
          /\ slots'[j].borrowed = slots[j].borrowed
  BY <1>1, <1>3 DEF SlotType
<1>5. OccupationKept
  BY <1>1, <1>3, <1>4 DEF OccupationKept
<1>6. /\ FreeListIsExact' /\ CountIsExact' /\ IssuedMatch'
      /\ \A h : Valid(h)' <=> Valid(h)
  BY <1>5, OccupationStays
<1>7. /\ pendings' \in Seq(PendingType) /\ DOMAIN pendings' = DOMAIN pendings
      /\ \A k \in DOMAIN pendings :
             /\ pendings'[k].h = pendings[k].h /\ pendings'[k].root = pendings[k].root
             /\ pendings'[k].depth = pendings[k].depth
             /\ pendings'[k].committed <=> pendings[k].committed \/ k = m
  <2>1. p \in PendingType /\ pendings' = [pendings EXCEPT ![m] = p]
    BY <1>1 DEF PendingType
  <2>2. m \in 1..Len(pendings)
    BY <1>1
  <2>3. /\ pendings' \in Seq(PendingType) /\ Len(pendings') = Len(pendings)
        /\ \A k \in 1..m : pendings'[k] = IF k = m THEN p ELSE pendings[k]
    BY <1>0, <2>1, <2>2, ExceptSeq DEF TypeOK
  <2>4. DOMAIN pendings' = DOMAIN pendings
    BY <1>1, <2>3, LenProperties
  <2>5. QED
    BY <1>1, <2>1, <2>3, <2>4 DEF PendingType
<1>8. TypeOK'
  BY <1>0, <1>1, <1>3, <1>7 DEF TypeOK
<1>9. SlotsAreExact'
  BY <1>1, <1>3, <1>4 DEF ArenaInvariant, SlotsAreExact, TypeOK
<1>10. BorrowsMatch'
  <2>1. \A k \in DOMAIN borrows : borrows[k].h[1] \in DOMAIN slots
    BY DEF ArenaInvariant, BorrowsMatch, Valid
  <2>2. \A k \in DOMAIN borrows : slots'[borrows[k].h[1]].borrowed
    BY <1>4, <2>1 DEF ArenaInvariant, BorrowsMatch
  <2>3. QED
    BY <1>1, <1>3, <1>4, <1>6, <2>2, BorrowsStay DEF ArenaInvariant
<1>11. PendingsMatch'
  <2>1. /\ \A k \in DOMAIN pendings : k # m => pendings[k].root # slots[i].root
        /\ slots[i].root # 0
    BY <1>1 DEF ArenaInvariant, PendingsMatch, PendingType
  <2>2. \A k \in DOMAIN pendings : ~pendings'[k].committed => ValidPending(pendings[k])'
    <3> SUFFICES ASSUME NEW k \in DOMAIN pendings, k # m, ~pendings[k].committed
                 PROVE  ValidPending(pendings[k])'
      BY <1>7
    <3>1. ValidPending(pendings[k])
      BY DEF ArenaInvariant, PendingsMatch
    <3>2. pendings[k].h[1] \in DOMAIN slots /\ pendings[k].h[1] # i
      BY <2>1, <3>1 DEF ValidPending, Valid
    <3>3. pendings'[k].h = pendings[k].h /\ pendings'[k].root = pendings[k].root
      BY <1>7
    <3>4. QED
      BY <1>3, <1>4, <3>1, <3>2, <3>3 DEF ValidPending, Valid
  <2>3. \A j \in DOMAIN slots :
            j # i /\ slots[j].root # 0 =>
                \E k \in DOMAIN pendings : ~pendings'[k].committed /\ pendings'[k].h[1] = j
    <3> SUFFICES ASSUME NEW j \in DOMAIN slots, j # i, slots[j].root # 0
                 PROVE  \E k \in DOMAIN pendings :
                            ~pendings'[k].committed /\ pendings'[k].h[1] = j
      OBVIOUS
    <3>1. PICK k \in DOMAIN pendings : ~pendings[k].committed /\ pendings[k].h[1] = j
      BY DEF ArenaInvariant, PendingsMatch
    <3>2. QED
      BY <1>1, <1>7, <3>1
  <2>4. \A j \in DOMAIN slots' :
            slots'[j].root # 0 =>
                \E k \in DOMAIN pendings' : ~pendings'[k].committed /\ pendings'[k].h[1] = j
    BY <1>3, <1>4, <1>7, <2>3
  <2>5. \A k \in DOMAIN pendings' :
            /\ pendings'[k].root < nextRoot /\ pendings'[k].depth \in 1..Len(borrows)
            /\ \A j \in DOMAIN pendings' : j < k => pendings'[j].depth <= pendings'[k].depth
            /\ \A j \in DOMAIN pendings' : pendings'[j].root = pendings'[k].root => j = k
            /\ \A b \in DOMAIN borrows :
                   ~pendings'[k].committed /\ borrows[b].h[1] = pendings'[k].h[1]
                   => b > pendings'[k].depth
    BY <1>7 DEF ArenaInvariant, PendingsMatch
  <2>6. rejected = 0
    BY DEF ArenaInvariant, PendingsMatch
  <2>7. QED
    BY <1>1, <1>7, <2>2, <2>4, <2>5, <2>6 DEF PendingsMatch
<1>12. JobMatches'
  BY <1>1 DEF ArenaInvariant, JobMatches, Commit, Idle
<1>13. QED
  BY <1>6, <1>8, <1>9, <1>10, <1>11, <1>12 DEF ArenaInvariant

-----------------------------------------------------------------------------
(* Vacating a slot *)

LEMMA CoroutinesAreFinite ==
    ASSUME TypeOK
    PROVE  IsFiniteSet(Coroutines) /\ Cardinality(Coroutines) \in Nat
<1>1. IsFiniteSet(1..Len(slots)) /\ Coroutines \subseteq 1..Len(slots)
  BY Shapes, FS_Interval DEF Coroutines
<1>2. QED
  BY <1>1, FS_Subset, FS_CardinalityType

LEMMA VacateEffect ==
    ASSUME ArenaInvariant, NEW i \in DOMAIN slots, slots[i].state, Vacate(i)
    PROVE  /\ slots' \in Seq(SlotType) /\ Len(slots') = Len(slots)
           /\ DOMAIN slots' = DOMAIN slots
           /\ \A j \in DOMAIN slots \ {i} : slots'[j] = slots[j]
           /\ ~slots'[i].state /\ ~slots'[i].main /\ ~slots'[i].borrowed
           /\ slots'[i].root = 0 /\ slots[i].gen \in 1..MaxGen
           /\ \/ /\ slots[i].gen = MaxGen /\ slots'[i].gen = MaxGen
                 /\ slots'[i].retired /\ free' = free
              \/ /\ slots[i].gen < MaxGen /\ slots'[i].gen = slots[i].gen + 1
                 /\ ~slots'[i].retired /\ free' = Append(free, i)
<1> DEFINE old == [NewSlot EXCEPT !.gen = MaxGen, !.retired = TRUE]
           new == [NewSlot EXCEPT !.gen = slots[i].gen + 1]
<1>0. TypeOK
  BY DEF ArenaInvariant
<1>1. slots[i] \in SlotType /\ slots[i].gen \in 1..MaxGen
  BY <1>0, Shapes DEF SlotType
<1>2. 0 \in 0..MaxRoot /\ MaxGen \in 1..MaxGen
  BY BoundsAssumption
<1>3. CASE slots[i].gen = MaxGen
  <2>1. old \in SlotType /\ slots' = [slots EXCEPT ![i] = old] /\ free' = free
    BY <1>2, <1>3 DEF Vacate, NewSlot, SlotType
  <2>2. /\ slots' \in Seq(SlotType) /\ Len(slots') = Len(slots)
        /\ DOMAIN slots' = DOMAIN slots
        /\ slots'[i] = old /\ \A j \in DOMAIN slots \ {i} : slots'[j] = slots[j]
    BY <1>0, <2>1, Replaced
  <2>3. /\ ~old.state /\ ~old.main /\ ~old.borrowed /\ old.root = 0
        /\ old.gen = MaxGen /\ old.retired
    BY DEF NewSlot
  <2>4. QED
    BY <1>1, <1>3, <2>1, <2>2, <2>3
<1>4. CASE slots[i].gen # MaxGen
  <2>1. slots[i].gen + 1 \in 1..MaxGen /\ slots[i].gen < MaxGen
    BY <1>1, <1>4, BoundsAssumption
  <2>2. new \in SlotType /\ slots' = [slots EXCEPT ![i] = new] /\ free' = Append(free, i)
    BY <1>2, <1>4, <2>1 DEF Vacate, NewSlot, SlotType
  <2>3. /\ slots' \in Seq(SlotType) /\ Len(slots') = Len(slots)
        /\ DOMAIN slots' = DOMAIN slots
        /\ slots'[i] = new /\ \A j \in DOMAIN slots \ {i} : slots'[j] = slots[j]
    BY <1>0, <2>2, Replaced
  <2>4. /\ ~new.state /\ ~new.main /\ ~new.borrowed /\ new.root = 0
        /\ new.gen = slots[i].gen + 1 /\ ~new.retired
    BY DEF NewSlot
  <2>5. QED
    BY <1>1, <2>1, <2>2, <2>3, <2>4
<1>5. QED
  BY <1>3, <1>4

LEMMA VacatingIsSound ==
    ASSUME ArenaInvariant, NEW i \in DOMAIN slots, slots[i].state, Vacate(i),
           UNCHANGED <<nextRoot, issued>>,
           liveCount' = IF slots[i].main THEN liveCount ELSE liveCount - 1
    PROVE  /\ FreeListIsExact' /\ SlotsAreExact' /\ CountIsExact' /\ IssuedMatch'
           /\ free' \in Seq(1..MaxSlots) /\ liveCount' \in Nat
           /\ \A h : h[1] # i => (Valid(h)' <=> Valid(h))
<1>0. TypeOK
  BY DEF ArenaInvariant
<1>1. /\ slots' \in Seq(SlotType) /\ Len(slots') = Len(slots)
      /\ DOMAIN slots' = DOMAIN slots
      /\ \A j \in DOMAIN slots \ {i} : slots'[j] = slots[j]
      /\ ~slots'[i].state /\ ~slots'[i].main /\ ~slots'[i].borrowed
      /\ slots'[i].root = 0 /\ slots[i].gen \in 1..MaxGen
      /\ \/ /\ slots[i].gen = MaxGen /\ slots'[i].gen = MaxGen
            /\ slots'[i].retired /\ free' = free
         \/ /\ slots[i].gen < MaxGen /\ slots'[i].gen = slots[i].gen + 1
            /\ ~slots'[i].retired /\ free' = Append(free, i)
  BY VacateEffect
<1>2. \A k \in DOMAIN free : free[k] \in DOMAIN slots /\ free[k] # i
  BY DEF ArenaInvariant, FreeListIsExact
<1>3. FreeListIsExact' /\ free' \in Seq(1..MaxSlots)
  <2>1. CASE slots'[i].retired /\ free' = free
    BY <1>0, <1>1, <1>2, <2>1 DEF ArenaInvariant, FreeListIsExact, TypeOK
  <2>2. CASE ~slots'[i].retired /\ free' = Append(free, i)
    <3>1. i \in 1..MaxSlots /\ free \in Seq(1..MaxSlots)
      BY <1>0, Shapes, BoundsAssumption DEF TypeOK
    <3>2. /\ free' \in Seq(1..MaxSlots) /\ Len(free) \in Nat
          /\ DOMAIN free = 1..Len(free) /\ DOMAIN free' = 1..(Len(free) + 1)
          /\ \A k \in DOMAIN free : free'[k] = free[k]
          /\ free'[Len(free) + 1] = i
      BY <2>2, <3>1, Pushed
    <3>3. DOMAIN free' = DOMAIN free \cup {Len(free) + 1} /\ Len(free) + 1 \notin DOMAIN free
      BY <3>2
    <3>4. \A k \in DOMAIN free' :
              free'[k] \in DOMAIN slots' /\ ~slots'[free'[k]].retired /\ ~slots'[free'[k]].state
      <4>1. \A k \in DOMAIN free :
                /\ free'[k] = free[k] /\ free[k] \in DOMAIN slots \ {i}
                /\ ~slots[free[k]].retired /\ ~slots[free[k]].state
        BY <1>2, <3>2 DEF ArenaInvariant, FreeListIsExact
      <4>2. \A k \in DOMAIN free : ~slots'[free[k]].retired /\ ~slots'[free[k]].state
        BY <1>1, <4>1
      <4>3. QED
        BY <1>1, <2>2, <3>2, <3>3, <4>1, <4>2
    <3>5. \A j, k \in DOMAIN free' : free'[j] = free'[k] => j = k
      BY <1>2, <3>2, <3>3 DEF ArenaInvariant, FreeListIsExact
    <3>6. \A j \in DOMAIN slots' :
              ~slots'[j].retired /\ ~slots'[j].state => \E k \in DOMAIN free' : free'[k] = j
      <4>1. \A j \in DOMAIN slots \ {i} :
                ~slots'[j].retired /\ ~slots'[j].state => \E k \in DOMAIN free : free[k] = j
        BY <1>1 DEF ArenaInvariant, FreeListIsExact
      <4>2. \A j \in DOMAIN slots \ {i} :
                ~slots'[j].retired /\ ~slots'[j].state => \E k \in DOMAIN free' : free'[k] = j
        BY <3>2, <3>3, <4>1
      <4>3. \E k \in DOMAIN free' : free'[k] = i
        BY <3>2, <3>3
      <4>4. QED
        BY <1>1, <4>2, <4>3
    <3>7. QED
      BY <3>2, <3>4, <3>5, <3>6 DEF FreeListIsExact
  <2>3. QED
    BY <1>1, <2>1, <2>2
<1>4. SlotsAreExact'
  <2>1. nextRoot \in 1..MaxRoot
    BY <1>0 DEF TypeOK
  <2>2. \A j \in DOMAIN slots \ {i} :
            /\ slots'[j].retired => ~slots'[j].state /\ slots'[j].gen = MaxGen
            /\ ~slots'[j].state =>
                   ~slots'[j].main /\ ~slots'[j].borrowed /\ slots'[j].root = 0
            /\ slots'[j].main => j = 1 /\ slots'[j].root = 0
            /\ slots'[j].root < nextRoot
            /\ \A k \in DOMAIN slots \ {i} :
                   slots'[j].root # 0 /\ slots'[k].root = slots'[j].root => k = j
    BY <1>1 DEF ArenaInvariant, SlotsAreExact
  <2>3. /\ slots'[i].retired => slots'[i].gen = MaxGen
        /\ slots'[i].root < nextRoot
    BY <1>1, <2>1
  <2>4. QED
    BY <1>1, <2>2, <2>3 DEF SlotsAreExact
<1>5. CountIsExact' /\ liveCount' \in Nat
  <2>1. Coroutines' = Coroutines \ {i}
    BY <1>1 DEF Coroutines
  <2>2. IsFiniteSet(Coroutines) /\ Cardinality(Coroutines) = liveCount
    BY <1>0, CoroutinesAreFinite DEF ArenaInvariant, CountIsExact
  <2>3. /\ IsFiniteSet(Coroutines \ {i})
        /\ Cardinality(Coroutines \ {i}) =
               IF i \in Coroutines THEN liveCount - 1 ELSE liveCount
    BY <2>2, FS_RemoveElement
  <2>4. i \in Coroutines <=> ~slots[i].main
    BY DEF Coroutines
  <2>5. Cardinality(Coroutines') = liveCount'
    BY <2>1, <2>3, <2>4
  <2>6. Cardinality(Coroutines') \in Nat
    BY <2>1, <2>3, FS_CardinalityType
  <2>7. QED
    BY <2>5, <2>6 DEF CountIsExact
<1>6. IssuedMatch'
  <2> SUFFICES ASSUME NEW h \in Handle
               PROVE  h \in issued <=>
                          /\ h[1] \in DOMAIN slots'
                          /\ \/ h[2] < slots'[h[1]].gen
                             \/ /\ h[2] = slots'[h[1]].gen
                                /\ slots'[h[1]].state \/ slots'[h[1]].retired
    BY DEF IssuedMatch
  <2>1. h[2] \in 1..MaxGen
    BY Handles
  <2>2. CASE h[1] # i
    BY <1>1, <2>2 DEF ArenaInvariant, IssuedMatch
  <2>3. CASE h[1] = i
    <3>1. h \in issued <=> h[2] < slots[i].gen \/ h[2] = slots[i].gen
      BY <2>3 DEF ArenaInvariant, IssuedMatch
    <3>2. QED
      BY <1>1, <2>1, <2>3, <3>1, BoundsAssumption
  <2>4. QED
    BY <2>2, <2>3
<1>7. \A h : h[1] # i => (Valid(h)' <=> Valid(h))
  BY <1>1 DEF Valid
<1>8. QED
  BY <1>3, <1>4, <1>5, <1>6, <1>7

LEMMA EndOfGuardIsSound ==
    ASSUME ArenaInvariant, EndPending
    PROVE  ArenaInvariant'
<1> DEFINE i == Innermost.h[1]
           m == Len(pendings)
<1>0. TypeOK /\ BorrowsMatch /\ PendingsMatch
  BY DEF ArenaInvariant
<1>1. /\ Idle /\ PendingOnTop
      /\ m \in DOMAIN pendings /\ Innermost = pendings[m]
      /\ pendings' = SubSeq(pendings, 1, m - 1)
      /\ UNCHANGED <<nextRoot, turn, borrows, job, todo, issued>>
  BY InnermostPending DEF EndPending
<1>2. /\ pendings' \in Seq(PendingType) /\ DOMAIN pendings' = DOMAIN pendings \ {m}
      /\ \A k \in DOMAIN pendings \ {m} : pendings'[k] = pendings[k]
  <2>1. m \in Nat /\ m >= 1 /\ m - 1 \in 0..m
    BY <1>0, <1>1, Shapes
  <2>2. 1..(m - 1) = (1..m) \ {m}
    BY <2>1
  <2>3. QED
    BY <1>0, <1>1, <2>1, <2>2, Cut DEF TypeOK
<1>3. \A k \in DOMAIN pendings' :
          /\ pendings'[k].root < nextRoot /\ pendings'[k].depth \in 1..Len(borrows)
          /\ \A j \in DOMAIN pendings' : j < k => pendings'[j].depth <= pendings'[k].depth
          /\ \A j \in DOMAIN pendings' : pendings'[j].root = pendings'[k].root => j = k
          /\ \A b \in DOMAIN borrows :
                 ~pendings'[k].committed /\ borrows[b].h[1] = pendings'[k].h[1]
                 => b > pendings'[k].depth
  BY <1>0, <1>1, <1>2 DEF PendingsMatch
<1>4. JobMatches'
  <2>1. job = "none" /\ todo = {}
    BY <1>1 DEF ArenaInvariant, JobMatches, Idle
  <2>2. QED
    BY <1>1, <2>1 DEF JobMatches
<1>5. CASE Innermost.committed
  <2>1. UNCHANGED <<slots, free, liveCount, rejected>>
    BY <1>5 DEF EndPending, RollsBack
  <2>2. TypeOK'
    BY <1>0, <1>1, <1>2, <2>1 DEF TypeOK
  <2>3. FreeListIsExact' /\ SlotsAreExact' /\ CountIsExact' /\ IssuedMatch' /\ BorrowsMatch'
    BY <1>1, <2>1 DEF ArenaInvariant, FreeListIsExact, SlotsAreExact, CountIsExact,
                      Coroutines, IssuedMatch, BorrowsMatch, Valid
  <2>4. \A k \in DOMAIN pendings' : ~pendings'[k].committed => ValidPending(pendings[k])'
    BY <1>0, <1>1, <1>2, <2>1 DEF PendingsMatch, ValidPending, Valid
  <2>5. \A j \in DOMAIN slots :
            slots[j].root # 0 =>
                \E k \in DOMAIN pendings' : ~pendings'[k].committed /\ pendings'[k].h[1] = j
    <3> SUFFICES ASSUME NEW j \in DOMAIN slots, slots[j].root # 0
                 PROVE  \E k \in DOMAIN pendings' :
                            ~pendings'[k].committed /\ pendings'[k].h[1] = j
      OBVIOUS
    <3>1. PICK k \in DOMAIN pendings : ~pendings[k].committed /\ pendings[k].h[1] = j
      BY <1>0 DEF PendingsMatch
    <3>2. k # m
      BY <1>1, <1>5, <3>1
    <3>3. QED
      BY <1>2, <3>1, <3>2
  <2>6. PendingsMatch'
    BY <1>0, <1>1, <1>3, <2>1, <2>4, <2>5 DEF PendingsMatch
  <2>7. QED
    BY <1>4, <2>2, <2>3, <2>6 DEF ArenaInvariant
<1>6. CASE ~Innermost.committed
  <2>1. /\ ValidPending(Innermost)
        /\ i \in DOMAIN slots /\ slots[i].state /\ ~slots[i].main /\ ~slots[i].borrowed
        /\ slots[i].root = pendings[m].root /\ slots[i].root # 0
        /\ \A k \in DOMAIN borrows : borrows[k].h[1] # i
    BY <1>1, <1>6, InnermostPending DEF PendingType
  <2>2. Vacate(i) /\ liveCount' = liveCount - 1 /\ UNCHANGED rejected
    BY <1>6, <2>1 DEF EndPending, RollsBack
  <2>3. /\ FreeListIsExact' /\ SlotsAreExact' /\ CountIsExact' /\ IssuedMatch'
        /\ free' \in Seq(1..MaxSlots) /\ liveCount' \in Nat
        /\ \A h : h[1] # i => (Valid(h)' <=> Valid(h))
    BY <1>1, <2>1, <2>2, VacatingIsSound
  <2>4. /\ slots' \in Seq(SlotType) /\ Len(slots') = Len(slots)
        /\ DOMAIN slots' = DOMAIN slots
        /\ \A j \in DOMAIN slots \ {i} : slots'[j] = slots[j]
        /\ ~slots'[i].borrowed /\ slots'[i].root = 0
    BY <2>1, <2>2, VacateEffect
  <2>5. TypeOK'
    BY <1>0, <1>1, <1>2, <2>2, <2>3, <2>4 DEF TypeOK
  <2>6. BorrowsMatch'
    <3>1. \A k \in DOMAIN borrows : borrows[k].h[1] \in DOMAIN slots \ {i}
      BY <1>0, <2>1 DEF BorrowsMatch, Valid
    <3>2. \A k \in DOMAIN borrows : slots'[borrows[k].h[1]].borrowed
      BY <1>0, <2>4, <3>1 DEF BorrowsMatch
    <3>3. \A k \in DOMAIN borrows : Valid(borrows[k].h) => Valid(borrows[k].h)'
      <4>1. \A k \in DOMAIN borrows : \A h : h = borrows[k].h => (Valid(h)' <=> Valid(h))
        BY <2>1, <2>3
      <4>2. QED
        BY <1>1, <2>4, <3>1 DEF Valid
    <3>4. \A j \in DOMAIN slots' : slots'[j].borrowed => j \in DOMAIN slots /\ slots[j].borrowed
      BY <2>4
    <3>5. QED
      BY <1>0, <1>1, <3>2, <3>3, <3>4, BorrowsStay
  <2>7. \A k \in DOMAIN pendings \ {m} : ~pendings[k].committed =>
            ValidPending(pendings[k]) /\ pendings[k].h[1] \in DOMAIN slots \ {i}
    <3>1. \A k \in DOMAIN pendings \ {m} : pendings[k].root # slots[i].root
      BY <1>0, <1>1, <2>1 DEF PendingsMatch
    <3>2. \A k \in DOMAIN pendings \ {m} : ~pendings[k].committed => ValidPending(pendings[k])
      BY <1>0, <1>1 DEF PendingsMatch
    <3>3. QED
      BY <3>1, <3>2 DEF ValidPending, Valid
  <2>8. \A k \in DOMAIN pendings' : ~pendings'[k].committed => ValidPending(pendings[k])'
    BY <1>2, <2>4, <2>7 DEF ValidPending, Valid
  <2>9. \A j \in DOMAIN slots' :
            slots'[j].root # 0 =>
                \E k \in DOMAIN pendings' : ~pendings'[k].committed /\ pendings'[k].h[1] = j
    <3> SUFFICES ASSUME NEW j \in DOMAIN slots, j # i, slots[j].root # 0
                 PROVE  \E k \in DOMAIN pendings' :
                            ~pendings'[k].committed /\ pendings'[k].h[1] = j
      BY <2>4
    <3>1. PICK k \in DOMAIN pendings : ~pendings[k].committed /\ pendings[k].h[1] = j
      BY <1>0 DEF PendingsMatch
    <3>2. k # m
      BY <1>1, <3>1
    <3>3. QED
      BY <1>1, <1>2, <3>1, <3>2
  <2>10. PendingsMatch'
    BY <1>0, <1>1, <1>3, <2>2, <2>8, <2>9 DEF PendingsMatch
  <2>11. QED
    BY <1>4, <2>3, <2>5, <2>6, <2>10 DEF ArenaInvariant
<1>7. QED
  BY <1>5, <1>6

-----------------------------------------------------------------------------
(* Removing states *)

LEMMA RemovalIsSound ==
    ASSUME ArenaInvariant, RemoveOne
    PROVE  ArenaInvariant'
<1>0. TypeOK
  BY DEF ArenaInvariant
<1>1. PICK i \in Next1 :
          /\ Vacate(i)
          /\ liveCount' = IF slots[i].main THEN liveCount ELSE liveCount - 1
          /\ todo' = todo \ {i}
  BY DEF RemoveOne
<1>2. /\ job \in {"sweep", "drain"} /\ borrows = <<>> /\ pendings = <<>>
      /\ UNCHANGED <<nextRoot, turn, borrows, pendings, job, rejected, issued>>
  BY DEF RemoveOne, ArenaInvariant, JobMatches
<1>3. i \in todo /\ i \in DOMAIN slots /\ slots[i].state
  BY <1>0, <1>1, <1>2 DEF Next1, TypeOK, ArenaInvariant, JobMatches
<1>4. DOMAIN borrows = {} /\ DOMAIN pendings = {}
  BY <1>0, <1>2, Shapes
<1>5. /\ FreeListIsExact' /\ SlotsAreExact' /\ CountIsExact' /\ IssuedMatch'
      /\ free' \in Seq(1..MaxSlots) /\ liveCount' \in Nat
  BY <1>1, <1>2, <1>3, VacatingIsSound
<1>6. /\ slots' \in Seq(SlotType) /\ Len(slots') = Len(slots)
      /\ DOMAIN slots' = DOMAIN slots
      /\ \A j \in DOMAIN slots \ {i} : slots'[j] = slots[j]
      /\ ~slots'[i].borrowed /\ slots'[i].root = 0
  BY <1>1, <1>3, VacateEffect
<1>7. TypeOK'
  BY <1>0, <1>1, <1>2, <1>5, <1>6 DEF TypeOK
<1>8. BorrowsMatch'
  <2>1. \A j \in DOMAIN slots' : ~slots'[j].borrowed
    BY <1>4, <1>6 DEF ArenaInvariant, BorrowsMatch
  <2>2. turn = NoHandle
    BY <1>2 DEF ArenaInvariant, BorrowsMatch
  <2>3. QED
    BY <1>2, <1>4, <2>1, <2>2 DEF BorrowsMatch
<1>9. PendingsMatch'
  <2>1. \A j \in DOMAIN slots' : slots'[j].root = 0
    BY <1>4, <1>6 DEF ArenaInvariant, PendingsMatch
  <2>2. rejected = 0
    BY DEF ArenaInvariant, PendingsMatch
  <2>3. QED
    BY <1>2, <1>4, <2>1, <2>2 DEF PendingsMatch
<1>10. JobMatches'
  <2>1. \A j \in todo : slots[j].state /\ j \in DOMAIN slots
    BY <1>0, <1>2 DEF ArenaInvariant, JobMatches, TypeOK
  <2>2. \A j \in todo' : slots'[j].state
    BY <1>1, <1>6, <2>1
  <2>3. QED
    BY <1>2, <2>2 DEF JobMatches
<1>11. QED
  BY <1>5, <1>7, <1>8, <1>9, <1>10 DEF ArenaInvariant

\* The steps that change nothing but the job.
LEMMA JobsAreSound ==
    ASSUME ArenaInvariant,
           StartDrain \/ EndJob \/ \E R \in SUBSET (1..MaxSlots) : StartSweep(R)
    PROVE  ArenaInvariant'
<1>0. TypeOK
  BY DEF ArenaInvariant
<1>1. UNCHANGED <<slots, free, liveCount, nextRoot, turn, borrows, pendings, rejected, issued>>
  BY DEF StartDrain, EndJob, StartSweep
<1>2. /\ FreeListIsExact' /\ SlotsAreExact' /\ CountIsExact' /\ IssuedMatch'
      /\ BorrowsMatch' /\ PendingsMatch'
  BY <1>1 DEF ArenaInvariant, FreeListIsExact, SlotsAreExact, CountIsExact, Coroutines,
              IssuedMatch, BorrowsMatch, PendingsMatch, ValidPending, Valid
<1>3. todo' \subseteq DOMAIN slots /\ job' \in {"none", "sweep", "drain", "closed"}
  BY <1>0 DEF StartDrain, EndJob, StartSweep, TypeOK, Coroutines
<1>4. TypeOK'
  BY <1>0, <1>1, <1>3 DEF TypeOK
<1>5. JobMatches'
  <2>1. CASE EndJob
    BY <1>1, <2>1 DEF EndJob, ArenaInvariant, JobMatches
  <2>2. CASE StartDrain \/ \E R \in SUBSET (1..MaxSlots) : StartSweep(R)
    <3>1. NothingBorrowed /\ job' \in {"sweep", "drain"} /\ \A i \in todo' : slots[i].state
      BY <2>2 DEF StartDrain, StartSweep, MayRemove, Coroutines
    <3>2. Len(borrows) = 0
      <4>1. \A k \in DOMAIN borrows : FALSE
        BY <3>1 DEF ArenaInvariant, BorrowsMatch, NothingBorrowed, Valid
      <4>2. QED
        BY <1>0, <4>1, Shapes
    <3>3. Len(pendings) = 0
      <4>1. \A k \in DOMAIN pendings : FALSE
        BY <3>2 DEF ArenaInvariant, PendingsMatch
      <4>2. QED
        BY <1>0, <4>1, Shapes
    <3>4. borrows = <<>> /\ pendings = <<>>
      BY <1>0, <3>2, <3>3, Shapes
    <3>5. QED
      BY <1>1, <3>1, <3>4 DEF JobMatches
  <2>3. QED
    BY <2>1, <2>2
<1>6. QED
  BY <1>2, <1>4, <1>5 DEF ArenaInvariant

-----------------------------------------------------------------------------
(* Reserving a slot *)

LEMMA NewSlotHasType == NewSlot \in SlotType
<1>1. 1 \in 1..MaxGen /\ 0 \in 0..MaxRoot
  BY BoundsAssumption
<1>2. QED
  BY <1>1 DEF NewSlot, SlotType

\* The last entry of the free list is usable: nothing stale is ever on it.
LEMMA ReservedEffect ==
    ASSUME ArenaInvariant, NEW i, NEW table, NEW rest, Reserved(i, table, rest)
    PROVE  \/ /\ free # <<>> /\ i = free[Len(free)] /\ table = slots
              /\ rest = SubSeq(free, 1, Len(free) - 1)
           \/ /\ free = <<>> /\ Len(slots) < MaxSlots /\ i = Len(slots) + 1
              /\ table = Append(slots, NewSlot) /\ rest = <<>>
<1>0. TypeOK /\ DOMAIN free = 1..Len(free) /\ Len(free) \in Nat /\ free \in Seq(1..MaxSlots)
  BY Shapes DEF ArenaInvariant, TypeOK
<1>1. \A k \in DOMAIN free : Usable(free[k])
  BY DEF ArenaInvariant, FreeListIsExact, SlotsAreExact, Usable
<1>2. CASE \E k \in DOMAIN free :
               /\ Usable(free[k])
               /\ \A j \in k+1..Len(free) : ~Usable(free[j])
               /\ i = free[k] /\ table = slots
               /\ rest = SubSeq(free, 1, k - 1)
  <2>1. PICK k \in 1..Len(free) :
               /\ \A j \in k+1..Len(free) : ~Usable(free[j])
               /\ i = free[k] /\ table = slots
               /\ rest = SubSeq(free, 1, k - 1)
    BY <1>0, <1>2
  <2>2. ASSUME k # Len(free) PROVE FALSE
    <3>1. Len(free) \in Nat
      BY <1>0
    <3>2. Len(free) \in k+1..Len(free) /\ Len(free) \in 1..Len(free)
      BY <2>2, <3>1
    <3>3. Usable(free[Len(free)])
      BY <1>0, <1>1, <3>2
    <3>4. ~Usable(free[Len(free)])
      BY <2>1, <3>2
    <3>5. QED
      BY <3>3, <3>4
  <2>3. free # <<>>
    BY <1>0, EmptySeq
  <2>4. QED
    BY <2>1, <2>2, <2>3
<1>3. CASE /\ \A k \in DOMAIN free : ~Usable(free[k])
           /\ Len(slots) < MaxSlots
           /\ i = Len(slots) + 1 /\ table = Append(slots, NewSlot) /\ rest = <<>>
  <2>1. \A k \in DOMAIN free : FALSE
    BY <1>1, <1>3
  <2>2. Len(free) = 0
    <3>1. PICK n \in Nat : n = Len(free)
      BY <1>0
    <3>2. \A k \in 1..n : FALSE
      BY <1>0, <2>1, <3>1
    <3>3. n = 0
      BY <3>2
    <3>4. QED
      BY <3>1, <3>3
  <2>3. free = <<>>
    BY <1>0, <2>2, EmptySeq
  <2>4. QED
    BY <1>3, <2>3
<1>4. QED
  BY <1>2, <1>3 DEF Reserved

\* What reserve_slot leaves of the table and of the free list.
LEMMA ReservedIsVacant ==
    ASSUME ArenaInvariant, NEW i, NEW table, NEW rest, Reserved(i, table, rest)
    PROVE  /\ table \in Seq(SlotType) /\ i \in DOMAIN table /\ i \in 1..MaxSlots
           /\ Len(table) \in 1..MaxSlots /\ DOMAIN table = 1..Len(table)
           /\ DOMAIN table = DOMAIN slots \cup {i}
           /\ \A j \in DOMAIN slots : table[j] = slots[j]
           /\ ~table[i].retired /\ ~table[i].state /\ ~table[i].main /\ ~table[i].borrowed
           /\ table[i].root = 0 /\ table[i].gen \in 1..MaxGen
           /\ i \notin DOMAIN slots => table[i].gen = 1
           /\ rest \in Seq(1..MaxSlots) /\ DOMAIN rest \subseteq DOMAIN free
           /\ \A k \in DOMAIN rest : rest[k] = free[k] /\ rest[k] # i
           /\ \A k \in DOMAIN free : free[k] # i => k \in DOMAIN rest
<1>0. /\ TypeOK /\ slots \in Seq(SlotType) /\ free \in Seq(1..MaxSlots)
      /\ DOMAIN free = 1..Len(free) /\ Len(free) \in Nat
      /\ DOMAIN slots = 1..Len(slots) /\ Len(slots) \in 1..MaxSlots
  BY Shapes DEF ArenaInvariant, TypeOK
<1>1. CASE /\ free # <<>> /\ i = free[Len(free)] /\ table = slots
           /\ rest = SubSeq(free, 1, Len(free) - 1)
  <2> DEFINE n == Len(free)
  <2>1. n \in Nat /\ n >= 1 /\ n - 1 \in 0..n /\ n \in DOMAIN free
    BY <1>0, <1>1, EmptySeq
  <2>2. i \in DOMAIN slots /\ ~slots[i].retired /\ ~slots[i].state
    BY <1>1, <2>1 DEF ArenaInvariant, FreeListIsExact
  <2>3. ~slots[i].main /\ ~slots[i].borrowed /\ slots[i].root = 0
    BY <2>2 DEF ArenaInvariant, SlotsAreExact
  <2>4. slots[i].gen \in 1..MaxGen
    BY <1>0, <2>2, Shapes DEF SlotType
  <2>5. /\ rest \in Seq(1..MaxSlots) /\ DOMAIN rest = 1..(n - 1)
        /\ \A k \in 1..(n - 1) : rest[k] = free[k]
    BY <1>0, <1>1, <2>1, Cut, ZenonT(60)
  <2>6. DOMAIN rest = DOMAIN free \ {n}
    <3>1. 1..(n - 1) = (1..n) \ {n}
      BY <2>1
    <3>2. QED
      BY <1>0, <2>5, <3>1
  <2>7. \A k \in DOMAIN free : free[k] = i => k = n
    BY <1>1, <2>1 DEF ArenaInvariant, FreeListIsExact
  <2>8. i \in 1..MaxSlots
    BY <1>0, <1>1, <2>1, ElementOfSeq
  <2>9. QED
    BY <1>0, <1>1, <2>2, <2>3, <2>4, <2>5, <2>6, <2>7, <2>8
<1>2. CASE /\ free = <<>> /\ Len(slots) < MaxSlots /\ i = Len(slots) + 1
           /\ table = Append(slots, NewSlot) /\ rest = <<>>
  <2>1. /\ table \in Seq(SlotType) /\ DOMAIN table = 1..(Len(slots) + 1)
        /\ Len(table) = Len(slots) + 1
        /\ \A j \in DOMAIN slots : table[j] = slots[j]
        /\ table[i] = NewSlot
    BY <1>0, <1>2, NewSlotHasType, Pushed
  <2>2. /\ i \in 1..MaxSlots /\ i \notin DOMAIN slots
        /\ 1..(Len(slots) + 1) = 1..Len(slots) \cup {i}
        /\ Len(slots) + 1 \in 1..MaxSlots
    BY <1>0, <1>2, BoundsAssumption
  <2>3. /\ ~NewSlot.retired /\ ~NewSlot.state /\ ~NewSlot.main /\ ~NewSlot.borrowed
        /\ NewSlot.root = 0 /\ NewSlot.gen = 1 /\ NewSlot.gen \in 1..MaxGen
    BY BoundsAssumption DEF NewSlot
  <2>4. rest \in Seq(1..MaxSlots) /\ DOMAIN rest = {} /\ DOMAIN free = {}
    BY <1>0, <1>2, EmptySeq, Shapes
  <2>5. QED
    BY <1>0, <2>1, <2>2, <2>3, <2>4
<1>3. QED
  BY <1>1, <1>2, ReservedEffect

LEMMA IssuingIsSound ==
    ASSUME ArenaInvariant, BeginPending
    PROVE  ArenaInvariant'
<1>0. TypeOK /\ BorrowsMatch /\ PendingsMatch
  BY DEF ArenaInvariant
<1>1. PICK i \in 1..MaxSlots, rest \in {SubSeq(free, 1, n) : n \in 0..Len(free)},
           table \in {slots, Append(slots, NewSlot)} :
           /\ Reserved(i, table, rest)
           /\ slots' = [table EXCEPT ![i].state = TRUE, ![i].root = nextRoot]
           /\ free' = rest
           /\ pendings' = Append(pendings,
                  [h |-> <<i, table[i].gen>>, root |-> nextRoot, depth |-> Len(borrows),
                   committed |-> FALSE])
           /\ issued' = issued \cup {<<i, table[i].gen>>}
  BY DEF BeginPending
<1>2. /\ job = "none" /\ borrows # <<>> /\ liveCount' = liveCount + 1
      /\ nextRoot' = nextRoot + 1
      /\ nextRoot < MaxRoot /\ nextRoot \in 1..MaxRoot /\ nextRoot' \in 1..MaxRoot
      /\ UNCHANGED <<turn, borrows, job, todo, rejected>>
  <2>1. /\ job = "none" /\ borrows # <<>> /\ liveCount' = liveCount + 1
        /\ nextRoot' = nextRoot + 1 /\ nextRoot < MaxRoot
        /\ UNCHANGED <<turn, borrows, job, todo, rejected>>
    BY DEF BeginPending, Idle, RootIdsLeft
  <2>2. nextRoot \in 1..MaxRoot
    BY <1>0 DEF TypeOK
  <2>3. nextRoot + 1 \in 1..MaxRoot
    BY <2>1, <2>2, BoundsAssumption
  <2>4. QED
    BY <2>1, <2>2, <2>3
<1>n. PICK N : N = Len(pendings) + 1
  OBVIOUS
<1>3. /\ table \in Seq(SlotType) /\ i \in DOMAIN table /\ i \in 1..MaxSlots
      /\ Len(table) \in 1..MaxSlots /\ DOMAIN table = 1..Len(table)
      /\ DOMAIN table = DOMAIN slots \cup {i}
      /\ \A j \in DOMAIN slots : table[j] = slots[j]
      /\ ~table[i].retired /\ ~table[i].state /\ ~table[i].main /\ ~table[i].borrowed
      /\ table[i].root = 0 /\ table[i].gen \in 1..MaxGen
      /\ i \notin DOMAIN slots => table[i].gen = 1
      /\ rest \in Seq(1..MaxSlots) /\ DOMAIN rest \subseteq DOMAIN free
      /\ \A k \in DOMAIN rest : rest[k] = free[k] /\ rest[k] # i
      /\ \A k \in DOMAIN free : free[k] # i => k \in DOMAIN rest
  BY <1>1, ReservedIsVacant
<1>g. PICK g : g = table[i].gen
  OBVIOUS
<1> DEFINE p == [h |-> <<i, g>>, root |-> nextRoot, depth |-> Len(borrows), committed |-> FALSE]
<1>4. /\ slots' \in Seq(SlotType) /\ Len(slots') = Len(table)
      /\ DOMAIN slots' = DOMAIN slots \cup {i}
      /\ \A j \in DOMAIN slots \ {i} : slots'[j] = slots[j]
      /\ slots'[i].state /\ ~slots'[i].retired /\ ~slots'[i].main /\ ~slots'[i].borrowed
      /\ slots'[i].root = nextRoot /\ slots'[i].gen = g
  <2>1. nextRoot \in 0..MaxRoot
    BY <1>2, BoundsAssumption
  <2>2. table[i] \in SlotType
    BY <1>3, ElementOfSeq
  <2>3. PICK e : e = [table[i] EXCEPT !.state = TRUE, !.root = nextRoot]
    OBVIOUS
  <2>4. /\ e \in SlotType
        /\ e.state /\ e.retired = table[i].retired /\ e.main = table[i].main
        /\ e.borrowed = table[i].borrowed /\ e.root = nextRoot /\ e.gen = table[i].gen
    BY <2>1, <2>2, <2>3 DEF SlotType
  <2>5. slots' = [table EXCEPT ![i] = e]
    BY <1>1, <1>3, <2>2, <2>3 DEF SlotType
  <2>6. /\ [table EXCEPT ![i] = e] \in Seq(SlotType)
        /\ Len([table EXCEPT ![i] = e]) = Len(table)
        /\ \A j \in 1..Len(table) :
               [table EXCEPT ![i] = e][j] = IF j = i THEN e ELSE table[j]
    <3>1. table \in Seq(SlotType) /\ i \in 1..Len(table)
      BY <1>3
    <3>2. QED
      BY <3>1, <2>4, ExceptSeq
  <2>7. DOMAIN slots' = DOMAIN table
    BY <1>3, <2>5, <2>6, LenProperties
  <2>8. slots'[i] = e
    BY <1>3, <2>5, <2>6
  <2>9. /\ slots'[i].state /\ ~slots'[i].retired /\ ~slots'[i].main /\ ~slots'[i].borrowed
        /\ slots'[i].root = nextRoot /\ slots'[i].gen = g
    BY <1>3, <1>g, <2>4, <2>8
  <2>10. QED
    BY <1>3, <2>5, <2>6, <2>7, <2>9
<1>5. i \in DOMAIN slots => /\ ~slots[i].retired /\ ~slots[i].state /\ ~slots[i].borrowed
                            /\ slots[i].root = 0 /\ slots[i].gen = g
  BY <1>3, <1>g
<1>6. /\ pendings' \in Seq(PendingType) /\ N \in DOMAIN pendings'
      /\ DOMAIN pendings' = DOMAIN pendings \cup {N} /\ N \notin DOMAIN pendings
      /\ \A k \in DOMAIN pendings : pendings'[k] = pendings[k] /\ k < N
      /\ pendings'[N] = p
  <2>1. /\ <<i, g>> \in Handle /\ Len(borrows) \in Nat
        /\ pendings \in Seq(PendingType)
    BY <1>0, <1>3, <1>g, Shapes DEF Handle, TypeOK
  <2>2. p \in PendingType
    BY <1>2, <2>1 DEF PendingType
  <2>3. /\ pendings' \in Seq(PendingType) /\ DOMAIN pendings = 1..Len(pendings)
        /\ DOMAIN pendings' = 1..(Len(pendings) + 1) /\ Len(pendings) \in Nat
        /\ \A k \in DOMAIN pendings : pendings'[k] = pendings[k]
        /\ pendings'[Len(pendings) + 1] = p
    BY <1>1, <1>g, <2>1, <2>2, Pushed
  <2>4. QED
    BY <2>3, <1>n
<1>7. TypeOK'
  <2>1. todo' \subseteq DOMAIN slots' /\ issued' \subseteq Handle /\ liveCount' \in Nat
    <3>1. <<i, g>> \in Handle
      BY <1>3, <1>g DEF Handle
    <3>2. issued' \subseteq Handle
      BY <1>0, <1>1, <1>g, <3>1 DEF TypeOK
    <3>3. todo' \subseteq DOMAIN slots'
      BY <1>0, <1>2, <1>4 DEF TypeOK
    <3>4. liveCount' \in Nat
      BY <1>0, <1>2 DEF TypeOK
    <3>5. QED
      BY <3>2, <3>3, <3>4
  <2>2. QED
    BY <1>0, <1>1, <1>2, <1>3, <1>4, <1>6, <2>1 DEF TypeOK
<1>8. FreeListIsExact'
  <2>1. \A k \in DOMAIN rest :
            /\ rest[k] = free[k] /\ k \in DOMAIN free /\ rest[k] \in DOMAIN slots \ {i}
            /\ ~slots[rest[k]].retired /\ ~slots[rest[k]].state
    BY <1>3 DEF ArenaInvariant, FreeListIsExact
  <2>2. \A k \in DOMAIN rest :
            rest[k] \in DOMAIN slots' /\ ~slots'[rest[k]].retired /\ ~slots'[rest[k]].state
    BY <1>4, <2>1
  <2>3. \A j, k \in DOMAIN rest : rest[j] = rest[k] => j = k
    BY <2>1 DEF ArenaInvariant, FreeListIsExact
  <2>4. \A j \in DOMAIN slots \ {i} :
            ~slots[j].retired /\ ~slots[j].state => \E k \in DOMAIN rest : rest[k] = j
    <3> SUFFICES ASSUME NEW j \in DOMAIN slots, j # i, ~slots[j].retired, ~slots[j].state
                 PROVE  \E k \in DOMAIN rest : rest[k] = j
      OBVIOUS
    <3>1. PICK k \in DOMAIN free : free[k] = j
      BY DEF ArenaInvariant, FreeListIsExact
    <3>2. k \in DOMAIN rest
      BY <1>3, <3>1
    <3>3. rest[k] = j
      BY <1>3, <3>1, <3>2
    <3>4. QED
      BY <3>2, <3>3
  <2>5. \A j \in DOMAIN slots' :
            ~slots'[j].retired /\ ~slots'[j].state => \E k \in DOMAIN rest : rest[k] = j
    BY <1>4, <2>4
  <2>6. QED
    BY <1>1, <2>2, <2>3, <2>5 DEF FreeListIsExact
<1>9. SlotsAreExact'
  <2>1. \A j \in DOMAIN slots \ {i} :
            /\ slots'[j].retired => ~slots'[j].state /\ slots'[j].gen = MaxGen
            /\ ~slots'[j].state =>
                   ~slots'[j].main /\ ~slots'[j].borrowed /\ slots'[j].root = 0
            /\ slots'[j].main => j = 1 /\ slots'[j].root = 0
            /\ slots'[j].root < nextRoot
            /\ \A k \in DOMAIN slots \ {i} :
                   slots'[j].root # 0 /\ slots'[k].root = slots'[j].root => k = j
    BY <1>4 DEF ArenaInvariant, SlotsAreExact
  <2>2. \A j \in DOMAIN slots \ {i} : slots'[j].root \in Nat
    BY <1>0, <1>4, Shapes DEF SlotType
  <2>3. \A j \in DOMAIN slots \ {i} : slots'[j].root # nextRoot /\ slots'[j].root < nextRoot'
    BY <1>2, <2>1, <2>2
  <2>4. QED
    BY <1>2, <1>4, <2>1, <2>3 DEF SlotsAreExact
<1>10. CountIsExact'
  <2>1. Coroutines' = Coroutines \cup {i} /\ i \notin Coroutines
    BY <1>4, <1>5 DEF Coroutines
  <2>2. IsFiniteSet(Coroutines) /\ Cardinality(Coroutines) = liveCount
    BY <1>0, CoroutinesAreFinite DEF ArenaInvariant, CountIsExact
  <2>3. Cardinality(Coroutines \cup {i}) = liveCount + 1
    BY <2>1, <2>2, FS_AddElement
  <2>4. QED
    BY <1>2, <2>1, <2>3 DEF CountIsExact
<1>11. IssuedMatch'
  <2> SUFFICES ASSUME NEW h \in Handle
               PROVE  h \in issued' <=>
                          /\ h[1] \in DOMAIN slots'
                          /\ \/ h[2] < slots'[h[1]].gen
                             \/ /\ h[2] = slots'[h[1]].gen
                                /\ slots'[h[1]].state \/ slots'[h[1]].retired
    BY DEF IssuedMatch
  <2>1. h[2] \in 1..MaxGen /\ h = <<h[1], h[2]>>
    BY Handles
  <2>2. h \in issued <=>
            /\ h[1] \in DOMAIN slots
            /\ \/ h[2] < slots[h[1]].gen
               \/ h[2] = slots[h[1]].gen /\ (slots[h[1]].state \/ slots[h[1]].retired)
    BY DEF ArenaInvariant, IssuedMatch
  <2>3. CASE h[1] # i
    <3>1. h \in issued' <=> h \in issued
      BY <1>1, <1>g, <2>3
    <3>2. QED
      BY <1>4, <2>2, <2>3, <3>1
  <2>4. CASE h[1] = i
    <3>1. h \in issued <=> h[2] < g
      <4>1. CASE i \in DOMAIN slots
        BY <1>5, <2>2, <2>4, <4>1
      <4>2. CASE i \notin DOMAIN slots
        <5>0. g = 1
          BY <1>3, <1>g, <4>2
        <5>1. ~(h[2] < g)
          BY <2>1, <5>0
        <5>2. QED
          BY <2>2, <2>4, <4>2, <5>1
      <4>3. QED
        BY <4>1, <4>2
    <3>2. h = <<i, g>> <=> h[2] = g
      BY <2>1, <2>4
    <3>3. QED
      <4>1. issued' = issued \cup {<<i, g>>}
        BY <1>1, <1>g
      <4>2. /\ h[1] \in DOMAIN slots'
            /\ slots'[h[1]].state /\ slots'[h[1]].gen = g
        BY <1>4, <2>4
      <4>3. h \in issued' <=> (h[2] < g \/ h[2] = g)
        BY <3>1, <3>2, <4>1
      <4>4. QED
        BY <4>2, <4>3
  <2>5. QED
    BY <2>3, <2>4
<1>12. \A h : Valid(h) => Valid(h)' /\ h[1] # i
  BY <1>4, <1>5 DEF Valid
<1>13. BorrowsMatch'
  <2>1. \A k \in DOMAIN borrows : borrows[k].h[1] \in DOMAIN slots \ {i}
    BY <1>0, <1>12 DEF BorrowsMatch, Valid
  <2>2. \A k \in DOMAIN borrows : slots'[borrows[k].h[1]].borrowed
    BY <1>0, <1>4, <2>1 DEF BorrowsMatch
  <2>3. \A k \in DOMAIN borrows : Valid(borrows[k].h) => Valid(borrows[k].h)'
    BY <1>2, <1>4, <2>1 DEF Valid
  <2>4. \A j \in DOMAIN slots' : slots'[j].borrowed => j \in DOMAIN slots /\ slots[j].borrowed
    BY <1>4
  <2>5. QED
    BY <1>0, <1>2, <2>2, <2>3, <2>4, BorrowsStay
<1>14. PendingsMatch'
  <2>1. Len(borrows) \in Nat /\ Len(borrows) \in 1..Len(borrows) /\ DOMAIN borrows = 1..Len(borrows)
    BY <1>0, <1>2, Shapes
  <2>2. \A k \in DOMAIN pendings : ~pendings[k].committed =>
            ValidPending(pendings[k]) /\ pendings[k].h[1] \in DOMAIN slots \ {i}
    BY <1>0, <1>12 DEF PendingsMatch, ValidPending, Valid
  <2>3. \A k \in DOMAIN pendings' : ~pendings'[k].committed => ValidPending(pendings[k])'
    <3>1. \A k \in DOMAIN pendings : ~pendings'[k].committed => ValidPending(pendings[k])'
      BY <1>4, <1>6, <2>2 DEF ValidPending, Valid
    <3>2. /\ pendings'[N].h[1] = i /\ pendings'[N].h[2] = g
          /\ pendings'[N].root = nextRoot
      BY <1>6
    <3>3. ValidPending(pendings[N])'
      BY <1>4, <3>2 DEF ValidPending, Valid
    <3>4. QED
      BY <1>6, <3>1, <3>3
  <2>4. \A k \in DOMAIN pendings :
            /\ pendings[k].root \in Nat /\ pendings[k].depth \in 1..Len(borrows)
            /\ pendings[k].root < nextRoot /\ pendings[k].root # nextRoot
            /\ pendings[k].root < nextRoot'
    BY <1>0, <1>2, Shapes DEF PendingsMatch, PendingType
  <2>5. \A k \in DOMAIN pendings' :
            pendings'[k].root < nextRoot' /\ pendings'[k].depth \in 1..Len(borrows)
    BY <1>2, <1>6, <2>1, <2>4
  <2>6. \A j, k \in DOMAIN pendings' : j < k => pendings'[j].depth <= pendings'[k].depth
    <3>1. \A j, k \in DOMAIN pendings : j < k => pendings'[j].depth <= pendings'[k].depth
      BY <1>0, <1>6 DEF PendingsMatch
    <3>2. \A j \in DOMAIN pendings : ~(N < j) /\ pendings'[j].depth <= pendings'[N].depth
      <4>1. N \in Nat /\ \A j \in DOMAIN pendings : j \in Nat /\ j < N
        BY <1>n, <1>0, Shapes
      <4>2. QED
        BY <1>6, <2>1, <2>4, <4>1
    <3>3. ~(N < N)
      BY <1>n, <1>0, Shapes
    <3>4. QED
      BY <1>6, <3>1, <3>2, <3>3
  <2>7. \A j, k \in DOMAIN pendings' : pendings'[j].root = pendings'[k].root => j = k
    BY <1>0, <1>6, <2>4 DEF PendingsMatch
  <2>8. \A k \in DOMAIN pendings' : \A b \in DOMAIN borrows :
            ~pendings'[k].committed /\ borrows[b].h[1] = pendings'[k].h[1]
            => b > pendings'[k].depth
    <3>1. \A b \in DOMAIN borrows : borrows[b].h[1] # pendings'[N].h[1]
      BY <1>0, <1>6, <1>12 DEF BorrowsMatch
    <3>2. QED
      BY <1>0, <1>6, <3>1 DEF PendingsMatch
  <2>9. \A j \in DOMAIN slots' :
            slots'[j].root # 0 =>
                \E k \in DOMAIN pendings' : ~pendings'[k].committed /\ pendings'[k].h[1] = j
    <3>1. \A j \in DOMAIN slots \ {i} :
            slots'[j].root # 0 =>
                \E k \in DOMAIN pendings : ~pendings'[k].committed /\ pendings'[k].h[1] = j
      <4> SUFFICES ASSUME NEW j \in DOMAIN slots, slots[j].root # 0
                   PROVE  \E k \in DOMAIN pendings :
                              ~pendings'[k].committed /\ pendings'[k].h[1] = j
        BY <1>4
      <4>1. PICK k \in DOMAIN pendings : ~pendings[k].committed /\ pendings[k].h[1] = j
        BY <1>0 DEF PendingsMatch
      <4>2. QED
        BY <1>6, <4>1
    <3>2. ~pendings'[N].committed /\ pendings'[N].h[1] = i
      BY <1>6
    <3>3. QED
      BY <1>4, <1>6, <3>1, <3>2
  <2>10. QED
    BY <1>0, <1>2, <2>3, <2>5, <2>6, <2>7, <2>8, <2>9 DEF PendingsMatch
<1>15. JobMatches'
  BY <1>2 DEF ArenaInvariant, JobMatches
<1>16. QED
  BY <1>7, <1>8, <1>9, <1>10, <1>11, <1>13, <1>14, <1>15 DEF ArenaInvariant

-----------------------------------------------------------------------------
(* The invariant *)

LEMMA InitIsSound == Init => ArenaInvariant
<1> SUFFICES ASSUME Init PROVE ArenaInvariant
  OBVIOUS
<1> DEFINE e == [NewSlot EXCEPT !.state = TRUE, !.main = TRUE]
<1>1. /\ e \in SlotType /\ e.state /\ e.main /\ ~e.borrowed /\ ~e.retired
      /\ e.root = 0 /\ e.gen = 1
  BY NewSlotHasType DEF NewSlot, SlotType
<1>2. slots = <<e>>
  BY DEF Init
<1>3. slots \in Seq(SlotType) /\ Len(slots) = 1 /\ slots[1] = e /\ DOMAIN slots = {1}
  <2>1. <<e>> \in Seq(SlotType) /\ Len(<<e>>) = 1 /\ <<e>>[1] = e
    BY <1>1
  <2>2. DOMAIN slots = 1..1
    BY <1>2, <2>1, LenProperties
  <2>3. QED
    BY <1>2, <2>1, <2>2
<1>4. /\ free = <<>> /\ liveCount = 0 /\ nextRoot = 1 /\ turn = NoHandle
      /\ borrows = <<>> /\ pendings = <<>> /\ job = "none" /\ todo = {}
      /\ rejected = 0 /\ issued = {MainHandle}
  BY DEF Init
<1>5. TypeOK
  <2>1. /\ free \in Seq(1..MaxSlots) /\ borrows \in Seq(BorrowType)
        /\ pendings \in Seq(PendingType)
    BY <1>4, EmptySeq
  <2>2. Len(slots) \in 1..MaxSlots /\ nextRoot \in 1..MaxRoot
    BY <1>3, <1>4, BoundsAssumption
  <2>3. QED
    BY <1>3, <1>4, <2>1, <2>2, Handles DEF TypeOK
<1>6. DOMAIN free = {} /\ DOMAIN borrows = {} /\ DOMAIN pendings = {}
  BY <1>4, <1>5, Shapes
<1>7. FreeListIsExact
  BY <1>1, <1>3, <1>6 DEF FreeListIsExact
<1>8. SlotsAreExact
  <2>1. /\ slots[1].state /\ slots[1].main /\ ~slots[1].retired
        /\ slots[1].root = 0 /\ slots[1].root < nextRoot
    BY <1>1, <1>3, <1>4
  <2>2. \A i \in DOMAIN slots : i = 1
    BY <1>3
  <2>3. QED
    BY <2>1, <2>2 DEF SlotsAreExact
<1>9. CountIsExact
  <2>1. Coroutines = {}
    BY <1>1, <1>3 DEF Coroutines
  <2>2. QED
    BY <1>4, <2>1, FS_EmptySet DEF CountIsExact
<1>10. BorrowsMatch
  BY <1>1, <1>3, <1>4, <1>6 DEF BorrowsMatch
<1>11. PendingsMatch
  BY <1>1, <1>3, <1>4, <1>6 DEF PendingsMatch
<1>12. IssuedMatch
  <2> SUFFICES ASSUME NEW h \in Handle
               PROVE  h \in issued <=>
                          /\ h[1] \in DOMAIN slots
                          /\ \/ h[2] < slots[h[1]].gen
                             \/ /\ h[2] = slots[h[1]].gen
                                /\ slots[h[1]].state \/ slots[h[1]].retired
    BY DEF IssuedMatch
  <2>1. h[2] \in 1..MaxGen /\ h = <<h[1], h[2]>>
    BY Handles
  <2>2. h = MainHandle <=> h[1] = 1 /\ h[2] = 1
    BY <2>1 DEF MainHandle
  <2>3. ~(h[2] < 1)
    BY <2>1, BoundsAssumption
  <2>4. QED
    BY <1>1, <1>3, <1>4, <2>2, <2>3
<1>13. JobMatches
  BY <1>4 DEF JobMatches
<1>14. QED
  BY <1>5, <1>7, <1>8, <1>9, <1>10, <1>11, <1>12, <1>13 DEF ArenaInvariant

LEMMA NextIsSound == ArenaInvariant /\ [Next]_vars => ArenaInvariant'
<1> SUFFICES ASSUME ArenaInvariant, [Next]_vars PROVE ArenaInvariant'
  OBVIOUS
<1>1. ASSUME NEW h \in Handle, BeginTurn(h) PROVE ArenaInvariant'
  BY <1>1, TurnLends, LendingIsSound
<1>2. CASE BeginDirect
  BY <1>2, DirectLends, LendingIsSound, Handles
<1>3. ASSUME NEW h \in Handle, BeginNested(h) PROVE ArenaInvariant'
  BY <1>3, NestedLends, LendingIsSound
<1>4. CASE EndBorrow
  BY <1>4, ReturnIsSound
<1>5. CASE BeginPending
  BY <1>5, IssuingIsSound
<1>6. CASE BindThread
  BY <1>6, BindingIsSound
<1>7. CASE Commit
  BY <1>7, PublicationIsSound
<1>8. CASE EndPending
  BY <1>8, EndOfGuardIsSound
<1>9. CASE RemoveOne
  BY <1>9, RemovalIsSound
<1>10. CASE StartDrain \/ EndJob \/ \E R \in SUBSET (1..MaxSlots) : StartSweep(R)
  BY <1>10, JobsAreSound
<1>11. CASE UNCHANGED vars
  <2>1. UNCHANGED <<slots, free, liveCount, nextRoot, turn, borrows, pendings, job, todo,
                    rejected, issued>>
    BY <1>11 DEF vars
  <2>2. /\ FreeListIsExact' /\ SlotsAreExact' /\ CountIsExact' /\ IssuedMatch'
        /\ BorrowsMatch' /\ PendingsMatch'
    BY <2>1 DEF ArenaInvariant, FreeListIsExact, SlotsAreExact, CountIsExact, Coroutines,
                IssuedMatch, BorrowsMatch, PendingsMatch, ValidPending, Valid
  <2>3. TypeOK' /\ JobMatches'
    BY <2>1 DEF ArenaInvariant, TypeOK, JobMatches
  <2>4. QED
    BY <2>2, <2>3 DEF ArenaInvariant
<1>12. QED
  BY <1>1, <1>2, <1>3, <1>4, <1>5, <1>6, <1>7, <1>8, <1>9, <1>10, <1>11
     DEF Next, Borrowing, Publishing, Removing

\* The invariant of the arena and of its guards, for any number of slots,
\* generations, root ids and nested guards.
THEOREM ArenaKeepsInvariant == Spec => []ArenaInvariant
BY InitIsSound, NextIsSound, PTL DEF Spec

\* Every variable of the arena keeps its type; in particular the counter of
\* live coroutine states never goes below zero and root ids never run over.
THEOREM ArenaTypeCorrect == Spec => []TypeOK
<1>1. ArenaInvariant => TypeOK
  BY DEF ArenaInvariant
<1>2. QED
  BY <1>1, ArenaKeepsInvariant, PTL

LEMMA InvariantImpliesSlotsAreSound == ArenaInvariant => SlotsAreSound
<1> SUFFICES ASSUME ArenaInvariant PROVE SlotsAreSound
  OBVIOUS
<1>1. \A k \in DOMAIN free : free[k] \in DOMAIN slots
  BY DEF ArenaInvariant, FreeListIsExact
<1>2. \A i \in DOMAIN slots : slots[i].retired => RetiredSlotIsSound(i)
  BY DEF ArenaInvariant, FreeListIsExact, SlotsAreExact, RetiredSlotIsSound, FreeEntries
<1>3. \A i \in DOMAIN slots : slots[i].state => OccupiedSlotIsSound(i)
  BY DEF ArenaInvariant, FreeListIsExact, SlotsAreExact, OccupiedSlotIsSound, FreeEntries
<1>4. ASSUME NEW i \in DOMAIN slots, ~slots[i].retired, ~slots[i].state
      PROVE  VacantSlotIsSound(i)
  <2>1. PICK k \in DOMAIN free : free[k] = i
    BY <1>4 DEF ArenaInvariant, FreeListIsExact
  <2>2. \A j \in DOMAIN free : free[j] = i => j = k
    BY <2>1 DEF ArenaInvariant, FreeListIsExact
  <2>3. FreeEntries(i) = {k}
    BY <2>1, <2>2 DEF FreeEntries
  <2>4. QED
    BY <1>4, <2>3 DEF ArenaInvariant, SlotsAreExact, VacantSlotIsSound
<1>5. \A i, j \in DOMAIN slots : slots[i].main /\ slots[j].main => i = j
  BY DEF ArenaInvariant, SlotsAreExact
<1>6. QED
  BY <1>1, <1>2, <1>3, <1>4, <1>5 DEF ArenaInvariant, CountIsExact, SlotsAreSound

\* ArenaIsSound: what validate_internal_invariants and validate_owned_drain
\* check at a safe point holds between any two operations: no sweep or drain is
\* ever refused because the arena itself went wrong.
THEOREM ArenaStaysSound == Spec => []ArenaIsSound
<1>1. ASSUME ArenaInvariant, Len(borrows) < 2 PROVE TurnOwnsOneSlot
  <2> SUFFICES ASSUME turn # NoHandle
               PROVE  Valid(turn) /\ \A i \in DOMAIN slots : slots[i].borrowed <=> i = turn[1]
    BY DEF TurnOwnsOneSlot
  <2>1. Len(borrows) = 1 /\ DOMAIN borrows = 1..1 /\ borrows # <<>>
    <3>1. borrows # <<>>
      BY <1>1 DEF ArenaInvariant, BorrowsMatch
    <3>2. Len(borrows) \in Nat /\ Len(borrows) # 0
      BY <1>1, <3>1, Shapes DEF ArenaInvariant
    <3>3. Len(borrows) = 1
      <4>1. Len(borrows) < 2
        BY <1>1
      <4>2. \A n \in Nat : n # 0 /\ n < 2 => n = 1
        OBVIOUS
      <4>3. QED
        BY <3>2, <4>1, <4>2
    <3>4. QED
      BY <1>1, <3>1, <3>3, Shapes DEF ArenaInvariant
  <2>2. DOMAIN borrows = {1} /\ turn = borrows[1].h
    BY <1>1, <2>1 DEF ArenaInvariant, BorrowsMatch
  <2>3. QED
    BY <1>1, <2>2 DEF ArenaInvariant, BorrowsMatch
<1>2. ArenaInvariant => ArenaIsSound
  BY <1>1, InvariantImpliesSlotsAreSound DEF ArenaIsSound
<1>3. QED
  BY <1>2, ArenaKeepsInvariant, PTL

\* GuardsMatchSlots: every guard on the Rust stack names a state that exists,
\* and the borrowed bits are those of the outstanding guards.
THEOREM GuardsAlwaysMatch == Spec => []GuardsMatchSlots
<1>1. ASSUME ArenaInvariant PROVE GuardsMatchSlots
  <2>1. \A k \in DOMAIN borrows : Valid(borrows[k].h)
    BY <1>1 DEF ArenaInvariant, BorrowsMatch
  <2>2. \A i \in DOMAIN slots :
            slots[i].borrowed <=> \E k \in DOMAIN borrows : borrows[k].h[1] = i
    BY <1>1 DEF ArenaInvariant, BorrowsMatch
  <2>3. turn # NoHandle <=> \E k \in DOMAIN borrows : borrows[k].kind = "turn"
    <3>1. CASE borrows = <<>>
      <4>1. Len(borrows) = 0
        BY <1>1, <3>1, Shapes DEF ArenaInvariant
      <4>2. \A k \in DOMAIN borrows : FALSE
        BY <1>1, <4>1, Shapes DEF ArenaInvariant
      <4>3. turn = NoHandle
        BY <1>1, <3>1 DEF ArenaInvariant, BorrowsMatch
      <4>4. QED
        BY <4>2, <4>3
    <3>2. CASE borrows # <<>>
      <4>1. 1 \in DOMAIN borrows /\ borrows[1].h # NoHandle
        BY <1>1, <3>2, Shapes, Handles DEF ArenaInvariant, BorrowType
      <4>2. \A k \in DOMAIN borrows : k = 1 \/ k > 1
        BY <1>1, Shapes DEF ArenaInvariant
      <4>3. \A k \in DOMAIN borrows : borrows[k].kind = "turn" => k = 1
        BY <1>1, <4>2 DEF ArenaInvariant, BorrowsMatch
      <4>4. turn # NoHandle <=> borrows[1].kind = "turn"
        BY <1>1, <3>2, <4>1 DEF ArenaInvariant, BorrowsMatch
      <4>5. QED
        BY <4>1, <4>3, <4>4
    <3>3. QED
      BY <3>1, <3>2
  <2>4. QED
    BY <2>1, <2>2, <2>3 DEF GuardsMatchSlots
<1>2. QED
  BY <1>1, ArenaKeepsInvariant, PTL

\* PendingIsRootedOrGone: an unpublished coroutine state is a temporary root
\* exactly while its guard exists, and dropping the guard is never refused.
THEOREM PendingStaysRooted == Spec => []PendingIsRootedOrGone
<1>1. ArenaInvariant => PendingIsRootedOrGone
  BY DEF ArenaInvariant, PendingsMatch, PendingIsRootedOrGone, TemporaryRoots
<1>2. QED
  BY <1>1, ArenaKeepsInvariant, PTL

-----------------------------------------------------------------------------
(***************************************************************************)
(* StateArena implements StateRegistry: a StateHandle names one LuaState   *)
(* for ever.  The proof maps every operation of the arena to a step of the *)
(* registry, or to none, with the help of ArenaInvariant.                  *)
(***************************************************************************)

\* The refinement mapping: the variables of Registry.
Statuses == [h \in Handle |-> Status(h)]
Held == [k \in DOMAIN borrows |-> borrows[k].h]

-----------------------------------------------------------------------------
(* The mapping *)

LEMMA HeldIsSequence ==
    ASSUME TypeOK
    PROVE  /\ Held \in Seq(Handle) /\ Len(Held) = Len(borrows) /\ Len(Held) \in Nat
           /\ DOMAIN Held = 1..Len(Held)
           /\ \A k \in DOMAIN borrows : Held[k] = borrows[k].h
           /\ (Held = <<>> <=> borrows = <<>>)
<1> PICK n \in Nat : n = Len(borrows)
  BY Shapes
<1>1. DOMAIN borrows = 1..n /\ borrows \in [1..n -> BorrowType]
  BY Shapes
<1>2. Held \in [1..n -> Handle] /\ \A k \in 1..n : Held[k] = borrows[k].h
  BY <1>1 DEF Held, BorrowType
<1>3. Held \in Seq(Handle)
  BY <1>2, SeqDef
<1>4. Len(Held) = n
  BY <1>2, <1>3, LenProperties
<1>5. QED
  BY <1>1, <1>2, <1>3, <1>4, Shapes, EmptySeq

LEMMA Elementwise ==
    ASSUME NEW S, NEW s \in Seq(S)
    PROVE  s = [k \in DOMAIN s |-> s[k]]
<1>1. PICK n \in Nat : s \in [1..n -> S]
  BY SeqDef
<1>2. QED
  BY <1>1

\* The state of one handle changes, or none.
LEMMA StatusesChange ==
    ASSUME NEW g \in Handle, NEW w, Status(g)' = w,
           \A h \in Handle \ {g} : Status(h)' = Status(h)
    PROVE  Statuses' = [Statuses EXCEPT ![g] = w]
BY DEF Statuses

LEMMA StatusesStay ==
    ASSUME \A h \in Handle : Status(h)' = Status(h)
    PROVE  Statuses' = Statuses
BY DEF Statuses

\* What a handle leads to depends on its slot alone.
LEMMA StatusOfSlot ==
    ASSUME NEW h \in Handle, h \in issued' <=> h \in issued,
           h[1] \in DOMAIN slots' <=> h[1] \in DOMAIN slots,
           h[1] \in DOMAIN slots =>
               /\ slots'[h[1]].gen = slots[h[1]].gen
               /\ slots'[h[1]].retired = slots[h[1]].retired
               /\ slots'[h[1]].state = slots[h[1]].state
               /\ slots'[h[1]].root = slots[h[1]].root
    PROVE  Status(h)' = Status(h)
<1>1. Valid(h)' <=> Valid(h)
  BY DEF Valid
<1>2. CASE h \notin issued
  BY <1>2 DEF Status
<1>3. CASE h \in issued /\ ~Valid(h)
  BY <1>1, <1>3 DEF Status
<1>4. CASE h \in issued /\ Valid(h)
  <2>1. slots'[h[1]].root = slots[h[1]].root
    BY <1>4 DEF Valid
  <2>2. QED
    BY <1>1, <1>4, <2>1 DEF Status
<1>5. QED
  BY <1>2, <1>3, <1>4

\* The handle of a state has been issued.
LEMMA ValidIsIssued ==
    ASSUME ArenaInvariant, NEW h \in Handle, Valid(h)
    PROVE  h \in issued /\ Status(h) \in {"pending", "live"}
<1>1. h \in issued
  BY DEF ArenaInvariant, IssuedMatch, Valid
<1>2. QED
  BY <1>1 DEF Status

LEMMA NotOnLoan ==
    ASSUME TypeOK, NEW h, \A k \in DOMAIN borrows : borrows[k].h # h
    PROVE  ~Registry!OnLoan(h)
<1>1. DOMAIN borrows = 1..Len(Held) /\ \A k \in DOMAIN borrows : Held[k] = borrows[k].h
  BY Shapes, HeldIsSequence
<1>2. ~ \E k \in 1..Len(Held) : Held[k] = h
  BY <1>1
<1>3. QED
  BY <1>2 DEF Registry!OnLoan, Held

-----------------------------------------------------------------------------
(* The operations *)

LEMMA LendsIsLend ==
    ASSUME ArenaInvariant, NEW h \in Handle, NEW kind \in {"turn", "direct", "nested"},
           Lends(h, kind)
    PROVE  Registry!Lend(h)
<1> DEFINE b == [h |-> h, kind |-> kind]
<1>0. TypeOK /\ h[1] \in DOMAIN slots
  BY DEF ArenaInvariant, Lends, Valid
<1>1. Statuses' = Statuses
  <2>1. /\ DOMAIN slots' = DOMAIN slots
        /\ \A j \in DOMAIN slots :
              /\ slots'[j].gen = slots[j].gen /\ slots'[j].retired = slots[j].retired
              /\ slots'[j].state = slots[j].state /\ slots'[j].root = slots[j].root
    BY <1>0, BorrowedBit DEF Lends
  <2>2. issued' = issued
    BY DEF Lends
  <2>3. \A g \in Handle : Status(g)' = Status(g)
    BY <2>1, <2>2, StatusOfSlot
  <2>4. QED
    BY <2>3, StatusesStay
<1>2. Statuses[h] \in {"pending", "live"}
  BY ValidIsIssued DEF Statuses, Lends
<1>3. ~Registry!OnLoan(h)
  <2>1. \A k \in DOMAIN borrows : borrows[k].h # h
    BY DEF ArenaInvariant, BorrowsMatch, Lends
  <2>2. QED
    BY <1>0, <2>1, NotOnLoan
<1>4. Held' = Append(Held, h)
  <2>1. /\ Held \in Seq(Handle) /\ Len(Held) = Len(borrows) /\ Len(Held) \in Nat
        /\ DOMAIN borrows = DOMAIN Held
        /\ \A k \in DOMAIN borrows : Held[k] = borrows[k].h
    BY <1>0, HeldIsSequence, Shapes
  <2>2. /\ DOMAIN Held = 1..Len(Held)
        /\ Append(Held, h) \in Seq(Handle)
        /\ DOMAIN Append(Held, h) = 1..(Len(Held) + 1)
        /\ Len(Append(Held, h)) = Len(Held) + 1
        /\ \A k \in DOMAIN Held : Append(Held, h)[k] = Held[k]
        /\ Append(Held, h)[Len(Held) + 1] = h
    BY <2>1, Pushed
  <2>3. /\ borrows' \in Seq(BorrowType) /\ Len(borrows') = Len(borrows) + 1
        /\ DOMAIN borrows' = 1..(Len(borrows) + 1)
        /\ \A k \in DOMAIN borrows : borrows'[k] = borrows[k]
        /\ borrows'[Len(borrows) + 1] = b
    BY <1>0, Pushed DEF TypeOK, BorrowType, Lends
  <2>4. DOMAIN borrows' = DOMAIN Held \cup {Len(Held) + 1}
    BY <2>1, <2>2, <2>3
  <2>5. \A k \in DOMAIN borrows' : borrows'[k].h = Append(Held, h)[k]
    BY <2>1, <2>2, <2>3, <2>4
  <2>6. Held' = [k \in DOMAIN Append(Held, h) |-> Append(Held, h)[k]]
    BY <2>1, <2>2, <2>3, <2>5 DEF Held
  <2>7. QED
    BY <2>2, <2>6, Elementwise
<1>5. QED
  BY <1>1, <1>2, <1>3, <1>4 DEF Registry!Lend, Statuses, Held

LEMMA EndBorrowIsReturn ==
    ASSUME ArenaInvariant, EndBorrow
    PROVE  Registry!Return
<1> DEFINE h == borrows[Len(borrows)].h
<1>0. TypeOK /\ borrows # <<>> /\ borrows' = SubSeq(borrows, 1, Len(borrows) - 1)
  BY DEF ArenaInvariant, EndBorrow
<1>1. Statuses' = Statuses
  <2>1. /\ Valid(h) /\ h[1] \in DOMAIN slots
        /\ borrows[Len(borrows)].kind = "turn" => turn = h
    BY <1>0, InnermostBorrow DEF Valid
  <2>2. slots' = [slots EXCEPT ![h[1]].borrowed = FALSE] /\ issued' = issued
    BY <2>1 DEF EndBorrow
  <2>3. /\ DOMAIN slots' = DOMAIN slots
        /\ \A j \in DOMAIN slots :
              /\ slots'[j].gen = slots[j].gen /\ slots'[j].retired = slots[j].retired
              /\ slots'[j].state = slots[j].state /\ slots'[j].root = slots[j].root
    BY <1>0, <2>1, <2>2, BorrowedBit
  <2>4. \A g \in Handle : Status(g)' = Status(g)
    BY <2>2, <2>3, StatusOfSlot
  <2>5. QED
    BY <2>4, StatusesStay
<1>2. Held # <<>>
  BY <1>0, HeldIsSequence
<1>3. Held' = SubSeq(Held, 1, Len(Held) - 1)
  <2>1. /\ Held \in Seq(Handle) /\ Len(Held) = Len(borrows) /\ Len(Held) \in Nat
        /\ \A k \in DOMAIN borrows : Held[k] = borrows[k].h
    BY <1>0, HeldIsSequence
  <2>n. Len(borrows) \in Nat \ {0}
    BY <1>0, Shapes
  <2> PICK n \in Nat : n = Len(borrows) - 1
    BY <2>n
  <2>2. n \in 0..Len(borrows) /\ n \in 0..Len(Held) /\ 1..n \subseteq DOMAIN borrows
    BY <1>0, <2>1, Shapes
  <2>3. /\ SubSeq(Held, 1, n) \in Seq(Handle) /\ DOMAIN SubSeq(Held, 1, n) = 1..n
        /\ \A k \in 1..n : SubSeq(Held, 1, n)[k] = Held[k]
    BY <2>1, <2>2, Cut
  <2>4. DOMAIN borrows' = 1..n /\ \A k \in 1..n : borrows'[k] = borrows[k]
    BY <1>0, <2>2, Cut DEF TypeOK
  <2>5. \A k \in 1..n : borrows'[k].h = SubSeq(Held, 1, n)[k]
    BY <2>1, <2>2, <2>3, <2>4
  <2>6. Held' = [k \in 1..n |-> SubSeq(Held, 1, n)[k]]
    BY <2>4, <2>5 DEF Held
  <2>7. QED
    BY <2>1, <2>3, <2>6, Elementwise
<1>4. QED
  BY <1>1, <1>2, <1>3 DEF Registry!Return, Statuses, Held

LEMMA BeginPendingIsIssue ==
    ASSUME ArenaInvariant, BeginPending
    PROVE  \E g \in Handle : Registry!Issue(g)
<1>0. TypeOK /\ nextRoot \in 1..MaxRoot
  BY DEF ArenaInvariant, TypeOK
<1>1. PICK i \in 1..MaxSlots, rest \in {SubSeq(free, 1, n) : n \in 0..Len(free)},
           table \in {slots, Append(slots, NewSlot)} :
          /\ Reserved(i, table, rest)
          /\ slots' = [table EXCEPT ![i].state = TRUE, ![i].root = nextRoot]
          /\ issued' = issued \cup {<<i, table[i].gen>>}
  BY DEF BeginPending
<1> DEFINE g == <<i, table[i].gen>>
<1>2. /\ table \in Seq(SlotType) /\ i \in DOMAIN table
      /\ DOMAIN table = 1..Len(table) /\ DOMAIN table = DOMAIN slots \cup {i}
      /\ \A j \in DOMAIN slots : table[j] = slots[j]
      /\ ~table[i].retired /\ ~table[i].state /\ table[i].gen \in 1..MaxGen
      /\ i \notin DOMAIN slots => table[i].gen = 1
  BY <1>1, ReservedIsVacant
<1>3. table[i] \in SlotType
  BY <1>2, ElementOfSeq
<1>4. /\ DOMAIN slots' = DOMAIN table
      /\ slots'[i].gen = table[i].gen /\ slots'[i].retired = table[i].retired
      /\ slots'[i].state /\ slots'[i].root = nextRoot
      /\ \A j \in DOMAIN table \ {i} : slots'[j] = table[j]
  BY <1>1, <1>2, <1>3 DEF SlotType
<1>5. g \in Handle /\ g[1] = i /\ g[2] = table[i].gen
  BY <1>1, <1>2 DEF Handle
<1>6. g \notin issued
  <2>1. g[1] \in DOMAIN slots =>
            slots[g[1]].gen = g[2] /\ ~slots[g[1]].state /\ ~slots[g[1]].retired
    BY <1>2, <1>5
  <2>2. g[2] \in 1..MaxGen
    BY <1>2, <1>5
  <2>3. \A n \in 1..MaxGen : ~(n < n)
    OBVIOUS
  <2>4. QED
    BY <1>5, <2>1, <2>2, <2>3 DEF ArenaInvariant, IssuedMatch
<1>7. Status(g) = "fresh"
  BY <1>6 DEF Status
<1>8. Status(g)' = "pending"
  <2>1. Valid(g)'
    BY <1>2, <1>4, <1>5 DEF Valid
  <2>2. g \in issued' /\ slots'[g[1]].root # 0
    BY <1>0, <1>1, <1>4, <1>5
  <2>3. QED
    BY <2>1, <2>2 DEF Status
<1>9. ASSUME NEW h \in Handle \ {g} PROVE Status(h)' = Status(h)
  <2>1. h \in issued' <=> h \in issued
    BY <1>1
  <2>2. CASE h[1] # i
    BY <1>2, <1>4, <2>1, <2>2, StatusOfSlot, ZenonT(60)
  <2>3. CASE h[1] = i
    <3>1. h[2] # table[i].gen
      BY <1>9, <1>5, <2>3, Handles
    <3>2. ~Valid(h) /\ ~Valid(h)'
      BY <1>2, <1>4, <2>3, <3>1 DEF Valid
    <3>3. QED
      BY <2>1, <3>2 DEF Status
  <2>4. QED
    BY <2>2, <2>3
<1>10. Statuses' = [Statuses EXCEPT ![g] = "pending"]
  BY <1>5, <1>8, <1>9, StatusesChange
<1>11. Statuses[g] = "fresh"
  BY <1>5, <1>7 DEF Statuses
<1>12. Held' = Held
  BY DEF BeginPending, Held
<1>13. QED
  BY <1>5, <1>10, <1>11, <1>12 DEF Registry!Issue, Statuses, Held

LEMMA BindThreadIsInvisible ==
    ASSUME ArenaInvariant, BindThread
    PROVE  Statuses' = Statuses /\ Held' = Held
<1> DEFINE i == Innermost.h[1]
           e == [slots[i] EXCEPT !.bound = TRUE]
<1>1. /\ TypeOK /\ i \in DOMAIN slots /\ slots[i] \in SlotType
      /\ slots' = [slots EXCEPT ![i].bound = TRUE] /\ UNCHANGED <<borrows, issued>>
  BY InnermostPending DEF BindThread, ArenaInvariant
<1>2. e \in SlotType /\ slots' = [slots EXCEPT ![i] = e]
  BY <1>1 DEF SlotType
<1>3. /\ DOMAIN slots' = DOMAIN slots
      /\ slots'[i] = e /\ \A j \in DOMAIN slots \ {i} : slots'[j] = slots[j]
  BY <1>1, <1>2, Replaced
<1>4. /\ e.gen = slots[i].gen /\ e.retired = slots[i].retired
      /\ e.state = slots[i].state /\ e.root = slots[i].root
  BY <1>1 DEF SlotType
<1>5. \A h \in Handle : Status(h)' = Status(h)
  BY <1>1, <1>3, <1>4, StatusOfSlot
<1>6. QED
  BY <1>1, <1>5, StatusesStay DEF Held

LEMMA CommitIsPublish ==
    ASSUME ArenaInvariant, Commit
    PROVE  \E g \in Handle : Registry!Publish(g)
<1>g. Innermost.h \in Handle
  BY InnermostPending DEF Commit, PendingType
<1> PICK g \in Handle : g = Innermost.h
  BY <1>g
<1> PICK i : i = g[1]
  OBVIOUS
<1> DEFINE e == [slots[i] EXCEPT !.root = 0]
<1>1. /\ TypeOK /\ i \in DOMAIN slots /\ slots[i] \in SlotType /\ Valid(g)
      /\ slots' = [slots EXCEPT ![i].root = 0] /\ UNCHANGED <<borrows, issued>>
      /\ slots[i].root = Innermost.root /\ Innermost.root # 0
  BY InnermostPending DEF Commit, ArenaInvariant, ValidPending, PendingType
<1>2. e \in SlotType /\ slots' = [slots EXCEPT ![i] = e]
  <2>1. 0 \in 0..MaxRoot
    BY BoundsAssumption
  <2>2. QED
    BY <1>1, <2>1 DEF SlotType
<1>3. /\ DOMAIN slots' = DOMAIN slots
      /\ slots'[i] = e /\ \A j \in DOMAIN slots \ {i} : slots'[j] = slots[j]
  BY <1>1, <1>2, Replaced
<1>4. /\ e.gen = slots[i].gen /\ e.retired = slots[i].retired
      /\ e.state = slots[i].state /\ e.root = 0
  BY <1>1 DEF SlotType
<1>5. g \in issued
  BY <1>1, ValidIsIssued
<1>6. Status(g) = "pending"
  BY <1>1, <1>5 DEF Status
<1>7. Status(g)' = "live"
  <2>1. Valid(g)'
    BY <1>1, <1>3, <1>4 DEF Valid
  <2>2. g \in issued' /\ slots'[g[1]].root = 0
    BY <1>1, <1>3, <1>4, <1>5
  <2>3. QED
    BY <2>1, <2>2 DEF Status
<1>8. ASSUME NEW h \in Handle \ {g} PROVE Status(h)' = Status(h)
  <2>1. CASE h[1] # i
    BY <1>1, <1>3, <2>1, StatusOfSlot
  <2>2. CASE h[1] = i
    <3>1. h[2] # slots[i].gen
      BY <1>1, <1>8, <2>2, Handles DEF Valid
    <3>2. slots'[h[1]].gen # h[2] /\ slots[h[1]].gen # h[2]
      BY <1>3, <1>4, <2>2, <3>1
    <3>3. ~Valid(h) /\ ~Valid(h)'
      BY <3>2 DEF Valid
    <3>4. QED
      BY <1>1, <3>3 DEF Status
  <2>3. QED
    BY <2>1, <2>2
<1>9. Statuses' = [Statuses EXCEPT ![g] = "live"]
  BY <1>1, <1>7, <1>8, StatusesChange
<1>10. Statuses[g] = "pending"
  BY <1>1, <1>6 DEF Statuses
<1>11. Held' = Held
  BY <1>1 DEF Held
<1>12. QED
  BY <1>1, <1>9, <1>10, <1>11 DEF Registry!Publish, Statuses, Held

\* A slot is vacated while no borrow is of its state.
LEMMA VacateIsDestroy ==
    ASSUME ArenaInvariant, NEW i \in DOMAIN slots, slots[i].state, Vacate(i),
           NEW g, g = <<i, slots[i].gen>>,
           \A k \in DOMAIN borrows : borrows[k].h[1] # i,
           UNCHANGED <<borrows, issued>>
    PROVE  /\ g \in Handle /\ Registry!Destroy(g)
           /\ \A h \in Handle \ {g} : Status(h)' = Status(h)
<1>0. TypeOK /\ ~slots[i].retired /\ i \in 1..MaxSlots
  <2>1. TypeOK /\ ~slots[i].retired
    BY DEF ArenaInvariant, SlotsAreExact
  <2>2. DOMAIN slots = 1..Len(slots) /\ Len(slots) \in 1..MaxSlots
    BY <2>1, Shapes
  <2>3. QED
    BY <2>1, <2>2, BoundsAssumption
<1>1. /\ DOMAIN slots' = DOMAIN slots
      /\ \A j \in DOMAIN slots \ {i} : slots'[j] = slots[j]
      /\ ~slots'[i].state /\ slots[i].gen \in 1..MaxGen
  BY VacateEffect
<1>2. g \in Handle /\ g[1] = i /\ g[2] = slots[i].gen /\ Valid(g)
  BY <1>0, <1>1 DEF Handle, Valid
<1>3. g \in issued /\ Status(g) \in {"pending", "live"}
  BY <1>2, ValidIsIssued
<1>4. Status(g)' = "gone"
  <2>1. ~Valid(g)'
    BY <1>1, <1>2 DEF Valid
  <2>2. QED
    BY <1>3, <2>1 DEF Status
<1>5. ASSUME NEW h \in Handle \ {g} PROVE Status(h)' = Status(h)
  <2>1. CASE h[1] # i
    BY <1>1, <2>1, StatusOfSlot
  <2>2. CASE h[1] = i
    <3>1. h[2] # slots[i].gen
      BY <1>5, <2>2, Handles
    <3>2. ~Valid(h) /\ ~Valid(h)'
      BY <1>1, <2>2, <3>1 DEF Valid
    <3>3. QED
      BY <3>2 DEF Status
  <2>3. QED
    BY <2>1, <2>2
<1>6. Statuses' = [Statuses EXCEPT ![g] = "gone"]
  BY <1>2, <1>4, <1>5, StatusesChange
<1>7. Statuses[g] \in {"pending", "live"}
  BY <1>2, <1>3 DEF Statuses
<1>8. ~Registry!OnLoan(g)
  <2>1. \A k \in DOMAIN borrows : borrows[k].h # g
    BY <1>2
  <2>2. QED
    BY <1>0, <2>1, NotOnLoan
<1>9. Held' = Held
  BY DEF Held
<1>10. QED
  BY <1>2, <1>5, <1>6, <1>7, <1>8, <1>9 DEF Registry!Destroy, Statuses, Held

\* The end of a guard rolls its unpublished state back or changes no status.
LEMMA EndPendingIsRollback ==
    ASSUME ArenaInvariant, EndPending
    PROVE  \/ Statuses' = Statuses /\ Held' = Held
           \/ \E g \in Handle :
                  /\ Registry!Destroy(g) /\ Status(g) = "pending"
                  /\ \A h \in Handle \ {g} : Status(h)' = Status(h)
<1> DEFINE i == Innermost.h[1]
<1>0. TypeOK /\ PendingOnTop /\ UNCHANGED <<borrows, issued>>
  BY DEF ArenaInvariant, EndPending
<1>1. CASE ~RollsBack(Innermost)
  <2>1. UNCHANGED <<slots, issued, borrows>>
    BY <1>0, <1>1 DEF EndPending
  <2>2. \A h \in Handle : Status(h)' = Status(h)
    BY <2>1 DEF Status, Valid
  <2>3. QED
    BY <2>1, <2>2, StatusesStay DEF Held
<1>2. CASE RollsBack(Innermost)
  <2>1. /\ i \in DOMAIN slots /\ slots[i].state /\ Innermost \in PendingType
        /\ slots[i].root = Innermost.root
        /\ \A k \in DOMAIN borrows : borrows[k].h[1] # i
    BY <1>0, <1>2, InnermostPending DEF RollsBack
  <2>2. Vacate(i)
    BY <1>2 DEF EndPending
  <2> PICK g : g = <<i, slots[i].gen>>
    OBVIOUS
  <2>3. /\ g \in Handle /\ Registry!Destroy(g)
        /\ \A h \in Handle \ {g} : Status(h)' = Status(h)
    BY <1>0, <2>1, <2>2, VacateIsDestroy
  <2>4. Valid(g) /\ slots[g[1]].root # 0
    BY <2>1 DEF ArenaInvariant, SlotsAreExact, Valid, PendingType
  <2>5. g \in issued
    BY <2>3, <2>4, ValidIsIssued
  <2>6. Status(g) = "pending"
    BY <2>4, <2>5 DEF Status
  <2>7. QED
    BY <2>3, <2>6
<1>3. QED
  BY <1>1, <1>2

LEMMA RemoveOneIsDestroy ==
    ASSUME ArenaInvariant, RemoveOne
    PROVE  \E g \in Handle : Registry!Destroy(g)
<1>1. PICK i \in Next1 : Vacate(i)
  BY DEF RemoveOne
<1>2. i \in todo /\ UNCHANGED <<borrows, issued>>
  BY <1>1 DEF Next1, RemoveOne
<1>3. i \in DOMAIN slots /\ slots[i].state /\ borrows = <<>>
  BY <1>2 DEF ArenaInvariant, TypeOK, JobMatches, RemoveOne
<1>4. \A k \in DOMAIN borrows : borrows[k].h[1] # i
  <2>1. DOMAIN borrows = 1..0
    BY <1>3, Shapes DEF ArenaInvariant
  <2>2. QED
    BY <2>1
<1>5. PICK g : g = <<i, slots[i].gen>>
  OBVIOUS
<1>6. QED
  BY <1>1, <1>2, <1>3, <1>4, <1>5, VacateIsDestroy

-----------------------------------------------------------------------------
(* The theorems *)

LEMMA SameSlotsSameStatus ==
    ASSUME UNCHANGED <<slots, borrows, issued>>
    PROVE  Statuses' = Statuses /\ Held' = Held
<1>1. \A h \in Handle : Status(h)' = Status(h)
  BY DEF Status, Valid
<1>2. QED
  BY <1>1, StatusesStay DEF Held

LEMMA StepRefines ==
    ASSUME ArenaInvariant, Next
    PROVE  Registry!Next \/ (Statuses' = Statuses /\ Held' = Held)
<1>1. ASSUME NEW h \in Handle, BeginTurn(h) \/ BeginNested(h) PROVE Registry!Next
  BY <1>1, TurnLends, NestedLends, LendsIsLend DEF Registry!Next
<1>2. CASE BeginDirect
  BY <1>2, DirectLends, LendsIsLend, Handles DEF Registry!Next
<1>3. CASE EndBorrow
  BY <1>3, EndBorrowIsReturn DEF Registry!Next
<1>4. CASE BeginPending
  BY <1>4, BeginPendingIsIssue DEF Registry!Next
<1>5. CASE BindThread
  BY <1>5, BindThreadIsInvisible
<1>6. CASE Commit
  BY <1>6, CommitIsPublish DEF Registry!Next
<1>7. CASE EndPending
  BY <1>7, EndPendingIsRollback DEF Registry!Next
<1>8. CASE RemoveOne
  BY <1>8, RemoveOneIsDestroy DEF Registry!Next
<1>9. CASE StartDrain \/ EndJob \/ \E R \in SUBSET (1..MaxSlots) : StartSweep(R)
  BY <1>9, SameSlotsSameStatus DEF StartDrain, EndJob, StartSweep
<1>10. QED
  BY <1>1, <1>2, <1>3, <1>4, <1>5, <1>6, <1>7, <1>8, <1>9
  DEF Next, Borrowing, Publishing, Removing

LEMMA InitRefines == ASSUME Init PROVE Registry!Init
<1> DEFINE e == [NewSlot EXCEPT !.state = TRUE, !.main = TRUE]
<1>1. issued = {MainHandle} /\ borrows = <<>> /\ slots = <<e>>
  BY DEF Init
<1>2. /\ 1 \in DOMAIN slots /\ ~slots[1].retired /\ slots[1].gen = 1
      /\ slots[1].state /\ slots[1].root = 0
  <2>1. ~e.retired /\ e.gen = 1 /\ e.state /\ e.root = 0
    BY DEF NewSlot
  <2>2. <<e>>[1] = e /\ 1 \in DOMAIN <<e>>
    OBVIOUS
  <2>3. QED
    BY <1>1, <2>1, <2>2
<1>3. MainHandle[1] = 1 /\ MainHandle[2] = 1
  BY DEF MainHandle
<1>4. Status(MainHandle) = "live"
  BY <1>1, <1>2, <1>3 DEF Status, Valid
<1>5. \A h \in Handle : h # MainHandle => Status(h) = "fresh"
  BY <1>1 DEF Status
<1>6. Statuses = [h \in Handle |-> IF h = MainHandle THEN "live" ELSE "fresh"]
  BY <1>4, <1>5 DEF Statuses
<1>7. Held = <<>>
  BY <1>1 DEF Held
<1>8. QED
  BY <1>6, <1>7 DEF Registry!Init, Statuses, Held

\* HandlesNameOneState: StateArena implements StateRegistry.  A handle is fresh,
\* pending, live, gone, in this order and never again; a state on loan is neither
\* lent again nor destroyed, and loans end in reverse order.
THEOREM ArenaImplementsRegistry == Spec => HandlesNameOneState
<1>1. Init => Registry!Init
  BY InitRefines
<1>2. ArenaInvariant /\ [Next]_vars => [Registry!Next]_Registry!vars
  <2>1. CASE UNCHANGED vars
    BY <2>1, SameSlotsSameStatus DEF vars, Registry!vars, Statuses, Held
  <2>2. ASSUME ArenaInvariant, Next PROVE [Registry!Next]_Registry!vars
    BY <2>2, StepRefines DEF Registry!vars, Statuses, Held
  <2>3. QED
    BY <2>1, <2>2
<1>3. QED
  BY <1>1, <1>2, ArenaKeepsInvariant, PTL DEF Spec, HandlesNameOneState, Registry!Spec

\* PublishedStatesStay: what becomes of a guard after Commit, or of any other
\* guard, never takes a published state away.
THEOREM PublishedStatesAreKept == Spec => PublishedStatesStay
<1>1. ASSUME ArenaInvariant, [Next]_vars, Idle, NEW h \in issued, Status(h) = "live"
      PROVE  Status(h)' = "live"
  <2>0. h \in Handle /\ Statuses[h] = "live"
    BY <1>1 DEF ArenaInvariant, TypeOK, Statuses
  <2>1. CASE Statuses' = Statuses
    BY <2>0, <2>1 DEF Statuses
  <2>2. ASSUME NEW g \in Handle, Registry!Lend(g) \/ Registry!Issue(g) \/ Registry!Publish(g)
        PROVE  Status(h)' = "live"
    BY <2>0, <2>2 DEF Registry!Lend, Registry!Issue, Registry!Publish, Statuses
  <2>3. CASE Registry!Return
    BY <2>0, <2>3 DEF Registry!Return, Statuses
  <2>4. CASE EndPending
    <3>1. CASE Statuses' = Statuses
      BY <2>1, <3>1
    <3>2. ASSUME NEW g \in Handle, Status(g) = "pending",
                 \A f \in Handle \ {g} : Status(f)' = Status(f)
          PROVE  Status(h)' = "live"
      BY <1>1, <2>0, <3>2
    <3>3. QED
      BY <1>1, <2>4, <3>1, <3>2, EndPendingIsRollback
  <2>5. ASSUME NEW g \in Handle, BeginTurn(g) \/ BeginNested(g) PROVE Status(h)' = "live"
    BY <1>1, <2>2, <2>5, TurnLends, NestedLends, LendsIsLend
  <2>6. CASE BeginDirect
    BY <1>1, <2>2, <2>6, DirectLends, LendsIsLend, Handles
  <2>7. CASE EndBorrow
    BY <1>1, <2>3, <2>7, EndBorrowIsReturn
  <2>8. CASE BeginPending
    BY <1>1, <2>2, <2>8, BeginPendingIsIssue
  <2>9. CASE BindThread \/ Commit
    BY <1>1, <2>1, <2>2, <2>9, BindThreadIsInvisible, CommitIsPublish
  <2>10. ~RemoveOne
    BY <1>1 DEF RemoveOne, Idle
  <2>11. CASE \/ UNCHANGED vars
              \/ StartDrain \/ EndJob \/ \E R \in SUBSET (1..MaxSlots) : StartSweep(R)
    BY <2>1, <2>11, SameSlotsSameStatus DEF vars, StartDrain, EndJob, StartSweep
  <2>12. QED
    BY <1>1, <2>4, <2>5, <2>6, <2>7, <2>8, <2>9, <2>10, <2>11
    DEF Next, Borrowing, Publishing, Removing
<1>2. ArenaInvariant /\ [Next]_vars =>
          [Idle => \A h \in issued : Status(h) = "live" => Status(h)' = "live"]_vars
  BY <1>1
<1>3. QED
  BY <1>2, ArenaKeepsInvariant, PTL DEF Spec, PublishedStatesStay
=============================================================================
