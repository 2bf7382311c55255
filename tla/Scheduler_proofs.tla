-------------------------- MODULE Scheduler_proofs --------------------------
(***************************************************************************)
(* The scheduler, for all coroutines, depths, nestings and numbers of      *)
(* finalizers: what its stacks of activations mean for the Thread objects, *)
(* for the drain flag and for the calls that wait.                         *)
(***************************************************************************)
EXTENDS Scheduler, TLAPS, SequenceTheorems, WellFoundedInduction

-----------------------------------------------------------------------------
(* First and last elements of a sequence.                                  *)

\* Every set of numbers has a least element.
LEMMA HasMin ==
    ASSUME NEW S \in SUBSET Nat, S # {}
    PROVE  Min(S) \in S /\ \A j \in S : Min(S) <= j
<1>1. PICK x \in S : \A y \in S : ~ (<<y, x>> \in OpToRel(<, Nat))
  BY WFMin, NatLessThanWellFounded
<1>2. \A y \in S : ~ (y < x)
  BY <1>1, Zenon DEF OpToRel
<1>3. \A y \in S : x <= y
  BY <1>2
<1> QED BY <1>3 DEF Min

\* Every set of places in a sequence has a greatest element.
LEMMA HasMax ==
    ASSUME NEW m \in Nat, NEW S \in SUBSET (1..m), S # {}
    PROVE  Max(S) \in S /\ \A j \in S : j <= Max(S)
<1>d. PICK D : D = {m - x : x \in S}
  OBVIOUS
<1>1. D \in SUBSET Nat /\ D # {}
  <2>1. \A x \in S : x \in 1..m
    OBVIOUS
  <2>2. \A x \in S : m - x \in Nat
    BY <2>1
  <2> QED BY <1>d, <2>2
<1>2. PICK d \in D : \A y \in D : d <= y
  BY <1>1, HasMin
<1>3. PICK x \in S : d = m - x
  BY <1>2, <1>d
<1>4. ASSUME NEW j \in S PROVE j <= x
  <2>1. m - j \in D
    BY <1>d
  <2> QED BY <1>2, <1>3, <2>1
<1>5. \E y \in S : \A j \in S : y >= j
  BY <1>4
<1> QED BY <1>5 DEF Max

\* A sequence without its last element.
LEMMA FrontIs ==
    ASSUME NEW S, NEW s \in Seq(S)
    PROVE  /\ Front(s) \in Seq(S)
           /\ s # <<>> => /\ Len(Front(s)) = Len(s) - 1
                          /\ \A i \in 1 .. Len(s) - 1 : Front(s)[i] = s[i]
                          /\ Len(s) \in 1 .. Len(s) /\ Last(s) \in S /\ Last(s) = s[Len(s)]
<1>1. Len(s) \in Nat /\ \A i \in 1 .. Len(s) - 1 : s[i] \in S
  OBVIOUS
<1>2. CASE s = <<>>
  <2>1. Front(s) = <<>>
    BY <1>2, SubSeqEmpty DEF Front
  <2> QED BY <1>2, <2>1
<1>3. CASE s # <<>>
  <2>1. Len(s) >= 1
    BY <1>1, <1>3, EmptySeq
  <2>2. /\ Front(s) \in Seq(S) /\ Len(Front(s)) = IF 1 <= Len(s) - 1 THEN Len(s) - 1 - 1 + 1 ELSE 0
        /\ \A i \in 1 .. Len(s) - 1 - 1 + 1 : Front(s)[i] = s[1 + i - 1]
    BY <1>1, SubSeqProperties DEF Front
  <2>3. PICK n \in Nat : n = Len(s) /\ n >= 1
    BY <1>1, <2>1
  <2>4. Len(Front(s)) = n - 1
    BY <2>2, <2>3
  <2>5. \A i \in 1 .. n - 1 : Front(s)[i] = s[i]
    BY <2>2, <2>3
  <2>6. n \in 1 .. n /\ s[n] \in S
    BY <2>3
  <2>7. Last(s) = s[n]
    BY <2>3 DEF Last
  <2> QED BY <1>3, <2>2, <2>3, <2>4, <2>5, <2>6, <2>7
<1> QED BY <1>2, <1>3

\* A prefix of a sequence.
LEMMA PrefixIs ==
    ASSUME NEW S, NEW s \in Seq(S), NEW n \in Nat, n <= Len(s)
    PROVE  /\ SubSeq(s, 1, n) \in Seq(S) /\ Len(SubSeq(s, 1, n)) = n
           /\ \A i \in 1 .. n : SubSeq(s, 1, n)[i] = s[i]
<1>1. \A i \in 1 .. n : s[i] \in S
  OBVIOUS
<1>2. /\ SubSeq(s, 1, n) \in Seq(S) /\ Len(SubSeq(s, 1, n)) = IF 1 <= n THEN n - 1 + 1 ELSE 0
      /\ \A i \in 1 .. n - 1 + 1 : SubSeq(s, 1, n)[i] = s[1 + i - 1]
  BY <1>1, SubSeqProperties
<1> QED BY <1>2

\* A sequence without one of its elements.
LEMMA RemoveAtIs ==
    ASSUME NEW S, NEW s \in Seq(S), NEW n \in 1 .. Len(s)
    PROVE  /\ RemoveAt(s, n) \in Seq(S) /\ Len(RemoveAt(s, n)) = Len(s) - 1
           /\ \A i \in 1 .. Len(s) - 1 : RemoveAt(s, n)[i] = IF i < n THEN s[i] ELSE s[i + 1]
<1>m. PICK m \in Nat : m = Len(s) /\ n \in 1 .. m
  OBVIOUS
<1>a. PICK a : a = SubSeq(s, 1, n - 1)
  OBVIOUS
<1>b. PICK b : b = SubSeq(s, n + 1, Len(s))
  OBVIOUS
<1>1. a \in Seq(S) /\ Len(a) = n - 1 /\ \A i \in 1 .. n - 1 : a[i] = s[i]
  BY <1>m, <1>a, PrefixIs
<1>2. \A i \in n + 1 .. m : s[i] \in S
  BY <1>m
<1>3. /\ b \in Seq(S) /\ Len(b) = IF n + 1 <= m THEN m - (n + 1) + 1 ELSE 0
      /\ \A i \in 1 .. m - (n + 1) + 1 : b[i] = s[n + 1 + i - 1]
  BY <1>m, <1>b, <1>2, SubSeqProperties
<1>4. Len(b) = m - n /\ \A i \in 1 .. m - n : b[i] = s[n + i]
  BY <1>m, <1>3
<1>5. PICK ab : ab = a \o b
  OBVIOUS
<1>6. /\ ab \in Seq(S) /\ Len(ab) = Len(a) + Len(b)
      /\ \A i \in 1 .. Len(a) + Len(b) : ab[i] = IF i <= Len(a) THEN a[i] ELSE b[i - Len(a)]
  BY <1>1, <1>3, <1>5, ConcatProperties
<1>7. Len(ab) = m - 1 /\ \A i \in 1 .. m - 1 : ab[i] = IF i <= n - 1 THEN a[i] ELSE b[i - (n - 1)]
  <2>1. Len(a) = n - 1 /\ Len(b) = m - n /\ (n - 1) + (m - n) = m - 1
    BY <1>1, <1>4, <1>m
  <2> QED BY <1>6, <2>1
<1>8. ASSUME NEW i \in 1 .. m - 1 PROVE ab[i] = IF i < n THEN s[i] ELSE s[i + 1]
  <2>1. CASE i < n
    BY <1>1, <1>7, <1>m, <2>1
  <2>2. CASE ~(i < n)
    <3>1. i - (n - 1) \in 1 .. m - n /\ n + (i - (n - 1)) = i + 1
      BY <1>m, <2>2
    <3> QED BY <1>4, <1>7, <1>m, <2>2, <3>1
  <2> QED BY <2>1, <2>2
<1>9. RemoveAt(s, n) = ab
  BY <1>a, <1>b, <1>5 DEF RemoveAt
<1> QED BY <1>m, <1>6, <1>7, <1>8, <1>9

-----------------------------------------------------------------------------
(* Types.                                                                  *)

\* The kinds of call frames, the states of a thread and the driver actions.
CallKinds == {"lua", "native", "base"}
Statuses == {"Suspended", "Running", "Normal", "Dead"}
DriverActions ==
    {"none", "startProto", "startTarget", "deliver", "startProtected", "finishProtected",
     "startHelper", "finishHelper", "startFinalizer", "failFinalizer", "deliverCollection",
     "resumeAutomatic", "deliverUpvalue"}
RoleSet == [kind : RoleKinds, stop : Nat]

\* A resume in progress, a pcall or callback in progress, a collection in progress.
Activation ==
    {f \in [caller : States, target : Coroutines, prevCaller : Statuses \cup {"none"},
            prevTarget : Statuses, prevLink : Coroutines \cup {None},
            saved : Seq(CallKinds), yield : Nat, replay : BOOLEAN] :
        f.caller # Main => f.prevCaller \in Statuses}
Boundary == [kind : {"protected", "helper"}, owner : States, stop : Nat, native : BOOLEAN,
             parent : RoleSet, prevYield : Nat, handler : {"none", "ready", "used"}]
Drain == [owner : States, stop : Nat, draining : BOOLEAN, running : Nat,
          explicit : BOOLEAN, resume : RoleSet]

\* Every variable has its type, and a turn that delivers a frame has one to deliver.
Types ==
    /\ mode \in {"idle", "action", "lua", "returned", "yielded", "raised"}
    /\ turn \in [do : DriverActions, role : RoleSet, ok : BOOLEAN]
    /\ owed \in BOOLEAN /\ current \in States
    /\ calls \in [States -> Seq(CallKinds)]
    /\ allow \in [States -> Nat]
    /\ status \in [Coroutines -> Statuses]
    /\ link \in [Coroutines -> Coroutines \cup {None}]
    /\ started \subseteq Coroutines
    /\ frames \in Seq(Activation) /\ boundaries \in Seq(Boundary) /\ gcFrames \in Seq(Drain)
    /\ queue \in Seq(1 .. MaxFinalizers) /\ found \in 0 .. MaxFinalizers
    /\ draining \in BOOLEAN /\ begun \in [1 .. MaxFinalizers -> Nat]
    /\ owed => frames # <<>>
    /\ turn.do = "deliver" => owed
    /\ turn.do = "startTarget" => current \in Coroutines
    /\ turn.do = "finishProtected" => IndexOfKind("protected", boundaries) # 0
    /\ turn.do = "finishHelper" => IndexOfKind("helper", boundaries) # 0
    /\ turn.do = "deliverCollection" => gcFrames # <<>>

\* IndexOfKind finds the last frame of a kind.
LEMMA IndexOfKindIs ==
    ASSUME NEW bs \in Seq(Boundary), NEW kind
    PROVE  LET i == IndexOfKind(kind, bs)
           IN  /\ i \in 0 .. Len(bs)
               /\ i = 0 => \A j \in 1 .. Len(bs) : bs[j].kind # kind
               /\ i # 0 => i \in 1 .. Len(bs) /\ bs[i].kind = kind
                           /\ \A j \in 1 .. Len(bs) : j > i => bs[j].kind # kind
<1> DEFINE I == {i \in 1 .. Len(bs) : bs[i].kind = kind}
<1>1. IndexOfKind(kind, bs) = IF I # {} THEN Max(I) ELSE 0
  BY DEF IndexOfKind, SelectLastInSeq
<1>2. PICK n \in Nat : n = Len(bs)
  OBVIOUS
<1>3. I \in SUBSET (1 .. n)
  BY <1>2
<1>4. CASE I = {}
  BY <1>1, <1>2, <1>4
<1>5. CASE I # {}
  <2>1. PICK m : m = Max(I)
    OBVIOUS
  <2>2. m \in I /\ \A j \in I : j <= m
    BY <1>3, <1>5, <2>1, HasMax
  <2>3. m \in 1 .. n /\ m # 0 /\ bs[m].kind = kind /\ \A j \in 1 .. n : j > m => bs[j].kind # kind
    BY <1>2, <2>2
  <2>4. IndexOfKind(kind, bs) = m
    BY <1>1, <1>5, <2>1
  <2> QED BY <1>2, <2>3, <2>4
<1> QED BY <1>4, <1>5

\* ActiveDrain finds the last draining frame of a state.
LEMMA ActiveDrainIs ==
    ASSUME NEW gs \in Seq(Drain), NEW s
    PROVE  LET i == ActiveDrain(gs, s)
           IN  /\ i \in 0 .. Len(gs)
               /\ i = 0 => \A j \in 1 .. Len(gs) : ~(gs[j].draining /\ gs[j].owner = s)
               /\ i # 0 => /\ i \in 1 .. Len(gs) /\ gs[i].draining /\ gs[i].owner = s
                           /\ \A j \in 1 .. Len(gs) : j > i => ~(gs[j].draining /\ gs[j].owner = s)
<1> DEFINE I == {i \in 1 .. Len(gs) : gs[i].draining /\ gs[i].owner = s}
<1>1. ActiveDrain(gs, s) = IF I # {} THEN Max(I) ELSE 0
  BY DEF ActiveDrain, SelectLastInSeq
<1>2. PICK n \in Nat : n = Len(gs)
  OBVIOUS
<1>3. I \in SUBSET (1 .. n)
  BY <1>2
<1>4. CASE I = {}
  BY <1>1, <1>2, <1>4
<1>5. CASE I # {}
  <2>1. PICK m : m = Max(I)
    OBVIOUS
  <2>2. m \in I /\ \A j \in I : j <= m
    BY <1>3, <1>5, <2>1, HasMax
  <2>3. /\ m \in 1 .. n /\ m # 0 /\ gs[m].draining /\ gs[m].owner = s
        /\ \A j \in 1 .. n : j > m => ~(gs[j].draining /\ gs[j].owner = s)
    BY <1>2, <2>2
  <2>4. ActiveDrain(gs, s) = m
    BY <1>1, <1>5, <2>1
  <2> QED BY <1>2, <2>3, <2>4
<1> QED BY <1>4, <1>5

\* ActiveRole is the role of the last boundary of a state, else of its drain.
LEMMA ActiveRoleIs ==
    ASSUME NEW bs \in Seq(Boundary), NEW gs \in Seq(Drain), NEW s
    PROVE  /\ ActiveRole(bs, gs, s) \in RoleSet
           /\ \/ /\ \A i \in 1 .. Len(bs) : bs[i].owner # s
                 /\ ActiveDrain(gs, s) = 0 /\ ActiveRole(bs, gs, s) = ProgramRole
              \/ /\ \A i \in 1 .. Len(bs) : bs[i].owner # s
                 /\ ActiveDrain(gs, s) # 0
                 /\ ActiveRole(bs, gs, s) = Role("finalizer", gs[ActiveDrain(gs, s)].stop)
              \/ \E i \in 1 .. Len(bs) :
                    /\ bs[i].owner = s /\ \A k \in 1 .. Len(bs) : k > i => bs[k].owner # s
                    /\ ActiveRole(bs, gs, s) = RoleOf(bs[i])
<1> DEFINE I == {i \in 1 .. Len(bs) : bs[i].owner = s}
           b == IF I # {} THEN Max(I) ELSE 0
           g == ActiveDrain(gs, s)
<1>1. ActiveRole(bs, gs, s) = IF b # 0 THEN RoleOf(bs[b])
                              ELSE IF g # 0 THEN Role("finalizer", gs[g].stop) ELSE ProgramRole
  BY DEF ActiveRole, SelectLastInSeq
<1>2. PICK n \in Nat : n = Len(bs)
  OBVIOUS
<1>3. I \in SUBSET (1 .. n)
  BY <1>2
<1>g. g = 0 \/ (g \in 1 .. Len(gs) /\ gs[g].stop \in Nat)
  <2>1. g = 0 \/ g \in 1 .. Len(gs)
    BY ActiveDrainIs
  <2>2. \A i \in 1 .. Len(gs) : gs[i] \in Drain
    OBVIOUS
  <2> QED BY <2>1, <2>2 DEF Drain
<1> HIDE DEF g
<1>4. CASE I = {}
  <2>1. \A i \in 1 .. n : bs[i].owner # s
    BY <1>2, <1>4
  <2>2. ActiveRole(bs, gs, s) = IF g # 0 THEN Role("finalizer", gs[g].stop) ELSE ProgramRole
    BY <1>1, <1>4
  <2>3. ActiveRole(bs, gs, s) \in RoleSet
    BY <2>2, <1>g DEF Role, ProgramRole, RoleSet, RoleKinds
  <2> QED BY <1>2, <2>1, <2>2, <2>3 DEF g
<1>5. CASE I # {}
  <2>1. PICK m : m = Max(I)
    OBVIOUS
  <2>2. m \in I /\ \A j \in I : j <= m
    BY <1>3, <1>5, <2>1, HasMax
  <2>3. m \in 1 .. n /\ m # 0 /\ bs[m].owner = s /\ \A j \in 1 .. n : j > m => bs[j].owner # s
    BY <1>2, <2>2
  <2>4. ActiveRole(bs, gs, s) = RoleOf(bs[m])
    BY <1>1, <1>5, <2>1, <2>3
  <2>5. bs[m] \in Boundary
    BY <1>2, <2>3
  <2>6. ActiveRole(bs, gs, s) \in RoleSet
    BY <2>4, <2>5 DEF RoleOf, Role, Boundary, RoleSet, RoleKinds
  <2> QED BY <1>2, <2>3, <2>4, <2>6
<1> QED BY <1>4, <1>5

\* FirstSaver finds the outermost frame that saved the status of a coroutine.
LEMMA FirstSaverIs ==
    ASSUME NEW fs \in Seq(Activation), NEW c
    PROVE  LET i == FirstSaver(fs, c)
           IN  /\ i \in 0 .. Len(fs)
               /\ i = 0 => \A j \in 1 .. Len(fs) : c \notin {fs[j].caller, fs[j].target}
               /\ i # 0 => /\ i \in 1 .. Len(fs) /\ c \in {fs[i].caller, fs[i].target}
                           /\ \A j \in 1 .. Len(fs) : j < i => c \notin {fs[j].caller, fs[j].target}
<1> DEFINE I == {i \in 1 .. Len(fs) : c \in {fs[i].caller, fs[i].target}}
<1>1. FirstSaver(fs, c) = IF I # {} THEN Min(I) ELSE 0
  BY DEF FirstSaver, SelectInSeq
<1>2. PICK n \in Nat : n = Len(fs)
  OBVIOUS
<1>3. I \in SUBSET Nat
  BY <1>2
<1>4. CASE I = {}
  BY <1>1, <1>2, <1>4
<1>5. CASE I # {}
  <2>1. PICK m : m = Min(I)
    OBVIOUS
  <2>2. m \in I /\ \A j \in I : m <= j
    BY <1>3, <1>5, <2>1, HasMin
  <2>3. /\ m \in 1 .. n /\ m # 0 /\ c \in {fs[m].caller, fs[m].target}
        /\ \A j \in 1 .. n : j < m => c \notin {fs[j].caller, fs[j].target}
    BY <1>2, <2>2
  <2>4. FirstSaver(fs, c) = m
    BY <1>1, <1>5, <2>1
  <2> QED BY <1>2, <2>3, <2>4
<1> QED BY <1>4, <1>5

\* The first frame that resumed a coroutine.
LEMMA FirstTargetIs ==
    ASSUME NEW fs \in Seq(Activation), NEW c
    PROVE  LET i == FirstTarget(fs, c)
           IN  /\ i \in 0 .. Len(fs)
               /\ i = 0 => \A j \in 1 .. Len(fs) : c # fs[j].target
               /\ i # 0 => /\ i \in 1 .. Len(fs) /\ c = fs[i].target
                           /\ \A j \in 1 .. Len(fs) : j < i => c # fs[j].target
<1> DEFINE I == {i \in 1 .. Len(fs) : c = fs[i].target}
<1>1. FirstTarget(fs, c) = IF I # {} THEN Min(I) ELSE 0
  BY DEF FirstTarget, SelectInSeq
<1>2. PICK n \in Nat : n = Len(fs)
  OBVIOUS
<1>3. I \in SUBSET Nat
  BY <1>2
<1>4. CASE I = {}
  BY <1>1, <1>2, <1>4
<1>5. CASE I # {}
  <2>1. PICK m : m = Min(I)
    OBVIOUS
  <2>2. m \in I /\ \A j \in I : m <= j
    BY <1>3, <1>5, <2>1, HasMin
  <2>3. m \in 1 .. n /\ m # 0 /\ c = fs[m].target /\ \A j \in 1 .. n : j < m => c # fs[j].target
    BY <1>2, <2>2
  <2>4. FirstTarget(fs, c) = m
    BY <1>1, <1>5, <2>1
  <2> QED BY <1>2, <2>3, <2>4
<1> QED BY <1>4, <1>5

\* The first pcall of a state.
LEMMA FirstBarrierIs ==
    ASSUME NEW bs \in Seq(Boundary), NEW s
    PROVE  LET i == FirstBarrier(bs, s)
           IN  /\ i \in 0 .. Len(bs)
               /\ i = 0 => \A j \in 1 .. Len(bs) : ~(bs[j].kind = "protected" /\ bs[j].owner = s)
               /\ i # 0 => /\ i \in 1 .. Len(bs) /\ bs[i].kind = "protected" /\ bs[i].owner = s
                           /\ \A j \in 1 .. Len(bs) : j < i => ~(bs[j].kind = "protected" /\ bs[j].owner = s)
<1> DEFINE I == {i \in 1 .. Len(bs) : bs[i].kind = "protected" /\ bs[i].owner = s}
<1>1. FirstBarrier(bs, s) = IF I # {} THEN Min(I) ELSE 0
  BY DEF FirstBarrier, SelectInSeq
<1>2. PICK n \in Nat : n = Len(bs)
  OBVIOUS
<1>3. I \in SUBSET Nat
  BY <1>2
<1>4. CASE I = {}
  BY <1>1, <1>2, <1>4
<1>5. CASE I # {}
  <2>1. PICK m : m = Min(I)
    OBVIOUS
  <2>2. m \in I /\ \A j \in I : m <= j
    BY <1>3, <1>5, <2>1, HasMin
  <2>3. /\ m \in 1 .. n /\ m # 0 /\ bs[m].kind = "protected" /\ bs[m].owner = s
        /\ \A j \in 1 .. n : j < m => ~(bs[j].kind = "protected" /\ bs[j].owner = s)
    BY <1>2, <2>2
  <2>4. FirstBarrier(bs, s) = m
    BY <1>1, <1>5, <2>1
  <2> QED BY <1>2, <2>3, <2>4
<1> QED BY <1>4, <1>5

-----------------------------------------------------------------------------
(* The stacks without what the turn has delivered.                         *)

\* The resumes in progress at the end of a turn: all, or all but the last.
LEMMA FramesIs ==
    ASSUME Types
    PROVE  /\ Frames \in Seq(Activation)
           /\ ~owed => Frames = frames
           /\ owed => Frames = Front(frames) /\ Len(Frames) = Len(frames) - 1
           /\ Len(Frames) <= Len(frames)
           /\ \A i \in 1 .. Len(Frames) : Frames[i] = frames[i]
<1>1. frames \in Seq(Activation) /\ owed \in BOOLEAN /\ (owed => frames # <<>>)
  BY DEF Types
<1>2. PICK n \in Nat : n = Len(frames)
  BY <1>1
<1>3. CASE owed
  <2>1. /\ Front(frames) \in Seq(Activation) /\ Len(Front(frames)) = n - 1
        /\ \A i \in 1 .. n - 1 : Front(frames)[i] = frames[i]
    BY <1>1, <1>2, <1>3, FrontIs
  <2>2. Frames = Front(frames)
    BY <1>3 DEF Frames
  <2> QED BY <1>2, <1>3, <2>1, <2>2
<1>4. CASE ~owed
  <2>1. Frames = frames
    BY <1>4 DEF Frames
  <2> QED BY <1>1, <1>2, <1>4, <2>1
<1> QED BY <1>1, <1>3, <1>4

\* The boundaries at the end of a turn: all, or all but the one it delivered.
LEMMA BoundariesIs ==
    ASSUME Types
    PROVE  /\ PopsBoundary \in 0 .. Len(boundaries)
           /\ PopsBoundary = 0 => Boundaries = boundaries
           /\ PopsBoundary # 0 => Boundaries = RemoveAt(boundaries, PopsBoundary)
           /\ Boundaries \in Seq(Boundary)
           /\ turn.do \in {"finishProtected", "finishHelper"} => PopsBoundary # 0
<1>1. boundaries \in Seq(Boundary)
  BY DEF Types
<1>2. PopsBoundary \in 0 .. Len(boundaries)
  <2>1. /\ IndexOfKind("protected", boundaries) \in 0 .. Len(boundaries)
        /\ IndexOfKind("helper", boundaries) \in 0 .. Len(boundaries)
    BY <1>1, IndexOfKindIs
  <2>2. 0 \in 0 .. Len(boundaries)
    BY <1>1
  <2> QED BY <2>1, <2>2 DEF PopsBoundary
<1>3. PopsBoundary # 0 => RemoveAt(boundaries, PopsBoundary) \in Seq(Boundary)
  <2> SUFFICES ASSUME PopsBoundary # 0 PROVE RemoveAt(boundaries, PopsBoundary) \in Seq(Boundary)
    OBVIOUS
  <2>1. PopsBoundary \in 1 .. Len(boundaries)
    BY <1>1, <1>2
  <2> QED BY <1>1, <2>1, RemoveAtIs
<1>4. turn.do \in {"finishProtected", "finishHelper"} => PopsBoundary # 0
  BY DEF Types, PopsBoundary
<1> QED BY <1>1, <1>2, <1>3, <1>4 DEF Boundaries

\* The collections at the end of a turn: all, or all but the last.
LEMMA GcFramesIs ==
    ASSUME Types
    PROVE  /\ GcFrames \in Seq(Drain)
           /\ turn.do # "deliverCollection" => GcFrames = gcFrames
           /\ turn.do = "deliverCollection" => GcFrames = Front(gcFrames) /\ Len(GcFrames) = Len(gcFrames) - 1
           /\ Len(GcFrames) <= Len(gcFrames)
           /\ \A i \in 1 .. Len(GcFrames) : GcFrames[i] = gcFrames[i]
<1>1. gcFrames \in Seq(Drain) /\ (turn.do = "deliverCollection" => gcFrames # <<>>)
  BY DEF Types
<1>2. PICK n \in Nat : n = Len(gcFrames)
  BY <1>1
<1>3. CASE turn.do = "deliverCollection"
  <2>1. /\ Front(gcFrames) \in Seq(Drain) /\ Len(Front(gcFrames)) = n - 1
        /\ \A i \in 1 .. n - 1 : Front(gcFrames)[i] = gcFrames[i]
    BY <1>1, <1>2, <1>3, FrontIs
  <2>2. GcFrames = Front(gcFrames)
    BY <1>3 DEF GcFrames
  <2> QED BY <1>2, <1>3, <2>1, <2>2
<1>4. CASE turn.do # "deliverCollection"
  <2>1. GcFrames = gcFrames
    BY <1>4 DEF GcFrames
  <2> QED BY <1>1, <1>2, <1>4, <2>1
<1> QED BY <1>3, <1>4

\* What becomes of the variables that the properties are about when a session ends.
LEMMA ClosesTo ==
    ASSUME NEW result, NEW fs \in Seq(Activation), NEW bs \in Seq(Boundary),
           NEW st \in [Coroutines -> Statuses], NEW lk \in [Coroutines -> Coroutines \cup {None}],
           NEW al \in [States -> Nat], CloseSession(result, fs, bs, st, lk, al)
    PROVE  /\ status' \in [Coroutines -> Statuses]
           /\ link' \in [Coroutines -> Coroutines \cup {None}]
           /\ allow' \in [States -> Nat]
           /\ mode' = "idle" /\ turn' = NoTurn /\ owed' = FALSE /\ current' = Main
           /\ frames' = <<>> /\ boundaries' = <<>> /\ gcFrames' = <<>> /\ draining' = FALSE
           /\ outcome' = result
<1>1. \A i \in 1 .. Len(fs) : fs[i] \in Activation
  OBVIOUS
<1>2. \A i \in 1 .. Len(bs) : bs[i] \in Boundary
  OBVIOUS
<1>3. status' \in [Coroutines -> Statuses]
  <2> DEFINE New(c) == IF FirstSaver(fs, c) = 0 THEN st[c]
                       ELSE IF fs[FirstSaver(fs, c)].caller = c THEN fs[FirstSaver(fs, c)].prevCaller
                       ELSE fs[FirstSaver(fs, c)].prevTarget
  <2>1. status' = [c \in Coroutines |-> New(c)]
    BY DEF CloseSession
  <2>2. ASSUME NEW c \in Coroutines PROVE New(c) \in Statuses
    <3>1. PICK i : i = FirstSaver(fs, c)
      OBVIOUS
    <3>2. i = 0 \/ i \in 1 .. Len(fs)
      BY <3>1, FirstSaverIs
    <3>3. i # 0 => fs[i] \in Activation
      BY <1>1, <3>2
    <3>4. c # Main
      BY StatesAssumption
    <3> QED BY <3>1, <3>3, <3>4 DEF Activation
  <2> QED BY <2>1, <2>2
<1>4. link' \in [Coroutines -> Coroutines \cup {None}]
  <2> DEFINE New(c) == IF FirstTarget(fs, c) = 0 THEN lk[c] ELSE fs[FirstTarget(fs, c)].prevLink
  <2>1. link' = [c \in Coroutines |-> New(c)]
    BY DEF CloseSession
  <2>2. ASSUME NEW c \in Coroutines PROVE New(c) \in Coroutines \cup {None}
    <3>1. PICK i : i = FirstTarget(fs, c)
      OBVIOUS
    <3>2. i = 0 \/ i \in 1 .. Len(fs)
      BY <3>1, FirstTargetIs
    <3>3. i # 0 => fs[i] \in Activation
      BY <1>1, <3>2
    <3> QED BY <3>1, <3>3 DEF Activation
  <2> QED BY <2>1, <2>2
<1>5. allow' \in [States -> Nat]
  <2> DEFINE New(s) == IF FirstBarrier(bs, s) = 0 THEN al[s] ELSE bs[FirstBarrier(bs, s)].prevYield
  <2>1. allow' = [s \in States |-> New(s)]
    BY DEF CloseSession
  <2>2. ASSUME NEW s \in States PROVE New(s) \in Nat
    <3>1. PICK i : i = FirstBarrier(bs, s)
      OBVIOUS
    <3>2. i = 0 \/ i \in 1 .. Len(bs)
      BY <3>1, FirstBarrierIs
    <3>3. i # 0 => bs[i] \in Boundary
      BY <1>2, <3>2
    <3> QED BY <3>1, <3>3 DEF Boundary
  <2> QED BY <2>1, <2>2
<1> QED BY <1>3, <1>4, <1>5 DEF CloseSession

-----------------------------------------------------------------------------
(* Every variable keeps its type.                                          *)

\* A turn that settles is in the loop.
LEMMA SettlesIs ==
    ASSUME NEW cs, NEW role
    PROVE  Settles(cs, role) \in {"returned", "raised", "lua"}
BY DEF Settles

\* Unwinding a state leaves sequences of call frames.
LEMMA UnwoundIs ==
    ASSUME Types, NEW s \in States, NEW n \in Int
    PROVE  Unwound(s, n) \in [States -> Seq(CallKinds)]
<1>1. calls \in [States -> Seq(CallKinds)] /\ calls[s] \in Seq(CallKinds)
  BY DEF Types
<1>2. PICK k \in Int : k = (IF n < Len(calls[s]) THEN n ELSE Len(calls[s])) /\ k <= Len(calls[s])
  BY <1>1
<1>3. \A i \in 1 .. k : calls[s][i] \in CallKinds
  BY <1>1, <1>2
<1>4. SubSeq(calls[s], 1, k) \in Seq(CallKinds)
  BY <1>2, <1>3, SubSeqProperties
<1>5. Unwound(s, n) = [calls EXCEPT ![s] = SubSeq(calls[s], 1, k)]
  BY <1>2 DEF Unwound
<1> QED BY <1>1, <1>4, <1>5

\* So does popping a frame of a state,
LEMMA FrontOfCalls ==
    ASSUME Types, NEW s \in States
    PROVE  /\ Front(calls[s]) \in Seq(CallKinds)
           /\ [calls EXCEPT ![s] = Front(calls[s])] \in [States -> Seq(CallKinds)]
<1>1. calls \in [States -> Seq(CallKinds)] /\ calls[s] \in Seq(CallKinds)
  BY DEF Types
<1> QED BY <1>1, FrontIs

\* and pushing one.
LEMMA PushOnCalls ==
    ASSUME Types, NEW s \in States, NEW k \in CallKinds
    PROVE  /\ Append(calls[s], k) \in Seq(CallKinds)
           /\ [calls EXCEPT ![s] = Append(calls[s], k)] \in [States -> Seq(CallKinds)]
<1>1. calls \in [States -> Seq(CallKinds)] /\ calls[s] \in Seq(CallKinds)
  BY DEF Types
<1> QED BY <1>1, AppendProperties

\* A delivery leaves sequences of call frames, and the turn goes on.
LEMMA CompletesIs ==
    ASSUME Types, NEW s \in States, NEW depth, NEW role, Completes(s, depth, role)
    PROVE  calls' \in [States -> Seq(CallKinds)] /\ mode' \in {"returned", "raised", "lua"}
<1>1. CASE Matches(s, depth)
  <2>1. calls' = [calls EXCEPT ![s] = Front(calls[s])] /\ mode' = Settles(Front(calls[s]), role)
    BY <1>1 DEF Completes
  <2> QED BY <2>1, FrontOfCalls, SettlesIs
<1>2. CASE ~Matches(s, depth)
  BY <1>2 DEF Completes, Types
<1> QED BY <1>1, <1>2

\* So does the delivery of an error.
LEMMA FailsIs ==
    ASSUME Types, NEW s \in States, NEW depth \in Nat, Fails(s, depth)
    PROVE  calls' \in [States -> Seq(CallKinds)] /\ mode' = "raised"
<1>1. Unwound(s, depth - 1) \in [States -> Seq(CallKinds)]
  BY UnwoundIs
<1> QED BY <1>1 DEF Fails, Types

\* Steps of the code and driver actions: only calls, permissions and the
\* set of started threads change.
LEMMA TypesOfTurn ==
    ASSUME Types, UNCHANGED <<turn, owed, current, frames, boundaries>>, UNCHANGED <<status, link>>,
           UNCHANGED gcVars, started' \subseteq Coroutines,
           calls' \in [States -> Seq(CallKinds)], allow' \in [States -> Nat],
           mode' \in {"idle", "action", "lua", "returned", "yielded", "raised"}
    PROVE  Types'
BY DEF Types, gcVars

\* The parts of a turn.
LEMMA TurnIs ==
    ASSUME NEW do \in DriverActions, NEW role \in RoleSet, NEW ok \in BOOLEAN
    PROVE  /\ Turn(do, role, ok) \in [do : DriverActions, role : RoleSet, ok : BOOLEAN]
           /\ Turn(do, role, ok).do = do /\ Turn(do, role, ok).role = role /\ Turn(do, role, ok).ok = ok
BY DEF Turn

\* A step that closes the session.
LEMMA TypesOfClose ==
    ASSUME Types, NEW result, NEW fs \in Seq(Activation), NEW bs \in Seq(Boundary),
           NEW st \in [Coroutines -> Statuses], NEW lk \in [Coroutines -> Coroutines \cup {None}],
           NEW al \in [States -> Nat], CloseSession(result, fs, bs, st, lk, al),
           calls' \in [States -> Seq(CallKinds)], started' \subseteq Coroutines,
           queue' \in Seq(1 .. MaxFinalizers), UNCHANGED <<found, begun>>
    PROVE  Types'
<1>1. /\ status' \in [Coroutines -> Statuses] /\ link' \in [Coroutines -> Coroutines \cup {None}]
      /\ allow' \in [States -> Nat]
      /\ mode' = "idle" /\ turn' = NoTurn /\ owed' = FALSE /\ current' = Main
      /\ frames' = <<>> /\ boundaries' = <<>> /\ gcFrames' = <<>> /\ draining' = FALSE
  BY ClosesTo
<1>2. NoTurn \in [do : DriverActions, role : RoleSet, ok : BOOLEAN] /\ NoTurn.do = "none"
  <2>1. ProgramRole \in RoleSet
    BY DEF ProgramRole, Role, RoleSet, RoleKinds
  <2>2. "none" \in DriverActions /\ TRUE \in BOOLEAN
    BY DEF DriverActions
  <2> QED BY <2>1, <2>2, TurnIs DEF NoTurn
<1>3. Main \in States
  BY DEF States
<1>4. turn'.do = "none" /\ turn' \in [do : DriverActions, role : RoleSet, ok : BOOLEAN]
  BY <1>1, <1>2
<1>5. <<>> \in Seq(Activation) /\ <<>> \in Seq(Boundary) /\ <<>> \in Seq(Drain)
  BY EmptySeq
<1>6. /\ frames' \in Seq(Activation) /\ boundaries' \in Seq(Boundary) /\ gcFrames' \in Seq(Drain)
      /\ found' \in 0 .. MaxFinalizers /\ begun' \in [1 .. MaxFinalizers -> Nat]
  BY <1>1, <1>5 DEF Types
<1> QED BY <1>1, <1>3, <1>4, <1>6 DEF Types

\* A step that ends a turn and leaves the session open.
LEMMA TypesOfEnd ==
    ASSUME Types, NEW do \in DriverActions, NEW role \in RoleSet, NEW ok \in BOOLEAN,
           Then(do, role, ok), current' \in States,
           calls' \in [States -> Seq(CallKinds)], allow' \in [States -> Nat],
           status' \in [Coroutines -> Statuses], link' \in [Coroutines -> Coroutines \cup {None}],
           frames' \in Seq(Activation), boundaries' \in Seq(Boundary), gcFrames' \in Seq(Drain),
           queue' \in Seq(1 .. MaxFinalizers), found' \in 0 .. MaxFinalizers,
           draining' \in BOOLEAN, begun' \in [1 .. MaxFinalizers -> Nat], started' \subseteq Coroutines,
           do = "deliver" => frames' # <<>>,
           do = "startTarget" => current' \in Coroutines,
           do = "finishProtected" => IndexOfKind("protected", boundaries') # 0,
           do = "finishHelper" => IndexOfKind("helper", boundaries') # 0,
           do = "deliverCollection" => gcFrames' # <<>>
    PROVE  Types'
<1>1. turn' \in [do : DriverActions, role : RoleSet, ok : BOOLEAN] /\ turn'.do = do
  BY DEF Then, Turn
<1>2. mode' = "action" /\ owed' = (do = "deliver")
  BY DEF Then
<1> QED BY <1>1, <1>2 DEF Types

\* The steps of the Lua code keep the types ...
LEMMA TypesRuns == ASSUME Types, Runs PROVE Types'
<1> USE DEF threadVars
<1>c. /\ current \in States /\ turn.role \in RoleSet /\ turn.role.stop \in Int /\ started \subseteq Coroutines
      /\ calls \in [States -> Seq(CallKinds)] /\ allow \in [States -> Nat] /\ mode \in {"idle", "action", "lua", "returned", "yielded", "raised"}
  BY DEF Types, RoleSet
<1>u. Unwound(current, turn.role.stop) \in [States -> Seq(CallKinds)]
  BY <1>c, UnwoundIs
<1>1. CASE LuaCall
  <2>1. calls' = [calls EXCEPT ![current] = Append(calls[current], "lua")]
    BY <1>1 DEF LuaCall
  <2>2. calls' \in [States -> Seq(CallKinds)]
    BY <1>c, <2>1, PushOnCalls DEF CallKinds
  <2> QED BY <1>1, <1>c, <2>2, TypesOfTurn DEF LuaCall
<1>2. CASE LuaReturn
  <2> DEFINE root == turn.role = ProgramRole /\ calls[current] = <<"lua">>
             cs == IF LuaRuns /\ ~root THEN Front(calls[current]) ELSE calls[current]
  <2>1. /\ calls' = [calls EXCEPT ![current] = cs]
        /\ mode' = IF root THEN "returned" ELSE Settles(cs, turn.role)
    BY <1>2 DEF LuaReturn
  <2>2. cs \in Seq(CallKinds)
    BY <1>c, FrontOfCalls
  <2>3. mode' \in {"returned", "raised", "lua"}
    <3>1. Settles(cs, turn.role) \in {"returned", "raised", "lua"}
      BY SettlesIs
    <3> HIDE DEF cs, root
    <3> QED BY <2>1, <3>1
  <2>4. calls' \in [States -> Seq(CallKinds)]
    <3> HIDE DEF cs
    <3> QED BY <1>c, <2>1, <2>2
  <2> QED BY <1>2, <1>c, <2>3, <2>4, TypesOfTurn DEF LuaReturn
<1>3. CASE LuaThrow
  BY <1>3, <1>c, <1>u, TypesOfTurn DEF LuaThrow
<1>4. CASE Yield
  BY <1>4, <1>c, <1>u, TypesOfTurn DEF Yield
<1> QED BY <1>1, <1>2, <1>3, <1>4 DEF Runs

\* ... and the driver actions,
LEMMA TypesDrives == ASSUME Types, Drives PROVE Types'
<1> USE DEF threadVars, Performs
<1>c. /\ current \in States /\ turn.role \in RoleSet /\ turn.role.stop \in Int /\ started \subseteq Coroutines
      /\ calls \in [States -> Seq(CallKinds)] /\ allow \in [States -> Nat] /\ mode \in {"idle", "action", "lua", "returned", "yielded", "raised"}
  BY DEF Types, RoleSet
<1>u. Unwound(current, turn.role.stop) \in [States -> Seq(CallKinds)]
  BY <1>c, UnwoundIs
<1>p. [calls EXCEPT ![current] = Append(calls[current], "lua")] \in [States -> Seq(CallKinds)]
  BY <1>c, PushOnCalls DEF CallKinds
<1>1. CASE StartTarget
  <2>1. /\ allow' = [allow EXCEPT ![current] = allow[current] + 1] /\ started' = started \cup {current}
        /\ UNCHANGED <<turn, owed, current, frames, boundaries>> /\ UNCHANGED <<status, link>> /\ UNCHANGED gcVars
    BY <1>1 DEF StartTarget
  <2>2. calls' \in [States -> Seq(CallKinds)] /\ mode' \in {"returned", "raised", "lua"}
    <3>1. CASE current \notin started
      BY <1>1, <1>p, <3>1 DEF StartTarget
    <3>2. CASE current \in started /\ Last(frames).prevTarget = "Normal"
      <4>1. PICK depth : Completes(current, depth, ProgramRole)
        BY <1>1, <3>2 DEF StartTarget
      <4> QED BY <4>1, <1>c, CompletesIs
    <3>3. CASE current \in started /\ Last(frames).prevTarget # "Normal"
      BY <1>1, <1>c, <3>3, SettlesIs DEF StartTarget
    <3> QED BY <3>1, <3>2, <3>3
  <2>3. allow' \in [States -> Nat]
    BY <1>c, <2>1
  <2>4. current \in Coroutines
    BY <1>1 DEF StartTarget, Types
  <2> QED BY <1>c, <2>1, <2>2, <2>3, <2>4, TypesOfTurn
<1>2. CASE Deliver
  <2>1. frames # <<>> /\ frames \in Seq(Activation)
    BY <1>2 DEF Deliver, Types
  <2>2. PICK f \in Activation : f = Last(frames)
    BY <2>1, FrontIs
  <2>3. /\ calls' \in [States -> Seq(CallKinds)] /\ allow' \in [States -> Nat]
        /\ mode' \in {"returned", "raised", "lua"}
    <3>1. CASE f.replay
      <4>1. /\ calls' = [calls EXCEPT ![current] = Front(f.saved)]
            /\ allow' = [allow EXCEPT ![current] = f.yield]
            /\ mode' = Settles(Front(f.saved), turn.role)
        BY <1>2, <2>2, <3>1 DEF Deliver
      <4>2. f.saved \in Seq(CallKinds) /\ f.yield \in Nat
        BY DEF Activation
      <4>3. Front(f.saved) \in Seq(CallKinds)
        BY <4>2, FrontIs
      <4> QED BY <1>c, <4>1, <4>2, <4>3, SettlesIs
    <3>2. CASE ~f.replay
      <4>1. Completes(current, Len(f.saved), turn.role) /\ allow' = allow
        BY <1>2, <2>2, <3>2 DEF Deliver
      <4> QED BY <1>c, <4>1, CompletesIs
    <3> QED BY <3>1, <3>2
  <2> QED BY <1>2, <1>c, <2>3, TypesOfTurn DEF Deliver
<1>t. ASSUME NEW depth, StartsTarget(depth)
      PROVE  calls' \in [States -> Seq(CallKinds)] /\ mode' \in {"raised", "lua"}
  BY <1>c, <1>p, <1>t DEF StartsTarget
<1>3. CASE StartProtected
  BY <1>3, <1>c, <1>t, TypesOfTurn DEF StartProtected
<1>4. CASE StartCallback
  BY <1>4, <1>c, <1>t, TypesOfTurn DEF StartCallback
<1>5. CASE FinishProtected
  <2>1. PopsBoundary # 0 /\ PopsBoundary \in 0 .. Len(boundaries) /\ boundaries \in Seq(Boundary)
    BY <1>5, BoundariesIs DEF FinishProtected, Types
  <2>2. PICK b \in Boundary : b = boundaries[PopsBoundary]
    BY <2>1
  <2>3. Completes(current, b.stop, turn.role) /\ allow' = [allow EXCEPT ![current] = b.prevYield]
    BY <1>5, <2>2 DEF FinishProtected
  <2>4. b.prevYield \in Nat
    BY DEF Boundary
  <2>5. calls' \in [States -> Seq(CallKinds)] /\ mode' \in {"returned", "raised", "lua"}
    BY <1>c, <2>3, CompletesIs
  <2> QED BY <1>5, <1>c, <2>3, <2>4, <2>5, TypesOfTurn DEF FinishProtected
<1>6. CASE FinishHelper
  <2>1. PopsBoundary # 0 /\ PopsBoundary \in 0 .. Len(boundaries) /\ boundaries \in Seq(Boundary)
    BY <1>6, BoundariesIs DEF FinishHelper, Types
  <2>2. PICK b \in Boundary : b = boundaries[PopsBoundary]
    BY <2>1
  <2>3. calls' \in [States -> Seq(CallKinds)] /\ mode' \in {"returned", "raised", "lua"}
    <3>1. CASE b.native /\ turn.ok
      <4>1. Completes(current, b.stop, turn.role)
        BY <1>6, <2>2, <3>1 DEF FinishHelper
      <4> QED BY <1>c, <4>1, CompletesIs
    <3>2. CASE b.native /\ ~turn.ok
      <4>1. Fails(current, b.stop)
        BY <1>6, <2>2, <3>2 DEF FinishHelper
      <4> QED BY <1>c, <4>1, FailsIs DEF Boundary
    <3>3. CASE ~b.native
      <4>1. calls' = calls /\ mode' = IF turn.ok THEN Settles(calls[current], turn.role) ELSE "raised"
        BY <1>6, <2>2, <3>3 DEF FinishHelper
      <4> QED BY <1>c, <4>1, SettlesIs
    <3> QED BY <3>1, <3>2, <3>3
  <2> QED BY <1>6, <1>c, <2>3, TypesOfTurn DEF FinishHelper
<1>7. CASE DeliverCollection
  <2>1. gcFrames # <<>> /\ gcFrames \in Seq(Drain)
    BY <1>7 DEF DeliverCollection, Types
  <2>2. PICK g \in Drain : g = Last(gcFrames)
    BY <2>1, FrontIs
  <2>3. calls' \in [States -> Seq(CallKinds)] /\ mode' \in {"returned", "raised", "lua"}
    <3>1. CASE turn.ok
      <4>1. Completes(current, g.stop, turn.role)
        BY <1>7, <2>2, <3>1 DEF DeliverCollection
      <4> QED BY <1>c, <4>1, CompletesIs
    <3>2. CASE ~turn.ok
      <4>1. Fails(current, g.stop)
        BY <1>7, <2>2, <3>2 DEF DeliverCollection
      <4> QED BY <1>c, <4>1, FailsIs DEF Drain
    <3> QED BY <3>1, <3>2
  <2> QED BY <1>7, <1>c, <2>3, TypesOfTurn DEF DeliverCollection
<1>8. CASE ResumeInstruction
  <2>1. mode' \in {"returned", "raised", "lua"}
    BY <1>8, SettlesIs DEF ResumeInstruction
  <2> QED BY <1>8, <1>c, <2>1, TypesOfTurn DEF ResumeInstruction
<1>9. CASE FailFinalizer
  BY <1>9, <1>c, <1>u, TypesOfTurn DEF FailFinalizer, Unwind
<1> QED BY <1>1, <1>2, <1>3, <1>4, <1>5, <1>6, <1>7, <1>8, <1>9 DEF Drives

\* The role of a finalizer that runs on the current state.
LEMMA FailingRole ==
    ASSUME Types, InFinalizerNow
    PROVE  Role("finalizer", GcFrames[ActiveDrain(GcFrames, current)].stop) \in RoleSet
<1>1. GcFrames \in Seq(Drain)
  BY GcFramesIs
<1>2. PICK i : i = ActiveDrain(GcFrames, current)
  OBVIOUS
<1>3. i \in 1 .. Len(GcFrames)
  BY <1>1, <1>2, ActiveDrainIs DEF InFinalizerNow
<1>4. GcFrames[i] \in Drain
  BY <1>1, <1>3
<1> QED BY <1>2, <1>4 DEF Role, RoleSet, RoleKinds, Drain

\* A finalizer that starts leaves a collection that drains.
LEMMA StartsNextIs ==
    ASSUME Types, NEW gs \in Seq(Drain), NEW g \in Drain, NEW waiting \in Seq(1 .. MaxFinalizers),
           waiting # <<>>, StartsNext(gs, g, waiting)
    PROVE  /\ gcFrames' \in Seq(Drain) /\ begun' \in [1 .. MaxFinalizers -> Nat] /\ draining' = TRUE
           /\ Role("finalizer", g.stop) \in RoleSet
           /\ Then("startFinalizer", Role("finalizer", g.stop), TRUE)
           /\ Head(waiting) \in 1 .. MaxFinalizers
<1>1. Head(waiting) \in 1 .. MaxFinalizers
  BY HeadTailProperties
<1>2. PICK n \in 1 .. MaxFinalizers : n = Head(waiting)
  BY <1>1
<1>3. [g EXCEPT !.draining = TRUE, !.running = n] \in Drain
  <2>1. n \in Nat
    BY BoundsAssumption
  <2> QED BY <2>1 DEF Drain
<1>4. gcFrames' \in Seq(Drain)
  BY <1>2, <1>3, AppendProperties DEF StartsNext
<1>5. begun' = [begun EXCEPT ![n] = begun[n] + 1]
  BY <1>2 DEF StartsNext
<1>6. begun' \in [1 .. MaxFinalizers -> Nat]
  <2>1. begun \in [1 .. MaxFinalizers -> Nat]
    BY DEF Types
  <2>2. begun[n] + 1 \in Nat
    BY <2>1
  <2> QED BY <1>5, <2>1, <2>2
<1>7. Role("finalizer", g.stop) \in RoleSet
  BY DEF Role, RoleSet, RoleKinds, Drain
<1> QED BY <1>1, <1>4, <1>6, <1>7 DEF StartsNext

\* A collection that ends leaves its frame only when it has to answer.
LEMMA ConcludesIs ==
    ASSUME NEW gs \in Seq(Drain), NEW g \in Drain, NEW ok, Concludes(gs, g, ok)
    PROVE  /\ gcFrames' \in Seq(Drain)
           /\ g.explicit => gcFrames' # <<>>
           /\ Then(IF g.explicit THEN "deliverCollection" ELSE "resumeAutomatic", g.resume, ok)
           /\ g.resume \in RoleSet
<1>1. PICK h : h = [g EXCEPT !.draining = FALSE, !.running = 0]
  OBVIOUS
<1>2. h \in Drain
  BY <1>1 DEF Drain
<1>3. Append(gs, h) \in Seq(Drain) /\ Append(gs, h) # <<>>
  BY <1>2, AppendProperties, EmptySeq
<1>4. gcFrames' = IF g.explicit THEN Append(gs, h) ELSE gs
  BY <1>1 DEF Concludes
<1> QED BY <1>3, <1>4 DEF Concludes, Drain

\* The queue grows by the userdata that were found.
LEMMA FindsIs ==
    ASSUME Types, NEW n \in found .. MaxFinalizers, Finds(n)
    PROVE  /\ queue' \in Seq(1 .. MaxFinalizers) /\ found' = n /\ n \in 0 .. MaxFinalizers
           /\ Len(queue') = Len(queue) + (n - found)
           /\ \A i \in 1 .. Len(queue) : queue'[i] = queue[i]
           /\ \A i \in 1 .. Len(queue') : i > Len(queue) => queue'[i] = found + (i - Len(queue))
<1>1. queue \in Seq(1 .. MaxFinalizers) /\ found \in 0 .. MaxFinalizers
  BY DEF Types
<1>m. PICK m \in Nat : m = Len(queue)
  BY <1>1
<1>k. PICK k \in Nat : k = n - found /\ \A i \in 1 .. k : found + i \in 1 .. MaxFinalizers
  BY <1>1, BoundsAssumption
<1>2. PICK new : new = [i \in 1 .. k |-> found + i]
  OBVIOUS
<1>4. new \in Seq(1 .. MaxFinalizers) /\ Len(new) = k
  <2>1. PICK S : S = 1 .. MaxFinalizers
    OBVIOUS
  <2>2. new \in [1 .. k -> S]
    BY <1>2, <1>k, <2>1
  <2>3. new \in Seq(S) /\ Len(new) = k
    BY <2>2
  <2> QED BY <2>1, <2>3
<1>5. queue' = queue \o new
  BY <1>2, <1>k DEF Finds
<1>6. /\ queue \o new \in Seq(1 .. MaxFinalizers) /\ Len(queue \o new) = m + k
      /\ \A i \in 1 .. m + k : (queue \o new)[i] = IF i <= m THEN queue[i] ELSE new[i - m]
  BY <1>1, <1>m, <1>4, ConcatProperties
<1>7. ASSUME NEW i \in 1 .. m + k, i > m PROVE queue'[i] = found + (i - m)
  <2>1. PICK j \in 1 .. k : j = i - m
    BY <1>7
  <2>2. new[j] = found + j
    BY <1>2
  <2>3. (queue \o new)[i] = new[j]
    BY <1>6, <1>7, <2>1
  <2> QED BY <1>5, <2>1, <2>2, <2>3
<1>8. \A i \in 1 .. m : queue'[i] = queue[i]
  BY <1>5, <1>6
<1>9. found' = n /\ n \in 0 .. MaxFinalizers
  BY <1>1 DEF Finds
<1> QED BY <1>m, <1>k, <1>5, <1>6, <1>7, <1>8, <1>9

\* ... the requests,
LEMMA TypesRequests == ASSUME Types, Requests PROVE Types'
<1> USE DEF threadVars, gcVars
<1>c. /\ current \in States /\ turn.role \in RoleSet /\ started \subseteq Coroutines
      /\ calls \in [States -> Seq(CallKinds)] /\ allow \in [States -> Nat]
      /\ status \in [Coroutines -> Statuses] /\ link \in [Coroutines -> Coroutines \cup {None}]
      /\ queue \in Seq(1 .. MaxFinalizers) /\ found \in 0 .. MaxFinalizers
      /\ draining \in BOOLEAN /\ begun \in [1 .. MaxFinalizers -> Nat]
  BY DEF Types
<1>s. Suspended \in Seq(CallKinds) /\ [calls EXCEPT ![current] = Suspended] \in [States -> Seq(CallKinds)]
  BY <1>c, PushOnCalls DEF CallKinds, Suspended
<1>l. Len(Suspended) \in Nat /\ Len(calls[current]) \in Nat /\ allow[current] \in Nat
  BY <1>s, <1>c
<1>b. Boundaries \in Seq(Boundary) /\ Frames \in Seq(Activation) /\ GcFrames \in Seq(Drain)
  BY FramesIs, BoundariesIs, GcFramesIs
<1>r. ActiveRole(Boundaries, GcFrames, current) \in RoleSet
  BY <1>b, ActiveRoleIs
<1>d. /\ "startTarget" \in DriverActions /\ "startProtected" \in DriverActions /\ "startHelper" \in DriverActions
      /\ "startFinalizer" \in DriverActions /\ "failFinalizer" \in DriverActions
      /\ "deliverCollection" \in DriverActions /\ "resumeAutomatic" \in DriverActions
      /\ "deliverUpvalue" \in DriverActions /\ TRUE \in BOOLEAN /\ FALSE \in BOOLEAN
  BY DEF DriverActions
<1>p. ProgramRole \in RoleSet
  BY DEF ProgramRole, Role, RoleSet, RoleKinds
<1>1. ASSUME NEW c \in Coroutines, RequestResume(c) PROVE Types'
  <2>1. CASE InFinalizerNow
    <3>1. Then("failFinalizer", Role("finalizer", GcFrames[ActiveDrain(GcFrames, current)].stop), FALSE)
      BY <1>1, <2>1 DEF RequestResume, FailsFinalizer
    <3>2. /\ calls' \in [States -> Seq(CallKinds)] /\ boundaries' = Boundaries /\ gcFrames' = GcFrames
          /\ UNCHANGED <<allow, started, queue, draining, found, begun>>
          /\ frames' = Frames /\ UNCHANGED <<current, status, link>>
      BY <1>1, <2>1, <1>s DEF RequestResume, Suspends
    <3> QED BY <3>1, <3>2, <1>c, <1>b, <1>d, <2>1, FailingRole, TypesOfEnd
  <2>2. CASE ~InFinalizerNow
    <3>1. PICK f : f = [caller |-> current, target |-> c,
                     prevCaller |-> IF current = Main THEN "none" ELSE status[current],
                     prevTarget |-> status[c], prevLink |-> link[c],
                     saved |-> Suspended, yield |-> allow[current], replay |-> FALSE]
      OBVIOUS
    <3>2. /\ calls' \in [States -> Seq(CallKinds)] /\ boundaries' = Boundaries /\ gcFrames' = GcFrames
          /\ UNCHANGED <<allow, started, queue, draining, found, begun>>
          /\ frames' = Append(Frames, f) /\ current' = c
          /\ link' = [link EXCEPT ![c] = ThreadOf(current)]
          /\ Then("startTarget", ProgramRole, TRUE)
      BY <1>1, <2>2, <1>s, <3>1 DEF RequestResume, Suspends
    <3>3. status' = [t \in Coroutines |-> IF t = c THEN "Running" ELSE IF t = current THEN "Normal" ELSE status[t]]
      BY <1>1, <2>2 DEF RequestResume
    <3>4. status' \in [Coroutines -> Statuses]
      BY <1>c, <3>3 DEF Statuses
    <3>5. ThreadOf(current) \in Coroutines \cup {None}
      BY <1>c DEF ThreadOf, States
    <3>6. link' \in [Coroutines -> Coroutines \cup {None}]
      BY <1>c, <3>2, <3>5
    <3>7. f \in Activation
      <4>1. current # Main => current \in Coroutines
        BY <1>c DEF States
      <4>2. PICK pc : pc = (IF current = Main THEN "none" ELSE status[current])
        OBVIOUS
      <4>3. pc \in Statuses \cup {"none"} /\ (current # Main => pc \in Statuses)
        BY <1>c, <4>1, <4>2
      <4>4. FALSE \in BOOLEAN
        OBVIOUS
      <4>5. f = [caller |-> current, target |-> c, prevCaller |-> pc, prevTarget |-> status[c],
                 prevLink |-> link[c], saved |-> Suspended, yield |-> allow[current], replay |-> FALSE]
        BY <3>1, <4>2
      <4> QED BY <1>c, <1>s, <1>l, <4>3, <4>4, <4>5 DEF Activation
    <3>8. frames' \in Seq(Activation) /\ frames' # <<>>
      BY <1>b, <3>2, <3>7, AppendProperties, EmptySeq
    <3>9. c \in States
      BY DEF States
    <3> QED BY <3>2, <3>4, <3>6, <3>8, <3>9, <1>c, <1>b, <1>d, <1>p, TypesOfEnd
  <2> QED BY <2>1, <2>2
<1>2. CASE RequestProtected
  <2>1. PICK handler \in {"none", "ready"} :
           /\ Suspends
           /\ boundaries' = Append(Boundaries,
                  [kind |-> "protected", owner |-> current, stop |-> Len(Suspended), native |-> TRUE,
                   parent |-> ActiveRole(Boundaries, GcFrames, current),
                   prevYield |-> allow[current], handler |-> handler])
           /\ Then("startProtected", Role("protected", Len(Suspended)), TRUE)
           /\ frames' = Frames /\ gcFrames' = GcFrames
           /\ UNCHANGED <<current, allow, queue, draining, found, begun, status, link, started>>
    BY <1>2 DEF RequestProtected
  <2>2. PICK b : b = [kind |-> "protected", owner |-> current, stop |-> Len(Suspended), native |-> TRUE,
                      parent |-> ActiveRole(Boundaries, GcFrames, current),
                      prevYield |-> allow[current], handler |-> handler]
    OBVIOUS
  <2>3. b \in Boundary
    <3>1. handler \in {"none", "ready", "used"} /\ TRUE \in BOOLEAN
      OBVIOUS
    <3> QED BY <2>2, <3>1, <1>c, <1>l, <1>r DEF Boundary
  <2>4. boundaries' \in Seq(Boundary)
    BY <1>b, <2>1, <2>2, <2>3, AppendProperties
  <2>5. calls' \in [States -> Seq(CallKinds)]
    BY <1>s, <2>1 DEF Suspends
  <2>6. Role("protected", Len(Suspended)) \in RoleSet
    BY <1>l DEF Role, RoleSet, RoleKinds
  <2> QED BY <2>1, <2>4, <2>5, <2>6, <1>c, <1>b, <1>d, TypesOfEnd
<1>3. CASE RequestHelper
  <2>1. PICK native \in BOOLEAN :
           /\ IF native THEN Suspends ELSE UNCHANGED calls
           /\ LET stop == Len(IF native THEN Suspended ELSE calls[current])
              IN  /\ boundaries' = Append(Boundaries,
                         [kind |-> "helper", owner |-> current, stop |-> stop, native |-> native,
                          parent |-> ActiveRole(Boundaries, GcFrames, current),
                          prevYield |-> 0, handler |-> "none"])
                  /\ Then("startHelper", Role("helper", stop), TRUE)
           /\ frames' = Frames /\ gcFrames' = GcFrames
           /\ UNCHANGED <<current, allow, queue, draining, found, begun, status, link, started>>
    BY <1>3 DEF RequestHelper
  <2>2. PICK stop \in Nat : stop = Len(IF native THEN Suspended ELSE calls[current])
    BY <1>l
  <2>3. PICK b : b = [kind |-> "helper", owner |-> current, stop |-> stop, native |-> native,
                      parent |-> ActiveRole(Boundaries, GcFrames, current), prevYield |-> 0, handler |-> "none"]
    OBVIOUS
  <2>4. b \in Boundary
    <3>1. "none" \in {"none", "ready", "used"} /\ 0 \in Nat
      OBVIOUS
    <3> QED BY <2>3, <3>1, <1>c, <1>r DEF Boundary
  <2>5. boundaries' = Append(Boundaries, b) /\ Then("startHelper", Role("helper", stop), TRUE)
    BY <2>1, <2>2, <2>3
  <2>6. boundaries' \in Seq(Boundary)
    BY <1>b, <2>4, <2>5, AppendProperties
  <2>7. calls' \in [States -> Seq(CallKinds)]
    BY <1>c, <1>s, <2>1 DEF Suspends
  <2>8. Role("helper", stop) \in RoleSet
    BY DEF Role, RoleSet, RoleKinds
  <2> QED BY <2>1, <2>5, <2>6, <2>7, <2>8, <1>c, <1>b, <1>d, TypesOfEnd
<1>4. CASE RequestCollect
  <2>1. PICK g : g = [owner |-> current, stop |-> Len(Suspended), draining |-> FALSE, running |-> 0,
                 explicit |-> TRUE, resume |-> ActiveRole(Boundaries, GcFrames, current)]
    OBVIOUS
  <2>2. g \in Drain /\ g.explicit
    <3>1. FALSE \in BOOLEAN /\ TRUE \in BOOLEAN /\ 0 \in Nat
      OBVIOUS
    <3> QED BY <2>1, <3>1, <1>c, <1>l, <1>r DEF Drain
  <2>3. PICK n \in found .. MaxFinalizers, finished \in BOOLEAN :
           /\ Finds(n)
           /\ IF finished /\ g.resume.kind # "finalizer" /\ queue' # <<>> /\ ~draining
              THEN StartsNext(GcFrames, g, queue')
              ELSE Concludes(GcFrames, g, TRUE) /\ UNCHANGED <<draining, begun>>
    BY <1>4, <2>1 DEF RequestCollect
  <2>4. /\ Suspends /\ frames' = Frames /\ boundaries' = Boundaries
        /\ UNCHANGED <<current, allow, status, link, started>>
    BY <1>4 DEF RequestCollect
  <2>5. queue' \in Seq(1 .. MaxFinalizers) /\ found' \in 0 .. MaxFinalizers
    BY <2>3, FindsIs
  <2>6. calls' \in [States -> Seq(CallKinds)]
    BY <1>s, <2>4 DEF Suspends
  <2>7. CASE StartsNext(GcFrames, g, queue') /\ queue' # <<>>
    <3>1. /\ gcFrames' \in Seq(Drain) /\ begun' \in [1 .. MaxFinalizers -> Nat] /\ draining' = TRUE
          /\ Role("finalizer", g.stop) \in RoleSet
          /\ Then("startFinalizer", Role("finalizer", g.stop), TRUE)
      BY <2>2, <2>5, <2>7, <1>b, StartsNextIs
    <3> QED BY <2>4, <2>5, <2>6, <3>1, <1>c, <1>b, <1>d, TypesOfEnd
  <2>8. CASE Concludes(GcFrames, g, TRUE) /\ UNCHANGED <<draining, begun>>
    <3>1. /\ gcFrames' \in Seq(Drain) /\ gcFrames' # <<>> /\ g.resume \in RoleSet
          /\ Then("deliverCollection", g.resume, TRUE)
      BY <2>2, <2>8, <1>b, ConcludesIs
    <3> QED BY <2>4, <2>5, <2>6, <2>8, <3>1, <1>c, <1>b, <1>d, TypesOfEnd
  <2> QED BY <2>3, <2>7, <2>8
<1>5. CASE AutomaticGc
  <2>1. CASE InFinalizerNow
    <3>1. /\ CloseSession("protocol", Frames, Boundaries, status, link, allow)
          /\ UNCHANGED <<calls, started, queue, found, begun>>
      BY <1>5, <2>1 DEF AutomaticGc, ProtocolError
    <3> QED BY <3>1, <1>b, <1>c, TypesOfClose
  <2>2. CASE ~InFinalizerNow
    <3>1. PICK g : g = [owner |-> current, stop |-> Len(calls[current]), draining |-> FALSE,
                         running |-> 0, explicit |-> FALSE, resume |-> turn.role]
      OBVIOUS
    <3>2. g \in Drain /\ ~g.explicit
      <4>1. FALSE \in BOOLEAN /\ 0 \in Nat
        OBVIOUS
      <4> QED BY <3>1, <4>1, <1>c, <1>l DEF Drain
    <3>3. PICK n \in found .. MaxFinalizers, finished \in BOOLEAN :
             /\ Finds(n)
             /\ IF finished /\ queue' # <<>>
                THEN StartsNext(GcFrames, g, queue')
                ELSE Concludes(GcFrames, g, TRUE) /\ UNCHANGED <<draining, begun>>
      BY <1>5, <2>2, <3>1 DEF AutomaticGc
    <3>4. /\ frames' = Frames /\ boundaries' = Boundaries
          /\ UNCHANGED <<current, calls, allow, status, link, started>>
      BY <1>5, <2>2 DEF AutomaticGc
    <3>5. queue' \in Seq(1 .. MaxFinalizers) /\ found' \in 0 .. MaxFinalizers
      BY <3>3, FindsIs
    <3>6. CASE StartsNext(GcFrames, g, queue') /\ queue' # <<>>
      <4>1. /\ gcFrames' \in Seq(Drain) /\ begun' \in [1 .. MaxFinalizers -> Nat] /\ draining' = TRUE
            /\ Role("finalizer", g.stop) \in RoleSet
            /\ Then("startFinalizer", Role("finalizer", g.stop), TRUE)
        BY <3>2, <3>5, <3>6, <1>b, StartsNextIs
      <4> QED BY <3>4, <3>5, <4>1, <1>c, <1>b, <1>d, TypesOfEnd
    <3>7. CASE Concludes(GcFrames, g, TRUE) /\ UNCHANGED <<draining, begun>>
      <4>1. /\ gcFrames' \in Seq(Drain) /\ g.resume \in RoleSet
            /\ Then("resumeAutomatic", g.resume, TRUE)
        BY <3>2, <3>7, <1>b, ConcludesIs
      <4> QED BY <3>4, <3>5, <3>7, <4>1, <1>c, <1>b, <1>d, TypesOfEnd
    <3> QED BY <3>3, <3>6, <3>7
  <2> QED BY <2>1, <2>2
<1>6. CASE UpvalueAccess
  <2>1. /\ boundaries' = Boundaries /\ gcFrames' = GcFrames
        /\ UNCHANGED <<current, calls, allow, queue, draining, found, begun, status, link, started>>
        /\ frames' = IF InFinalizerNow THEN Frames ELSE frames
    BY <1>6 DEF UpvalueAccess
  <2>2. CASE InFinalizerNow
    <3>1. Then("failFinalizer", Role("finalizer", GcFrames[ActiveDrain(GcFrames, current)].stop), FALSE)
      BY <1>6, <2>2 DEF UpvalueAccess, FailsFinalizer
    <3> QED BY <2>1, <2>2, <3>1, <1>c, <1>b, <1>d, FailingRole, TypesOfEnd
  <2>3. CASE ~InFinalizerNow
    <3>1. /\ mode' = "action" /\ owed' = owed /\ frames' = frames
          /\ turn' = Turn("deliverUpvalue", ActiveRole(Boundaries, GcFrames, current), TRUE)
      BY <1>6, <2>1, <2>3 DEF UpvalueAccess
    <3>2. turn' \in [do : DriverActions, role : RoleSet, ok : BOOLEAN] /\ turn'.do = "deliverUpvalue"
      <4>1. PICK role \in RoleSet : role = ActiveRole(Boundaries, GcFrames, current)
        BY <1>r
      <4>2. PICK do \in DriverActions : do = "deliverUpvalue"
        BY <1>d
      <4>3. turn' = Turn(do, role, TRUE)
        BY <3>1, <4>1, <4>2
      <4>4. Turn(do, role, TRUE) \in [do : DriverActions, role : RoleSet, ok : BOOLEAN] /\ Turn(do, role, TRUE).do = do
        BY <1>d, TurnIs, ZenonT(40)
      <4> QED BY <4>2, <4>3, <4>4
    <3> QED BY <2>1, <3>1, <3>2, <1>b DEF Types
  <2> QED BY <2>2, <2>3
<1>7. CASE Fault
  <2>1. /\ Suspends /\ CloseSession("fault", frames, boundaries, status, link, allow)
        /\ UNCHANGED <<started, queue, found, begun>>
    BY <1>7 DEF Fault
  <2>2. calls' \in [States -> Seq(CallKinds)]
    BY <1>s, <2>1 DEF Suspends
  <2>3. frames \in Seq(Activation) /\ boundaries \in Seq(Boundary)
    BY DEF Types
  <2> QED BY <2>1, <2>2, <2>3, <1>c, TypesOfClose
<1> QED BY <1>1, <1>2, <1>3, <1>4, <1>5, <1>6, <1>7 DEF Requests

\* The handler of a pcall is used up: its frame stays where it is.
LEMMA HandlerUsed ==
    ASSUME NEW bs \in Seq(Boundary), NEW i \in 1 .. Len(bs)
    PROVE  LET new == [bs EXCEPT ![i].handler = "used"]
           IN  /\ new \in Seq(Boundary) /\ Len(new) = Len(bs)
               /\ new[i] = [bs[i] EXCEPT !.handler = "used"]
               /\ \A j \in 1 .. Len(bs) : j # i => new[j] = bs[j]
<1>1. PICK b : b = [bs[i] EXCEPT !.handler = "used"]
  OBVIOUS
<1>2. bs[i] \in Boundary
  OBVIOUS
<1>3. b \in Boundary
  <2>1. "used" \in {"none", "ready", "used"}
    OBVIOUS
  <2> QED BY <1>1, <1>2, <2>1 DEF Boundary
<1>4. [bs EXCEPT ![i].handler = "used"] = [bs EXCEPT ![i] = b]
  BY <1>1
<1>5. /\ [bs EXCEPT ![i] = b] \in Seq(Boundary) /\ Len([bs EXCEPT ![i] = b]) = Len(bs)
      /\ \A j \in 1 .. Len(bs) : [bs EXCEPT ![i] = b][j] = IF j = i THEN b ELSE bs[j]
  BY <1>3, ExceptSeq
<1> QED BY <1>1, <1>4, <1>5

\* Acknowledging a finalizer leaves a queue.
LEMMA AcknowledgedIs ==
    ASSUME Types, NEW g \in Drain
    PROVE  Acknowledged(g) \in Seq(1 .. MaxFinalizers)
<1> DEFINE I == {i \in 1 .. Len(queue) : queue[i] = g.running}
<1>1. queue \in Seq(1 .. MaxFinalizers)
  BY DEF Types
<1>2. PICK n \in Nat : n = Len(queue)
  BY <1>1
<1>3. PICK index : index = IF I # {} THEN Min(I) ELSE 0
  OBVIOUS
<1>4. Acknowledged(g) = IF index = 0 THEN queue ELSE RemoveAt(queue, index)
  BY <1>3 DEF Acknowledged, SelectInSeq
<1>5. index = 0 \/ index \in 1 .. n
  <2>1. I \in SUBSET Nat
    BY <1>2
  <2>2. I # {} => Min(I) \in I
    BY <2>1, HasMin
  <2> QED BY <1>2, <1>3, <2>2
<1>6. index # 0 => RemoveAt(queue, index) \in Seq(1 .. MaxFinalizers)
  BY <1>1, <1>2, <1>5, RemoveAtIs
<1> QED BY <1>1, <1>4, <1>6

\* ... and the ends of turns.
LEMMA TypesStops == ASSUME Types, Stops PROVE Types'
<1> USE DEF threadVars, gcVars
<1>c. /\ current \in States /\ turn.role \in RoleSet /\ started \subseteq Coroutines /\ mode \in {"idle", "action", "lua", "returned", "yielded", "raised"}
      /\ calls \in [States -> Seq(CallKinds)] /\ allow \in [States -> Nat]
      /\ status \in [Coroutines -> Statuses] /\ link \in [Coroutines -> Coroutines \cup {None}]
      /\ queue \in Seq(1 .. MaxFinalizers) /\ found \in 0 .. MaxFinalizers
      /\ draining \in BOOLEAN /\ begun \in [1 .. MaxFinalizers -> Nat]
      /\ frames \in Seq(Activation) /\ boundaries \in Seq(Boundary)
  BY DEF Types
<1>b. Boundaries \in Seq(Boundary) /\ Frames \in Seq(Activation) /\ GcFrames \in Seq(Drain)
  BY FramesIs, BoundariesIs, GcFramesIs
<1>d. /\ "startProtected" \in DriverActions /\ "startHelper" \in DriverActions
      /\ "finishProtected" \in DriverActions /\ "finishHelper" \in DriverActions
      /\ "startFinalizer" \in DriverActions /\ "deliver" \in DriverActions
      /\ "deliverCollection" \in DriverActions /\ "resumeAutomatic" \in DriverActions
      /\ TRUE \in BOOLEAN /\ FALSE \in BOOLEAN /\ (mode = "returned") \in BOOLEAN
  BY DEF DriverActions
<1>u. Unwind(turn.role) => calls' \in [States -> Seq(CallKinds)]
  <2>1. turn.role.stop \in Int
    BY <1>c DEF RoleSet
  <2>2. Unwound(current, turn.role.stop) \in [States -> Seq(CallKinds)]
    BY <1>c, <2>1, UnwoundIs
  <2> QED BY <2>2 DEF Unwind
<1>o. \A i \in 1 .. Len(Boundaries) : /\ Boundaries[i] \in Boundary /\ Boundaries[i].parent \in RoleSet
                                     /\ RoleOf(Boundaries[i]) \in RoleSet
  <2>1. \A i \in 1 .. Len(Boundaries) : Boundaries[i] \in Boundary
    BY <1>b
  <2>2. \A b \in Boundary : b.parent \in RoleSet /\ RoleOf(b) \in RoleSet
    BY DEF Boundary, RoleOf, Role, RoleSet, RoleKinds
  <2> QED BY <2>1, <2>2
<1>1. CASE StopCoroutine
  <2>0. current \in Coroutines
    BY <1>1, <1>c DEF StopCoroutine, States
  <2>1. CASE allow[current] = 0
    <3>1. /\ CloseSession("vm", frames, boundaries, status, link, allow)
          /\ UNCHANGED <<calls, started, queue, found, begun>>
      BY <1>1, <2>1 DEF StopCoroutine
    <3> QED BY <3>1, <1>c, TypesOfClose
  <2>2. CASE allow[current] # 0
    <3>1. PICK released : released = [allow EXCEPT ![current] = allow[current] - 1]
      OBVIOUS
    <3>2. PICK stopped : stopped = [status EXCEPT ![current] =
                                      IF mode = "yielded" THEN "Suspended" ELSE "Dead"]
      OBVIOUS
    <3>3. released \in [States -> Nat]
      <4>1. allow[current] - 1 \in Nat
        BY <1>c, <2>2
      <4> QED BY <1>c, <3>1, <4>1
    <3>4. stopped \in [Coroutines -> Statuses]
      BY <1>c, <3>2 DEF Statuses
    <3>5. CASE Frames = <<>> \/ (Frames # <<>> /\ Last(Frames).target # current)
      <4>1. /\ CloseSession("protocol", Frames, Boundaries, stopped, link, released)
            /\ UNCHANGED <<calls, started, queue, found, begun>>
        BY <1>1, <2>2, <3>1, <3>2, <3>5 DEF StopCoroutine, ProtocolError
      <4> QED BY <4>1, <3>3, <3>4, <1>b, <1>c, TypesOfClose
    <3>6. CASE ~(Frames = <<>> \/ (Frames # <<>> /\ Last(Frames).target # current))
      <4>1. PICK f : f = Last(Frames)
        OBVIOUS
      <4>2. f \in Activation /\ Front(Frames) \in Seq(Activation)
        BY <4>1, <1>b, <3>6, FrontIs
      <4>3. PICK dead \in BOOLEAN : dead = (f.caller # Main /\ stopped[f.caller] = "Dead")
        OBVIOUS
      <4>4. /\ allow' = released
            /\ link' = [link EXCEPT ![current] = f.prevLink]
            /\ status' = Restored(f, stopped)
            /\ frames' = Append(Front(Frames), [f EXCEPT !.replay = dead])
            /\ boundaries' = Boundaries /\ gcFrames' = GcFrames
            /\ current' = f.caller
            /\ Then("deliver", ActiveRole(Boundaries, GcFrames, f.caller), TRUE)
            /\ UNCHANGED <<calls, started, queue, draining, found, begun, outcome>>
        BY <1>1, <2>2, <3>1, <3>2, <3>6, <4>1, <4>3 DEF StopCoroutine
      <4>5. [f EXCEPT !.replay = dead] \in Activation
        BY <4>2 DEF Activation
      <4>6. frames' \in Seq(Activation) /\ frames' # <<>>
        BY <4>2, <4>4, <4>5, AppendProperties, EmptySeq
      <4>7. f.caller \in States /\ f.prevLink \in Coroutines \cup {None}
        BY <4>2 DEF Activation
      <4>8. link' \in [Coroutines -> Coroutines \cup {None}]
        BY <1>c, <4>4, <4>7
      <4>9. status' \in [Coroutines -> Statuses]
        <5>1. CASE f.caller = Main
          BY <3>4, <4>4, <5>1 DEF Restored
        <5>2. CASE f.caller # Main
          <6>1. f.caller \in Coroutines /\ f.prevCaller \in Statuses
            BY <4>2, <4>7, <5>2 DEF Activation, States
          <6>2. PICK new : new = IF stopped[f.caller] = "Dead" THEN "Running" ELSE f.prevCaller
            OBVIOUS
          <6>3. new \in Statuses
            BY <6>1, <6>2 DEF Statuses
          <6>4. status' = [stopped EXCEPT ![f.caller] = new]
            BY <4>4, <5>2, <6>2 DEF Restored
          <6> QED BY <3>4, <6>3, <6>4
        <5> QED BY <5>1, <5>2
      <4>10. ActiveRole(Boundaries, GcFrames, f.caller) \in RoleSet
        BY <1>b, ActiveRoleIs
      <4> QED BY <4>4, <4>6, <4>7, <4>8, <4>9, <4>10, <3>3, <1>b, <1>c, <1>d, TypesOfEnd
    <3> QED BY <3>5, <3>6
  <2> QED BY <2>1, <2>2
<1>2. CASE StopMain
  <2>1. \E result : CloseSession(result, Frames, Boundaries, status, link, allow)
    BY <1>2 DEF StopMain, ProtocolError
  <2>2. UNCHANGED <<calls, started, queue, found, begun>>
    BY <1>2 DEF StopMain, ProtocolError
  <2> QED BY <2>1, <2>2, <1>b, <1>c, TypesOfClose
<1>3. CASE StopProtected
  <2>1. PICK i : i = IndexOfKind("protected", Boundaries)
    OBVIOUS
  <2>u. calls' \in [States -> Seq(CallKinds)]
    BY <1>3, <1>u DEF StopProtected
  <2>2. CASE i = 0 \/ (i # 0 /\ Boundaries[i].owner # current)
    <3>1. /\ CloseSession("protocol", Frames, Boundaries, status, link, allow)
          /\ UNCHANGED <<started, queue, found, begun>>
      BY <1>3, <2>1, <2>2 DEF StopProtected
    <3> QED BY <2>u, <3>1, <1>b, <1>c, TypesOfClose
  <2>3. CASE ~(i = 0 \/ (i # 0 /\ Boundaries[i].owner # current))
    <3>1. /\ IF mode # "returned" /\ Boundaries[i].handler = "ready"
             THEN /\ boundaries' = [Boundaries EXCEPT ![i].handler = "used"]
                  /\ Then("startProtected", RoleOf(Boundaries[i]), TRUE)
             ELSE /\ boundaries' = Boundaries
                  /\ Then("finishProtected", Boundaries[i].parent, mode = "returned")
          /\ frames' = Frames /\ gcFrames' = GcFrames
          /\ UNCHANGED <<current, allow, queue, draining, found, begun, status, link, started>>
      BY <1>3, <2>1, <2>3 DEF StopProtected
    <3>2. i \in 1 .. Len(Boundaries)
      BY <1>b, <2>1, <2>3, IndexOfKindIs
    <3>3. CASE mode # "returned" /\ Boundaries[i].handler = "ready"
      <4>1. boundaries' \in Seq(Boundary) /\ Then("startProtected", RoleOf(Boundaries[i]), TRUE)
        BY <1>b, <3>1, <3>2, <3>3, HandlerUsed
      <4> QED BY <2>u, <3>1, <3>2, <4>1, <1>o, <1>b, <1>c, <1>d, TypesOfEnd
    <3>4. CASE ~(mode # "returned" /\ Boundaries[i].handler = "ready")
      <4>1. boundaries' = Boundaries /\ Then("finishProtected", Boundaries[i].parent, mode = "returned")
        BY <3>1, <3>4
      <4>2. IndexOfKind("protected", boundaries') # 0
        BY <2>1, <2>3, <4>1
      <4> QED BY <2>u, <3>1, <3>2, <4>1, <4>2, <1>o, <1>b, <1>c, <1>d, TypesOfEnd
    <3> QED BY <3>3, <3>4
  <2> QED BY <2>2, <2>3
<1>4. CASE StopHelper
  <2>1. PICK i : i = IndexOfKind("helper", Boundaries)
    OBVIOUS
  <2>u. calls' \in [States -> Seq(CallKinds)]
    BY <1>4, <1>u DEF StopHelper
  <2>2. CASE i = 0 \/ (i # 0 /\ Boundaries[i].owner # current)
    <3>1. /\ CloseSession("protocol", Frames, Boundaries, status, link, allow)
          /\ UNCHANGED <<started, queue, found, begun>>
      BY <1>4, <2>1, <2>2 DEF StopHelper
    <3> QED BY <2>u, <3>1, <1>b, <1>c, TypesOfClose
  <2>3. CASE ~(i = 0 \/ (i # 0 /\ Boundaries[i].owner # current))
    <3>1. /\ \/ Then("startHelper", RoleOf(Boundaries[i]), TRUE)
             \/ \E good \in BOOLEAN : Then("finishHelper", Boundaries[i].parent, good)
          /\ boundaries' = Boundaries /\ frames' = Frames /\ gcFrames' = GcFrames
          /\ UNCHANGED <<current, allow, queue, draining, found, begun, status, link, started>>
      BY <1>4, <2>1, <2>3 DEF StopHelper
    <3>2. i \in 1 .. Len(Boundaries) /\ IndexOfKind("helper", boundaries') # 0
      BY <1>b, <2>1, <2>3, <3>1, IndexOfKindIs
    <3>3. CASE Then("startHelper", RoleOf(Boundaries[i]), TRUE)
      BY <2>u, <3>1, <3>2, <3>3, <1>o, <1>b, <1>c, <1>d, TypesOfEnd
    <3>4. ASSUME NEW good \in BOOLEAN, Then("finishHelper", Boundaries[i].parent, good) PROVE Types'
      BY <2>u, <3>1, <3>2, <3>4, <1>o, <1>b, <1>c, <1>d, TypesOfEnd, ZenonT(40)
    <3> QED BY <3>1, <3>3, <3>4
  <2> QED BY <2>2, <2>3
<1>5. CASE StopFinalizer
  <2>1. CASE GcFrames = <<>> \/ (GcFrames # <<>> /\ ~(/\ Last(GcFrames).draining
                                                   /\ Last(GcFrames).owner = current
                                                   /\ Last(GcFrames).running # 0))
    <3>1. /\ CloseSession("protocol", Frames, Boundaries, status, link, allow)
          /\ UNCHANGED <<calls, started, queue, found, begun>>
      BY <1>5, <2>1 DEF StopFinalizer, ProtocolError
    <3> QED BY <3>1, <1>b, <1>c, TypesOfClose
  <2>2. CASE ~(GcFrames = <<>> \/ (GcFrames # <<>> /\ ~(/\ Last(GcFrames).draining
                                                   /\ Last(GcFrames).owner = current
                                                   /\ Last(GcFrames).running # 0)))
    <3>1. PICK g : g = Last(GcFrames)
      OBVIOUS
    <3>2. g \in Drain /\ Front(GcFrames) \in Seq(Drain)
      BY <1>b, <2>2, <3>1, FrontIs
    <3>3. PICK waiting : waiting = Acknowledged(g)
      OBVIOUS
    <3>4. waiting \in Seq(1 .. MaxFinalizers)
      BY <3>2, <3>3, AcknowledgedIs
    <3>5. /\ queue' = waiting
          /\ IF mode # "returned" /\ ~g.explicit
             THEN /\ CloseSession("vm", Frames, Boundaries, status, link, allow)
                  /\ UNCHANGED <<calls, started, found, begun>>
             ELSE /\ IF mode = "returned" /\ waiting # <<>>
                     THEN StartsNext(Front(GcFrames), g, waiting)
                     ELSE /\ Concludes(Front(GcFrames), g, mode = "returned")
                          /\ draining' = FALSE /\ begun' = begun
                  /\ frames' = Frames /\ boundaries' = Boundaries
                  /\ UNCHANGED <<current, calls, allow, found, outcome>>
                  /\ UNCHANGED threadVars
      BY <1>5, <2>2, <3>1, <3>3 DEF StopFinalizer
    <3>6. CASE mode # "returned" /\ ~g.explicit
      BY <3>4, <3>5, <3>6, <1>b, <1>c, TypesOfClose
    <3>7. CASE ~(mode # "returned" /\ ~g.explicit) /\ mode = "returned" /\ waiting # <<>>
      <4>1. StartsNext(Front(GcFrames), g, waiting)
        BY <3>5, <3>7
      <4>2. /\ gcFrames' \in Seq(Drain) /\ begun' \in [1 .. MaxFinalizers -> Nat] /\ draining' = TRUE
            /\ Role("finalizer", g.stop) \in RoleSet
            /\ Then("startFinalizer", Role("finalizer", g.stop), TRUE)
        BY <3>2, <3>4, <3>7, <4>1, StartsNextIs
      <4> QED BY <3>4, <3>5, <3>7, <4>2, <1>b, <1>c, <1>d, TypesOfEnd
    <3>8. CASE ~(mode # "returned" /\ ~g.explicit) /\ ~(mode = "returned" /\ waiting # <<>>)
      <4>1. Concludes(Front(GcFrames), g, mode = "returned") /\ draining' = FALSE /\ begun' = begun
        BY <3>5, <3>8
      <4>2. /\ gcFrames' \in Seq(Drain) /\ (g.explicit => gcFrames' # <<>>) /\ g.resume \in RoleSet
            /\ Then(IF g.explicit THEN "deliverCollection" ELSE "resumeAutomatic", g.resume, mode = "returned")
        BY <3>2, <4>1, ConcludesIs
      <4>3. CASE g.explicit
        BY <3>4, <3>5, <3>8, <4>1, <4>2, <4>3, <1>b, <1>c, <1>d, TypesOfEnd
      <4>4. CASE ~g.explicit
        BY <3>4, <3>5, <3>8, <4>1, <4>2, <4>4, <1>b, <1>c, <1>d, TypesOfEnd, ZenonT(40)
      <4> QED BY <4>3, <4>4
    <3> QED BY <3>6, <3>7, <3>8
  <2> QED BY <2>1, <2>2
<1> QED BY <1>1, <1>2, <1>3, <1>4, <1>5 DEF Stops

\* Every step keeps the types.
LEMMA TypesNext == ASSUME Types, [Next]_vars PROVE Types'
<1>1. CASE BeginSession
  <2>1. mode' = "lua" /\ calls' = [calls EXCEPT ![Main] = <<"lua">>] /\ turn' = Turn("startProto", ProgramRole, TRUE)
    BY <1>1 DEF BeginSession
  <2>2. UNCHANGED <<owed, current, allow, frames, boundaries>> /\ UNCHANGED threadVars /\ UNCHANGED gcVars
    BY <1>1 DEF BeginSession
  <2>3. turn' \in [do : DriverActions, role : RoleSet, ok : BOOLEAN] /\ turn'.do = "startProto"
    <3>1. "startProto" \in DriverActions /\ TRUE \in BOOLEAN
      BY DEF DriverActions
    <3>2. ProgramRole \in RoleSet
      BY DEF ProgramRole, Role, RoleSet, RoleKinds
    <3>3. PICK do \in DriverActions : do = "startProto"
      BY <3>1
    <3>4. Turn(do, ProgramRole, TRUE) \in [do : DriverActions, role : RoleSet, ok : BOOLEAN] /\ Turn(do, ProgramRole, TRUE).do = do
      BY <3>1, <3>2, TurnIs
    <3> QED BY <2>1, <3>3, <3>4
  <2>4. calls' \in [States -> Seq(CallKinds)]
    <3>1. <<"lua">> \in Seq(CallKinds)
      BY DEF CallKinds
    <3> QED BY <2>1, <3>1 DEF Types
  <2> QED BY <2>1, <2>2, <2>3, <2>4 DEF Types, threadVars, gcVars
<1>2. CASE UNCHANGED vars
  BY <1>2 DEF vars, Types
<1> QED BY <1>1, <1>2, TypesRuns, TypesRequests, TypesDrives, TypesStops DEF Next

\* The initial state has them.
LEMMA TypesInit == ASSUME Init PROVE Types
<1>1. NoTurn \in [do : DriverActions, role : RoleSet, ok : BOOLEAN] /\ NoTurn.do = "none"
  <2>1. "none" \in DriverActions /\ TRUE \in BOOLEAN
    BY DEF DriverActions
  <2>2. ProgramRole \in RoleSet
    BY DEF ProgramRole, Role, RoleSet, RoleKinds
  <2>3. PICK do \in DriverActions : do = "none"
    BY <2>1
  <2>4. Turn(do, ProgramRole, TRUE) \in [do : DriverActions, role : RoleSet, ok : BOOLEAN] /\ Turn(do, ProgramRole, TRUE).do = do
    BY <2>1, <2>2, TurnIs
  <2> QED BY <2>3, <2>4 DEF NoTurn
<1>2. calls \in [States -> Seq(CallKinds)]
  <2>1. <<"lua">> \in Seq(CallKinds) /\ <<"base">> \in Seq(CallKinds)
    BY DEF CallKinds
  <2> QED BY <2>1 DEF Init
<1>3. /\ <<>> \in Seq(Activation) /\ <<>> \in Seq(Boundary) /\ <<>> \in Seq(Drain)
      /\ <<>> \in Seq(1 .. MaxFinalizers) /\ 0 \in 0 .. MaxFinalizers
  BY EmptySeq, BoundsAssumption
<1>4. /\ allow \in [States -> Nat] /\ status \in [Coroutines -> Statuses]
      /\ link \in [Coroutines -> Coroutines \cup {None}] /\ begun \in [1 .. MaxFinalizers -> Nat]
  BY DEF Init, Statuses
<1> QED BY <1>1, <1>2, <1>3, <1>4 DEF Init, Types, States

\* Every variable has its type in every reachable state.
THEOREM SchedulerTypes == Spec => []Types
<1>1. Init => Types
  BY TypesInit
<1>2. Types /\ [Next]_vars => Types'
  BY TypesNext
<1> QED BY <1>1, <1>2, PTL DEF Spec

-----------------------------------------------------------------------------
(* The chain of resumes.                                                   *)

\* What a thread is between sessions, and the coroutines that are being resumed.
Ended == {"Suspended", "Dead"}
Targets(fs) == {fs[i].target : i \in 1 .. Len(fs)}

\* Each frame was pushed by the target of the frame below it, which ran; the first
\* frame of a coroutine saved what the coroutine was outside the session.
Linked(fs) ==
    \A i \in 1 .. Len(fs) :
        /\ fs[i].caller = IF i = 1 THEN Main ELSE fs[i - 1].target
        /\ fs[i].caller # fs[i].target
        /\ fs[i].caller # Main => fs[i].prevCaller = "Running"
        /\ (\A j \in 1 .. i - 1 : fs[j].target # fs[i].target) =>
               fs[i].prevTarget \in Ended /\ fs[i].prevLink = None

\* A coroutine that no frame resumed neither runs nor waits.
Unlinked(fs, st, lk) ==
    \A c \in Coroutines : c \notin Targets(fs) => st[c] \in Ended /\ lk[c] = None

\* The frames form a chain that leads from the main state to the running one.
ChainInv ==
    /\ mode = "idle" => frames = <<>>
    /\ Linked(frames)
    /\ current = IF Frames = <<>> THEN Main ELSE Last(Frames).target
    /\ current # Main => status[current] = "Running"
    /\ Unlinked(Frames, status, link)

\* The kinds of steps, for the chain of resumes ...
ChainStays == UNCHANGED <<owed, current, frames, status, link>> /\ mode' # "idle"
\* The turn has delivered its frame,
ChainDelivered ==
    /\ frames' = Frames /\ ~owed' /\ mode' # "idle"
    /\ UNCHANGED <<current, status, link>>
\* a coroutine is resumed,
ChainGrows ==
    /\ mode' # "idle" /\ ~owed'
    /\ \E c \in Coroutines, f \in Activation :
          /\ status[c] \in {"Suspended", "Normal"} /\ (status[c] = "Normal" => "reenter" \in Program)
          /\ f.caller = current /\ f.target = c /\ f.prevTarget = status[c] /\ f.prevLink = link[c]
          /\ current # Main => f.prevCaller = status[current]
          /\ frames' = Append(Frames, f) /\ current' = c
          /\ status' = [t \in Coroutines |-> IF t = c THEN "Running"
                                            ELSE IF t = current THEN "Normal" ELSE status[t]]
          /\ link' = [link EXCEPT ![c] = ThreadOf(current)]
\* ... f is the frame that is answered, as it stays for its delivery.
ChainShrinks ==
    /\ mode' # "idle" /\ owed'
    /\ current # Main /\ Frames # <<>> /\ Last(Frames).target = current
    /\ \E f \in Activation, ended \in Ended :
          /\ f.caller = Last(Frames).caller /\ f.target = current
          /\ f.prevCaller = Last(Frames).prevCaller /\ f.prevTarget = Last(Frames).prevTarget
          /\ f.prevLink = Last(Frames).prevLink
          /\ frames' = Append(Front(Frames), f) /\ current' = f.caller
          /\ link' = [link EXCEPT ![current] = f.prevLink]
          /\ status' = Restored(f, [status EXCEPT ![current] = ended])
\* The session ends, and its resumes are undone.
Undone(fs) ==
    /\ status' = [c \in Coroutines |->
                     LET i == FirstSaver(fs, c)
                     IN  IF i = 0 THEN status[c]
                         ELSE IF fs[i].caller = c THEN fs[i].prevCaller ELSE fs[i].prevTarget]
    /\ link' = [c \in Coroutines |->
                   LET i == FirstTarget(fs, c) IN IF i = 0 THEN link[c] ELSE fs[i].prevLink]
    /\ mode' = "idle" /\ ~owed' /\ current' = Main /\ frames' = <<>>
ChainCloses == Undone(frames) \/ Undone(Frames)

\* A sequence after an element is appended has it last, and loses it again.
LEMMA AppendedIs ==
    ASSUME NEW S, NEW s \in Seq(S), NEW e \in S
    PROVE  /\ Append(s, e) \in Seq(S) /\ Append(s, e) # <<>> /\ Len(Append(s, e)) = Len(s) + 1
           /\ \A i \in 1 .. Len(s) : Append(s, e)[i] = s[i]
           /\ Append(s, e)[Len(s) + 1] = e
           /\ Last(Append(s, e)) = e /\ Front(Append(s, e)) = s
<1>1. PICK t : t = Append(s, e)
  OBVIOUS
<1>2. PICK n \in Nat : n = Len(s)
  OBVIOUS
<1>3. /\ t \in Seq(S) /\ t # <<>> /\ Len(t) = n + 1
      /\ \A i \in 1 .. n : t[i] = s[i]
      /\ t[n + 1] = e
  BY <1>1, <1>2, AppendProperties
<1>4. Last(t) = e
  BY <1>3 DEF Last
<1>5. PICK u : u = Front(t)
  OBVIOUS
<1>6. u \in Seq(S) /\ Len(u) = n /\ \A i \in 1 .. n : u[i] = t[i]
  <2>1. u \in Seq(S) /\ Len(u) = (n + 1) - 1 /\ \A i \in 1 .. (n + 1) - 1 : u[i] = t[i]
    BY <1>3, <1>5, FrontIs
  <2> QED BY <2>1
<1>7. u = s
  <2>1. Len(u) = Len(s) /\ \A i \in 1 .. Len(u) : u[i] = s[i]
    BY <1>2, <1>3, <1>6
  <2> QED BY <1>6, <2>1, SeqEqual
<1> QED BY <1>1, <1>2, <1>3, <1>4, <1>5, <1>7

\* A prefix of a chain is a chain.
LEMMA LinkedPrefix ==
    ASSUME NEW fs \in Seq(Activation), NEW gs \in Seq(Activation), Linked(fs), Len(gs) <= Len(fs),
           \A i \in 1 .. Len(gs) : gs[i] = fs[i]
    PROVE  Linked(gs)
<1>1. PICK n \in Nat, m \in Nat : n = Len(fs) /\ m = Len(gs) /\ m <= n
  OBVIOUS
<1>2. ASSUME NEW i \in 1 .. m
      PROVE  /\ gs[i].caller = IF i = 1 THEN Main ELSE gs[i - 1].target
             /\ gs[i].caller # gs[i].target
             /\ gs[i].caller # Main => gs[i].prevCaller = "Running"
             /\ (\A j \in 1 .. i - 1 : gs[j].target # gs[i].target) =>
                    gs[i].prevTarget \in Ended /\ gs[i].prevLink = None
  <2>1. i \in 1 .. n /\ gs[i] = fs[i]
    BY <1>1
  <2>2. \A j \in 1 .. i - 1 : gs[j] = fs[j]
    BY <1>1
  <2>3. i # 1 => gs[i - 1] = fs[i - 1]
    BY <2>2
  <2>4. /\ fs[i].caller = IF i = 1 THEN Main ELSE fs[i - 1].target
        /\ fs[i].caller # fs[i].target
        /\ fs[i].caller # Main => fs[i].prevCaller = "Running"
        /\ (\A j \in 1 .. i - 1 : fs[j].target # fs[i].target) =>
               fs[i].prevTarget \in Ended /\ fs[i].prevLink = None
    BY <1>1, <2>1 DEF Linked
  <2>5. (\A j \in 1 .. i - 1 : gs[j].target # gs[i].target) =>
            (\A j \in 1 .. i - 1 : fs[j].target # fs[i].target)
    BY <2>1, <2>2
  <2> QED BY <2>1, <2>3, <2>4, <2>5
<1> QED BY <1>1, <1>2 DEF Linked

\* The targets of a prefix are targets.
LEMMA TargetsOfPrefix ==
    ASSUME NEW fs \in Seq(Activation), NEW gs \in Seq(Activation), Len(gs) <= Len(fs),
           \A i \in 1 .. Len(gs) : gs[i] = fs[i]
    PROVE  Targets(gs) \subseteq Targets(fs)
<1>1. PICK n \in Nat, m \in Nat : n = Len(fs) /\ m = Len(gs) /\ m <= n
  OBVIOUS
<1> QED BY <1>1 DEF Targets

\* When a session closes, every coroutine is what it was before the session.
LEMMA ChainClosed ==
    ASSUME Types, ChainInv, ChainCloses, Types'
    PROVE  ChainInv'
<1>1. PICK fs \in {frames, Frames} : Undone(fs)
  BY DEF ChainCloses
<1>2. fs \in Seq(Activation) /\ Frames \in Seq(Activation) /\ Linked(fs) /\ Targets(Frames) \subseteq Targets(fs)
  <2>1. /\ frames \in Seq(Activation) /\ Frames \in Seq(Activation) /\ Len(Frames) <= Len(frames)
        /\ \A i \in 1 .. Len(Frames) : Frames[i] = frames[i]
    BY FramesIs DEF Types
  <2>2. Linked(frames) /\ Linked(Frames) /\ Targets(Frames) \subseteq Targets(frames)
    BY <2>1, LinkedPrefix, TargetsOfPrefix DEF ChainInv
  <2> QED BY <2>1, <2>2
<1>3. /\ mode' = "idle" /\ ~owed' /\ current' = Main /\ frames' = <<>>
  BY <1>1 DEF Undone
<1>4. ASSUME NEW c \in Coroutines PROVE status'[c] \in Ended /\ link'[c] = None
  <2>1. c # Main
    BY StatesAssumption
  <2>2. status'[c] \in Ended
    <3>1. PICK i : i = FirstSaver(fs, c)
      OBVIOUS
    <3>2. status'[c] = IF i = 0 THEN status[c]
                       ELSE IF fs[i].caller = c THEN fs[i].prevCaller ELSE fs[i].prevTarget
      BY <1>1, <3>1 DEF Undone
    <3>3. CASE i = 0
      <4>1. \A j \in 1 .. Len(fs) : fs[j].target # c
        BY <1>2, <3>1, <3>3, FirstSaverIs
      <4>2. c \notin Targets(Frames)
        BY <1>2, <4>1 DEF Targets
      <4> QED BY <3>2, <3>3, <4>2 DEF ChainInv, Unlinked
    <3>4. CASE i # 0
      <4>1. PICK n \in Nat : n = Len(fs)
        BY <1>2
      <4>2. /\ i \in 1 .. n /\ c \in {fs[i].caller, fs[i].target}
            /\ \A j \in 1 .. n : j < i => fs[j].target # c
        BY <1>2, <3>1, <3>4, <4>1, FirstSaverIs
      <4>3. /\ fs[i].caller = IF i = 1 THEN Main ELSE fs[i - 1].target
            /\ (\A j \in 1 .. i - 1 : fs[j].target # fs[i].target) => fs[i].prevTarget \in Ended
        BY <1>2, <4>1, <4>2 DEF Linked
      <4>4. fs[i].caller # c
        <5>1. i # 1 => i - 1 \in 1 .. n /\ i - 1 < i
          BY <4>2
        <5> QED BY <2>1, <4>2, <4>3, <5>1
      <4>5. fs[i].target = c /\ \A j \in 1 .. i - 1 : fs[j].target # c
        BY <4>2, <4>4
      <4> QED BY <3>2, <3>4, <4>3, <4>4, <4>5
    <3> QED BY <3>3, <3>4
  <2>3. link'[c] = None
    <3>1. PICK i : i = FirstTarget(fs, c)
      OBVIOUS
    <3>2. link'[c] = IF i = 0 THEN link[c] ELSE fs[i].prevLink
      BY <1>1, <3>1 DEF Undone
    <3>3. CASE i = 0
      <4>1. \A j \in 1 .. Len(fs) : fs[j].target # c
        BY <1>2, <3>1, <3>3, FirstTargetIs
      <4>2. c \notin Targets(Frames)
        BY <1>2, <4>1 DEF Targets
      <4> QED BY <3>2, <3>3, <4>2 DEF ChainInv, Unlinked
    <3>4. CASE i # 0
      <4>1. PICK n \in Nat : n = Len(fs)
        BY <1>2
      <4>2. i \in 1 .. n /\ c = fs[i].target /\ \A j \in 1 .. n : j < i => c # fs[j].target
        BY <1>2, <3>1, <3>4, <4>1, FirstTargetIs
      <4>3. (\A j \in 1 .. i - 1 : fs[j].target # fs[i].target) => fs[i].prevLink = None
        BY <1>2, <4>1, <4>2 DEF Linked
      <4>4. \A j \in 1 .. i - 1 : fs[j].target # fs[i].target
        BY <4>2
      <4> QED BY <3>2, <3>4, <4>3, <4>4
    <3> QED BY <3>3, <3>4
  <2> QED BY <2>2, <2>3
<1>5. Frames' = <<>>
  BY <1>3 DEF Frames
<1>6. Linked(<<>>)
  <2>1. 1 .. Len(<<>>) = {}
    BY EmptySeq
  <2> QED BY <2>1 DEF Linked
<1> QED BY <1>3, <1>4, <1>5, <1>6 DEF ChainInv, Unlinked

\* What a resume does to the chain.
LEMMA ChainGrown ==
    ASSUME Types, ChainInv, ChainGrows, Types'
    PROVE  ChainInv'
<1>1. PICK c \in Coroutines, f \in Activation :
          /\ status[c] \in {"Suspended", "Normal"} /\ (status[c] = "Normal" => "reenter" \in Program)
          /\ f.caller = current /\ f.target = c /\ f.prevTarget = status[c] /\ f.prevLink = link[c]
          /\ current # Main => f.prevCaller = status[current]
          /\ frames' = Append(Frames, f) /\ current' = c
          /\ status' = [t \in Coroutines |-> IF t = c THEN "Running"
                                            ELSE IF t = current THEN "Normal" ELSE status[t]]
          /\ link' = [link EXCEPT ![c] = ThreadOf(current)]
  BY DEF ChainGrows
<1>2. /\ frames \in Seq(Activation) /\ Frames \in Seq(Activation) /\ Len(Frames) <= Len(frames)
      /\ \A i \in 1 .. Len(Frames) : Frames[i] = frames[i]
  BY FramesIs DEF Types
<1>n. PICK n \in Nat : n = Len(Frames)
  BY <1>2
<1>3. Linked(Frames)
  BY <1>2, LinkedPrefix DEF ChainInv
<1>4. PICK gs \in Seq(Activation) : gs = frames'
  BY DEF Types
<1>5. /\ Len(gs) = n + 1 /\ gs # <<>> /\ Last(gs) = f /\ gs[n + 1] = f
      /\ \A i \in 1 .. n : gs[i] = Frames[i]
  BY <1>1, <1>2, <1>4, <1>n, AppendedIs
<1>6. Frames' = gs
  BY <1>4 DEF ChainGrows, Frames
<1>7. /\ f.caller = IF n + 1 = 1 THEN Main ELSE gs[n].target
      /\ f.caller # f.target
      /\ f.caller # Main => f.prevCaller = "Running"
  <2>1. current = IF n = 0 THEN Main ELSE Frames[n].target
    <3>1. n = 0 <=> Frames = <<>>
      BY <1>2, <1>n, EmptySeq
    <3>2. n # 0 => Last(Frames) = Frames[n]
      BY <1>n DEF Last
    <3> QED BY <3>1, <3>2 DEF ChainInv
  <2>2. n # 0 => gs[n] = Frames[n]
    BY <1>5
  <2>3. current # c
    <3>1. c # Main
      BY StatesAssumption
    <3> QED BY <1>1, <3>1 DEF ChainInv
  <2> QED BY <1>1, <2>1, <2>2, <2>3 DEF ChainInv
<1>8. (\A j \in 1 .. n : gs[j].target # f.target) => f.prevTarget \in Ended /\ f.prevLink = None
  <2> SUFFICES ASSUME \A j \in 1 .. n : gs[j].target # f.target
               PROVE  f.prevTarget \in Ended /\ f.prevLink = None
    OBVIOUS
  <2>1. c \notin Targets(Frames)
    BY <1>1, <1>5, <1>n DEF Targets
  <2> QED BY <1>1, <2>1 DEF ChainInv, Unlinked
<1>9. Linked(gs)
  <2>1. ASSUME NEW i \in 1 .. n
        PROVE  /\ gs[i].caller = IF i = 1 THEN Main ELSE gs[i - 1].target
               /\ gs[i].caller # gs[i].target
               /\ gs[i].caller # Main => gs[i].prevCaller = "Running"
               /\ (\A j \in 1 .. i - 1 : gs[j].target # gs[i].target) =>
                      gs[i].prevTarget \in Ended /\ gs[i].prevLink = None
    <3>1. gs[i] = Frames[i] /\ (i # 1 => gs[i - 1] = Frames[i - 1])
      BY <1>5
    <3>2. /\ Frames[i].caller = IF i = 1 THEN Main ELSE Frames[i - 1].target
          /\ Frames[i].caller # Frames[i].target
          /\ Frames[i].caller # Main => Frames[i].prevCaller = "Running"
          /\ (\A j \in 1 .. i - 1 : Frames[j].target # Frames[i].target) =>
                 Frames[i].prevTarget \in Ended /\ Frames[i].prevLink = None
      BY <1>3, <1>n DEF Linked
    <3>3. (\A j \in 1 .. i - 1 : gs[j].target # gs[i].target) =>
              (\A j \in 1 .. i - 1 : Frames[j].target # Frames[i].target)
      <4>1. \A j \in 1 .. i - 1 : gs[j] = Frames[j]
        BY <1>5
      <4> QED BY <3>1, <4>1
    <3> QED BY <3>1, <3>2, <3>3
  <2>2. \A i \in 1 .. n + 1 : i \in 1 .. n \/ i = n + 1
    OBVIOUS
  <2>3. (n + 1) - 1 = n
    OBVIOUS
  <2>4. /\ gs[n + 1].caller = IF n + 1 = 1 THEN Main ELSE gs[(n + 1) - 1].target
        /\ gs[n + 1].caller # gs[n + 1].target
        /\ gs[n + 1].caller # Main => gs[n + 1].prevCaller = "Running"
        /\ (\A j \in 1 .. (n + 1) - 1 : gs[j].target # gs[n + 1].target) =>
               gs[n + 1].prevTarget \in Ended /\ gs[n + 1].prevLink = None
    BY <1>5, <1>7, <1>8, <2>3
  <2> QED BY <1>5, <2>1, <2>2, <2>4 DEF Linked
<1>10. Unlinked(gs, status', link')
  <2> SUFFICES ASSUME NEW t \in Coroutines, t \notin Targets(gs)
               PROVE  status'[t] \in Ended /\ link'[t] = None
    BY DEF Unlinked
  <2>1. n + 1 \in 1 .. Len(gs)
    BY <1>5
  <2>2. t # c
    BY <1>1, <1>5, <2>1 DEF Targets
  <2>3. t \notin Targets(Frames)
    BY <1>5, <1>n DEF Targets
  <2>4. t # current
    <3>1. t # Main
      BY StatesAssumption
    <3>2. Frames # <<>> => Last(Frames).target \in Targets(Frames)
      <4>1. Frames # <<>> => n \in 1 .. n
        BY <1>2, <1>n, EmptySeq
      <4> QED BY <4>1, <1>n DEF Targets, Last
    <3> QED BY <2>3, <3>1, <3>2 DEF ChainInv
  <2>5. status'[t] = status[t] /\ link'[t] = link[t]
    <3>1. link \in [Coroutines -> Coroutines \cup {None}]
      BY DEF Types
    <3> QED BY <1>1, <2>2, <2>4, <3>1
  <2> QED BY <2>3, <2>5 DEF ChainInv, Unlinked
<1>11. current' # Main => status'[current'] = "Running"
  BY <1>1
<1>12. current' = Last(gs).target /\ gs # <<>>
  BY <1>1, <1>5
<1> QED BY <1>4, <1>6, <1>9, <1>10, <1>11, <1>12 DEF ChainInv, ChainGrows

\* What the end of a coroutine's turn does to the chain.
LEMMA ChainShrunk ==
    ASSUME Types, ChainInv, ChainShrinks, Types'
    PROVE  ChainInv'
<1>1. PICK f \in Activation, ended \in Ended :
          /\ f.caller = Last(Frames).caller /\ f.target = current
          /\ f.prevCaller = Last(Frames).prevCaller /\ f.prevTarget = Last(Frames).prevTarget
          /\ f.prevLink = Last(Frames).prevLink
          /\ frames' = Append(Front(Frames), f) /\ current' = f.caller
          /\ link' = [link EXCEPT ![current] = f.prevLink]
          /\ status' = Restored(f, [status EXCEPT ![current] = ended])
  BY DEF ChainShrinks
<1>2. /\ frames \in Seq(Activation) /\ Frames \in Seq(Activation) /\ Len(Frames) <= Len(frames)
      /\ \A i \in 1 .. Len(Frames) : Frames[i] = frames[i]
  BY FramesIs DEF Types
<1>3. Linked(Frames) /\ Frames # <<>> /\ Last(Frames).target = current /\ current # Main
  BY <1>2, LinkedPrefix DEF ChainInv, ChainShrinks
<1>n. PICK n \in Nat : n + 1 = Len(Frames)
  <2>1. PICK m \in Nat \ {0} : m = Len(Frames)
    BY <1>2, <1>3, EmptySeq
  <2>2. \E n \in Nat : n + 1 = m
    <3>1. m - 1 \in Nat /\ (m - 1) + 1 = m
      OBVIOUS
    <3> QED BY <3>1
  <2> QED BY <2>1, <2>2
<1>4. PICK gs \in Seq(Activation) : gs = frames'
  BY DEF Types
<1>5. PICK fr \in Seq(Activation) : fr = Front(Frames)
  BY <1>2, FrontIs
<1>6. Len(fr) = n /\ (\A i \in 1 .. n : fr[i] = Frames[i]) /\ Last(Frames) = Frames[n + 1]
  <2>1. /\ Len(fr) = (n + 1) - 1
        /\ \A i \in 1 .. (n + 1) - 1 : fr[i] = Frames[i]
        /\ Last(Frames) = Frames[n + 1]
    BY <1>2, <1>3, <1>5, <1>n, FrontIs
  <2> QED BY <2>1
<1>7. Len(gs) = n + 1 /\ gs # <<>> /\ gs[n + 1] = f /\ (\A i \in 1 .. n : gs[i] = fr[i]) /\ Front(gs) = fr
  BY <1>1, <1>4, <1>5, <1>6, AppendedIs
<1>8. Frames' = fr
  BY <1>4, <1>7 DEF ChainShrinks, Frames
<1>9. \A i \in 1 .. n + 1 :
          /\ gs[i].caller = Frames[i].caller /\ gs[i].target = Frames[i].target
          /\ gs[i].prevCaller = Frames[i].prevCaller /\ gs[i].prevTarget = Frames[i].prevTarget
          /\ gs[i].prevLink = Frames[i].prevLink
  <2>1. \A i \in 1 .. n : gs[i] = Frames[i]
    BY <1>6, <1>7
  <2>2. \A i \in 1 .. n + 1 : i \in 1 .. n \/ i = n + 1
    OBVIOUS
  <2> QED BY <1>1, <1>3, <1>6, <1>7, <2>1, <2>2
<1>10. Linked(gs)
  <2>1. ASSUME NEW i \in 1 .. n + 1
        PROVE  /\ gs[i].caller = IF i = 1 THEN Main ELSE gs[i - 1].target
               /\ gs[i].caller # gs[i].target
               /\ gs[i].caller # Main => gs[i].prevCaller = "Running"
               /\ (\A j \in 1 .. i - 1 : gs[j].target # gs[i].target) =>
                      gs[i].prevTarget \in Ended /\ gs[i].prevLink = None
    <3>1. i # 1 => i - 1 \in 1 .. n + 1
      OBVIOUS
    <3>2. /\ Frames[i].caller = IF i = 1 THEN Main ELSE Frames[i - 1].target
          /\ Frames[i].caller # Frames[i].target
          /\ Frames[i].caller # Main => Frames[i].prevCaller = "Running"
          /\ (\A j \in 1 .. i - 1 : Frames[j].target # Frames[i].target) =>
                 Frames[i].prevTarget \in Ended /\ Frames[i].prevLink = None
      BY <1>3, <1>n DEF Linked
    <3>3. (\A j \in 1 .. i - 1 : gs[j].target # gs[i].target) =>
              (\A j \in 1 .. i - 1 : Frames[j].target # Frames[i].target)
      <4>1. \A j \in 1 .. i - 1 : j \in 1 .. n + 1
        OBVIOUS
      <4> QED BY <1>9, <4>1
    <3> QED BY <1>9, <3>1, <3>2, <3>3
  <2> QED BY <1>7, <2>1 DEF Linked
<1>11. /\ f.caller = IF n = 0 THEN Main ELSE fr[n].target
       /\ f.caller # current
       /\ f.caller # Main => f.prevCaller = "Running"
       /\ (\A j \in 1 .. n : fr[j].target # current) => f.prevLink = None
  <2>1. /\ gs[n + 1].caller = IF n + 1 = 1 THEN Main ELSE gs[(n + 1) - 1].target
        /\ gs[n + 1].caller # gs[n + 1].target
        /\ gs[n + 1].caller # Main => gs[n + 1].prevCaller = "Running"
        /\ (\A j \in 1 .. (n + 1) - 1 : gs[j].target # gs[n + 1].target) => gs[n + 1].prevLink = None
    BY <1>7, <1>10 DEF Linked
  <2>2. (n + 1) - 1 = n /\ (n # 0 => n \in 1 .. n)
    OBVIOUS
  <2>3. n # 0 => gs[n] = fr[n]
    BY <1>7, <2>2
  <2>4. \A j \in 1 .. n : gs[j].target = fr[j].target
    BY <1>7
  <2> QED BY <1>1, <1>7, <2>1, <2>2, <2>3, <2>4
<1>12. /\ fr = <<>> => n = 0
       /\ fr # <<>> => n # 0 /\ Last(fr) = fr[n]
  <2>1. fr = <<>> <=> n = 0
    BY <1>5, <1>6, EmptySeq
  <2> QED BY <2>1, <1>6 DEF Last
<1>13. current' = IF fr = <<>> THEN Main ELSE Last(fr).target
  BY <1>1, <1>11, <1>12
<1>c. current \in Coroutines /\ f.caller \in States /\ f.prevCaller \in Statuses \cup {"none"}
  BY <1>3 DEF Types, States, Activation
<1>14. current' # Main => status'[current'] = "Running"
  <2> SUFFICES ASSUME f.caller # Main PROVE status'[f.caller] = "Running"
    BY <1>1
  <2>1. f.caller \in Coroutines
    BY <1>c DEF States
  <2>2. PICK st \in [Coroutines -> Statuses] : st = [status EXCEPT ![current] = ended]
    <3>1. ended \in Statuses /\ status \in [Coroutines -> Statuses]
      BY DEF Ended, Statuses, Types
    <3> QED BY <3>1
  <2>3. status' = [st EXCEPT ![f.caller] = IF st[f.caller] = "Dead" THEN "Running" ELSE f.prevCaller]
    BY <1>1, <2>2 DEF Restored
  <2> QED BY <1>11, <2>1, <2>2, <2>3
<1>15. Unlinked(fr, status', link')
  <2> SUFFICES ASSUME NEW t \in Coroutines, t \notin Targets(fr)
               PROVE  status'[t] \in Ended /\ link'[t] = None
    BY DEF Unlinked
  <2>1. t # f.caller
    <3>1. t # Main
      BY StatesAssumption
    <3>2. n # 0 => fr[n].target \in Targets(fr)
      BY <1>6 DEF Targets
    <3> QED BY <1>11, <3>1, <3>2
  <2>2. PICK st \in [Coroutines -> Statuses] : st = [status EXCEPT ![current] = ended]
    <3>1. ended \in Statuses /\ status \in [Coroutines -> Statuses]
      BY DEF Ended, Statuses, Types
    <3> QED BY <3>1
  <2>3. status'[t] = st[t]
    BY <1>1, <2>1, <2>2 DEF Restored
  <2>4. link \in [Coroutines -> Coroutines \cup {None}] /\ status \in [Coroutines -> Statuses]
    BY DEF Types
  <2>5. CASE t = current
    <3>1. \A j \in 1 .. n : fr[j].target # current
      BY <1>6, <2>5 DEF Targets
    <3>2. link'[t] = None
      BY <1>1, <1>11, <2>4, <2>5, <3>1
    <3>3. st[t] = ended
      BY <2>2, <2>4, <2>5
    <3> QED BY <2>3, <3>2, <3>3
  <2>6. CASE t # current
    <3>1. link'[t] = link[t] /\ st[t] = status[t]
      BY <1>1, <2>2, <2>4, <2>6
    <3>2. t \notin Targets(Frames)
      <4>1. ASSUME NEW i \in 1 .. n + 1 PROVE Frames[i].target # t
        <5>1. CASE i = n + 1
          BY <1>3, <1>6, <2>6, <5>1
        <5>2. CASE i # n + 1
          <6>1. i \in 1 .. n
            BY <5>2
          <6> QED BY <1>6, <6>1 DEF Targets
        <5> QED BY <5>1, <5>2
      <4> QED BY <1>n, <4>1 DEF Targets
    <3> QED BY <2>3, <3>1, <3>2 DEF ChainInv, Unlinked
  <2> QED BY <2>5, <2>6
<1> QED BY <1>4, <1>8, <1>10, <1>13, <1>14, <1>15 DEF ChainInv, ChainShrinks

\* A driver action leaves the session open.
LEMMA DrivesStaysIn == ASSUME Types, Drives PROVE mode' # "idle"
<1> USE DEF Performs
<1>c. \A s, depth, role : Completes(s, depth, role) => mode' # "idle"
  <2>1. \A cs, role : Settles(cs, role) # "idle"
    BY DEF Settles
  <2> QED BY <2>1 DEF Completes
<1>s. \A cs, role : Settles(cs, role) # "idle"
  BY DEF Settles
<1>t. \A depth : StartsTarget(depth) => mode' # "idle"
  BY DEF StartsTarget
<1>f. \A s, depth : Fails(s, depth) => mode' # "idle"
  BY DEF Fails
<1>1. CASE StartTarget
  BY <1>1, <1>c, <1>s DEF StartTarget
<1>2. CASE Deliver
  BY <1>2, <1>c, <1>s DEF Deliver
<1>3. CASE StartProtected \/ StartCallback
  BY <1>3, <1>t DEF StartProtected, StartCallback
<1>4. CASE FinishProtected
  BY <1>4, <1>c DEF FinishProtected
<1>5. CASE FinishHelper
  BY <1>5, <1>c, <1>f, <1>s DEF FinishHelper
<1>6. CASE DeliverCollection
  BY <1>6, <1>c, <1>f DEF DeliverCollection
<1>7. CASE ResumeInstruction \/ FailFinalizer
  BY <1>7, <1>s DEF ResumeInstruction, FailFinalizer
<1> QED BY <1>1, <1>2, <1>3, <1>4, <1>5, <1>6, <1>7 DEF Drives

\* Each step leaves the chain alone, or is one of the four kinds.
LEMMA ChainSteps ==
    ASSUME Types, ChainInv, Next
    PROVE  ChainStays \/ ChainDelivered \/ ChainGrows \/ ChainShrinks \/ ChainCloses
<1> USE DEF threadVars, gcVars
<1>t. ASSUME NEW do, NEW role, NEW ok, Then(do, role, ok), do # "deliver"
      PROVE  mode' # "idle" /\ ~owed'
  <2>1. owed' = (do = "deliver")
    BY <1>t DEF Then
  <2>2. ~owed'
    BY <1>t, <2>1, Zenon
  <2> QED BY <1>t, <2>2 DEF Then
<1>u. ASSUME NEW result, NEW fs, NEW bs, NEW al, CloseSession(result, fs, bs, status, link, al)
      PROVE  Undone(fs)
  BY <1>u DEF CloseSession, Undone
<1>1. CASE BeginSession
  BY <1>1 DEF BeginSession, ChainStays
<1>2. CASE Runs
  <2>1. UNCHANGED <<owed, current, frames, status, link>>
    BY <1>2 DEF Runs, LuaCall, LuaReturn, LuaThrow, Yield
  <2>2. mode' # "idle"
    <3>1. CASE LuaReturn
      <4>1. PICK cs : mode' = "returned" \/ mode' = Settles(cs, turn.role)
        BY <3>1 DEF LuaReturn
      <4> QED BY <4>1, SettlesIs
    <3>2. CASE LuaCall
      BY <3>2 DEF LuaCall, May
    <3>3. CASE LuaThrow \/ Yield
      BY <3>3 DEF LuaThrow, Yield
    <3> QED BY <1>2, <3>1, <3>2, <3>3 DEF Runs
  <2> QED BY <2>1, <2>2 DEF ChainStays
<1>3. CASE Drives
  <2>1. UNCHANGED <<owed, current, frames, status, link>>
    <3> USE DEF Performs
    <3>1. CASE StartTarget
      BY <3>1 DEF StartTarget
    <3>2. CASE Deliver \/ StartProtected \/ StartCallback
      BY <3>2 DEF Deliver, StartProtected, StartCallback
    <3>3. CASE FinishProtected \/ FinishHelper \/ DeliverCollection
      BY <3>3 DEF FinishProtected, FinishHelper, DeliverCollection
    <3>4. CASE ResumeInstruction \/ FailFinalizer
      BY <3>4 DEF ResumeInstruction, FailFinalizer
    <3> QED BY <1>3, <3>1, <3>2, <3>3, <3>4 DEF Drives
  <2>2. mode' # "idle"
    BY <1>3, DrivesStaysIn
  <2> QED BY <2>1, <2>2 DEF ChainStays
<1>4. ASSUME NEW c \in Coroutines, RequestResume(c) PROVE ChainDelivered \/ ChainGrows
  <2>1. CASE InFinalizerNow
    BY <1>4, <2>1 DEF RequestResume, FailsFinalizer, Then, ChainDelivered
  <2>2. CASE ~InFinalizerNow
    <3>1. PICK f : f = [caller |-> current, target |-> c,
                     prevCaller |-> IF current = Main THEN "none" ELSE status[current],
                     prevTarget |-> status[c], prevLink |-> link[c],
                     saved |-> Suspended, yield |-> allow[current], replay |-> FALSE]
      OBVIOUS
    <3>2. /\ frames' = Append(Frames, f) /\ current' = c
          /\ link' = [link EXCEPT ![c] = ThreadOf(current)]
          /\ Then("startTarget", ProgramRole, TRUE)
          /\ status[c] \in {"Suspended", "Normal"} /\ (status[c] = "Normal" => "reenter" \in Program)
          /\ status' = [t \in Coroutines |-> IF t = c THEN "Running"
                                            ELSE IF t = current THEN "Normal" ELSE status[t]]
      BY <1>4, <2>2, <3>1 DEF RequestResume, May
    <3>3. f \in Activation
      <4>0. /\ current \in States /\ status \in [Coroutines -> Statuses] /\ allow \in [States -> Nat]
            /\ link \in [Coroutines -> Coroutines \cup {None}]
        BY DEF Types
      <4>1. current # Main => current \in Coroutines
        BY <4>0 DEF States
      <4>2. PICK pc : pc = (IF current = Main THEN "none" ELSE status[current])
        OBVIOUS
      <4>3. pc \in Statuses \cup {"none"} /\ (current # Main => pc \in Statuses)
        BY <4>0, <4>1, <4>2
      <4>4. FALSE \in BOOLEAN
        OBVIOUS
      <4>5. f = [caller |-> current, target |-> c, prevCaller |-> pc, prevTarget |-> status[c],
                 prevLink |-> link[c], saved |-> Suspended, yield |-> allow[current], replay |-> FALSE]
        BY <3>1, <4>2
      <4>6. Suspended \in Seq(CallKinds)
        BY <4>0, PushOnCalls DEF CallKinds, Suspended
      <4> QED BY <4>0, <4>3, <4>4, <4>5, <4>6 DEF Activation
    <3>4. /\ f.caller = current /\ f.target = c /\ f.prevTarget = status[c] /\ f.prevLink = link[c]
          /\ current # Main => f.prevCaller = status[current]
      BY <3>1
    <3>5. mode' # "idle" /\ ~owed'
      BY <3>2, <1>t
    <3> QED BY <3>2, <3>3, <3>4, <3>5 DEF ChainGrows
  <2> QED BY <2>1, <2>2
<1>5. CASE RequestProtected \/ RequestHelper
  <2>1. frames' = Frames /\ UNCHANGED <<current, status, link>>
    BY <1>5 DEF RequestProtected, RequestHelper
  <2>2. mode' # "idle" /\ ~owed'
    <3>1. CASE RequestProtected
      BY <3>1, <1>t DEF RequestProtected
    <3>2. CASE RequestHelper
      BY <3>2, <1>t DEF RequestHelper
    <3> QED BY <1>5, <3>1, <3>2
  <2> QED BY <2>1, <2>2 DEF ChainDelivered
<1>g. \A gs, g, waiting : StartsNext(gs, g, waiting) => mode' # "idle" /\ ~owed'
  BY DEF StartsNext, Then
<1>h. \A gs, g, ok : Concludes(gs, g, ok) => mode' # "idle" /\ ~owed'
  <2>1. \A g : (IF g.explicit THEN "deliverCollection" ELSE "resumeAutomatic") # "deliver"
    OBVIOUS
  <2> QED BY <2>1, <1>t DEF Concludes
<1>6. CASE RequestCollect
  <2>1. frames' = Frames /\ UNCHANGED <<current, status, link>>
    BY <1>6 DEF RequestCollect
  <2>2. \E gs, g, waiting, ok : StartsNext(gs, g, waiting) \/ Concludes(gs, g, ok)
    BY <1>6 DEF RequestCollect
  <2> QED BY <2>1, <2>2, <1>g, <1>h DEF ChainDelivered
<1>7. CASE AutomaticGc
  <2>1. CASE InFinalizerNow
    BY <1>7, <2>1, <1>u DEF AutomaticGc, ProtocolError, ChainCloses
  <2>2. CASE ~InFinalizerNow
    <3>1. frames' = Frames /\ UNCHANGED <<current, status, link>>
      BY <1>7, <2>2 DEF AutomaticGc
    <3>2. \E gs, g, waiting, ok : StartsNext(gs, g, waiting) \/ Concludes(gs, g, ok)
      BY <1>7, <2>2 DEF AutomaticGc
    <3> QED BY <3>1, <3>2, <1>g, <1>h DEF ChainDelivered
  <2> QED BY <2>1, <2>2
<1>8. CASE UpvalueAccess
  <2>1. CASE InFinalizerNow
    BY <1>8, <2>1 DEF UpvalueAccess, FailsFinalizer, Then, ChainDelivered
  <2>2. CASE ~InFinalizerNow
    BY <1>8, <2>2 DEF UpvalueAccess, ChainStays
  <2> QED BY <2>1, <2>2
<1>9. CASE Fault
  BY <1>9, <1>u DEF Fault, ChainCloses
<1>10. CASE StopCoroutine
  <2>1. CASE allow[current] = 0
    BY <1>10, <2>1, <1>u DEF StopCoroutine, ChainCloses
  <2>2. CASE allow[current] # 0
    <3>1. current # Main
      BY <1>10 DEF StopCoroutine
    <3>2. Frames # <<>> /\ Last(Frames).target = current
      BY <3>1 DEF ChainInv
    <3>f. PICK f : f = Last(Frames)
      OBVIOUS
    <3>3. PICK ended \in Ended, dead \in BOOLEAN :
             /\ link' = [link EXCEPT ![current] = f.prevLink]
             /\ status' = Restored(f, [status EXCEPT ![current] = ended])
             /\ frames' = Append(Front(Frames), [f EXCEPT !.replay = dead])
             /\ current' = f.caller
             /\ mode' = "action" /\ owed'
      <4>1. PICK ended \in Ended : ended = IF mode = "yielded" THEN "Suspended" ELSE "Dead"
        BY DEF Ended
      <4>3. PICK st : st = [status EXCEPT ![current] = ended]
        OBVIOUS
      <4>4. PICK dead : dead = (f.caller # Main /\ st[f.caller] = "Dead")
        OBVIOUS
      <4>5. dead \in BOOLEAN
        BY <4>4
      <4>6. /\ link' = [link EXCEPT ![current] = f.prevLink]
            /\ status' = Restored(f, st)
            /\ frames' = Append(Front(Frames), [f EXCEPT !.replay = dead])
            /\ current' = f.caller
            /\ Then("deliver", ActiveRole(Boundaries, GcFrames, f.caller), TRUE)
        BY <1>10, <2>2, <3>2, <4>1, <3>f, <4>3, <4>4 DEF StopCoroutine
      <4>7. mode' = "action" /\ owed'
        BY <4>6 DEF Then
      <4> QED BY <3>f, <4>3, <4>5, <4>6, <4>7
    <3>4. PICK h : h = [f EXCEPT !.replay = dead]
      OBVIOUS
    <3>5. f \in Activation
      <4>1. Frames \in Seq(Activation)
        BY FramesIs
      <4> QED BY <3>2, <3>f, <4>1, FrontIs
    <3>6. h \in Activation /\ h.caller = f.caller /\ h.target = f.target /\ h.prevCaller = f.prevCaller
          /\ h.prevTarget = f.prevTarget /\ h.prevLink = f.prevLink
      BY <3>4, <3>5 DEF Activation
    <3>7. Restored(h, [status EXCEPT ![current] = ended]) = Restored(f, [status EXCEPT ![current] = ended])
      BY <3>6 DEF Restored
    <3>8. mode' # "idle"
      BY <3>3
    <3> QED BY <3>1, <3>2, <3>f, <3>3, <3>4, <3>6, <3>7, <3>8 DEF ChainShrinks
  <2> QED BY <2>1, <2>2
<1>11. CASE StopMain
  <2>1. Undone(Frames)
    BY <1>11, <1>u DEF StopMain, ProtocolError
  <2> QED BY <2>1 DEF ChainCloses
<1>12. CASE StopProtected
  <2>1. \/ Undone(Frames)
        \/ frames' = Frames /\ UNCHANGED <<current, status, link>> /\ mode' # "idle" /\ ~owed'
    BY <1>12, <1>t, <1>u DEF StopProtected
  <2> QED BY <2>1 DEF ChainCloses, ChainDelivered
<1>13. CASE StopHelper
  <2>1. \/ Undone(Frames)
        \/ frames' = Frames /\ UNCHANGED <<current, status, link>> /\ mode' # "idle" /\ ~owed'
    BY <1>13, <1>t, <1>u DEF StopHelper
  <2> QED BY <2>1 DEF ChainCloses, ChainDelivered
<1>14. CASE StopFinalizer
  <2>1. \/ Undone(Frames)
        \/ frames' = Frames /\ UNCHANGED <<current, status, link>> /\ mode' # "idle" /\ ~owed'
    BY <1>14, <1>g, <1>h, <1>u DEF StopFinalizer, ProtocolError
  <2> QED BY <2>1 DEF ChainCloses, ChainDelivered
<1> QED BY <1>1, <1>2, <1>3, <1>4, <1>5, <1>6, <1>7, <1>8, <1>9, <1>10, <1>11, <1>12, <1>13, <1>14
        DEF Next, Requests, Stops

\* The chain is kept by every step.
LEMMA ChainNext == ASSUME Types, ChainInv, [Next]_vars PROVE ChainInv'
<1>t. Types'
  BY TypesNext
<1>1. CASE UNCHANGED vars
  BY <1>1 DEF vars, ChainInv, Frames
<1>2. CASE ChainStays
  BY <1>2 DEF ChainStays, ChainInv, Frames
<1>3. CASE ChainDelivered
  <2>1. /\ frames \in Seq(Activation) /\ Frames \in Seq(Activation) /\ Len(Frames) <= Len(frames)
        /\ \A i \in 1 .. Len(Frames) : Frames[i] = frames[i]
    BY FramesIs DEF Types
  <2>2. Linked(Frames)
    BY <2>1, LinkedPrefix DEF ChainInv
  <2>3. Frames' = Frames /\ frames' = Frames
    BY <1>3 DEF ChainDelivered, Frames
  <2> HIDE DEF Frames
  <2> QED BY <1>3, <2>2, <2>3 DEF ChainDelivered, ChainInv
<1> QED BY <1>t, <1>1, <1>2, <1>3, ChainGrown, ChainShrunk, ChainClosed, ChainSteps

\* Between sessions no coroutine runs, and none waits for another, whatever the
\* program does, its re-entries and its errors included: each resume of the last
\* session was answered, or undone by the session guard.
THEOREM NothingRunsBetweenSessions == Spec => []NothingIsLeftRunning
<1>1. Init => Types /\ ChainInv
  <2> SUFFICES ASSUME Init PROVE Types /\ ChainInv
    OBVIOUS
  <2>1. 1 .. Len(<<>>) = {}
    BY EmptySeq
  <2>2. Linked(<<>>)
    BY <2>1 DEF Linked
  <2>3. frames = <<>> /\ Frames = <<>> /\ current = Main
    BY DEF Init, Frames
  <2>4. Unlinked(<<>>, status, link)
    BY DEF Unlinked, Init, Ended
  <2> QED BY <2>2, <2>3, <2>4, TypesInit DEF ChainInv
<1>2. Types /\ ChainInv /\ [Next]_vars => (Types /\ ChainInv)'
  BY TypesNext, ChainNext
<1>3. Types /\ ChainInv => NothingIsLeftRunning
  <2> SUFFICES ASSUME Types, ChainInv, mode = "idle", NEW c \in Coroutines
               PROVE  status[c] \in {"Suspended", "Dead"} /\ link[c] = None
    BY DEF NothingIsLeftRunning
  <2>1. frames = <<>> /\ ~owed
    BY DEF ChainInv, Types
  <2>2. 1 .. Len(<<>>) = {}
    BY EmptySeq
  <2>3. c \notin Targets(Frames)
    BY <2>1, <2>2 DEF Frames, Targets
  <2> QED BY <2>3 DEF ChainInv, Unlinked, Ended
<1> QED BY <1>1, <1>2, <1>3, PTL DEF Spec

-----------------------------------------------------------------------------
(* The drain of the finalizers.                                            *)

\* At most one of the frames gs drains, d tells whether there is one, and the
\* finalizer it runs waits in the queue q.
Drained(d, gs, q) ==
    /\ d <=> \E i \in 1 .. Len(gs) : gs[i].draining
    /\ \A i \in 1 .. Len(gs) : gs[i].draining => gs[i].running \in Range(q)
    /\ \A i, j \in 1 .. Len(gs) : gs[i].draining /\ gs[j].draining => i = j

\* A collection that is answered does not drain any more.
DrainInv ==
    /\ Drained(draining, gcFrames, queue)
    /\ turn.do = "deliverCollection" => ~Last(gcFrames).draining

\* What the turn delivers is no drain.
LEMMA DrainedNow == ASSUME Types, DrainInv PROVE Drained(draining, GcFrames, queue)
<1>1. /\ GcFrames \in Seq(Drain) /\ gcFrames \in Seq(Drain)
      /\ turn.do # "deliverCollection" => GcFrames = gcFrames
      /\ turn.do = "deliverCollection" => Len(GcFrames) = Len(gcFrames) - 1 /\ gcFrames # <<>>
      /\ \A i \in 1 .. Len(GcFrames) : GcFrames[i] = gcFrames[i]
  BY GcFramesIs DEF Types
<1>2. CASE turn.do # "deliverCollection"
  BY <1>1, <1>2 DEF DrainInv
<1>3. CASE turn.do = "deliverCollection"
  <2>1. PICK n \in Nat : n = Len(GcFrames)
    BY <1>1
  <2>2. Len(gcFrames) = n + 1
    <3>1. PICK m \in Nat : m = Len(gcFrames)
      BY <1>1
    <3> QED BY <1>1, <1>3, <2>1, <3>1
  <2>3. ~gcFrames[n + 1].draining
    BY <1>3, <2>2 DEF DrainInv, Last
  <2>4. /\ draining <=> \E i \in 1 .. n + 1 : gcFrames[i].draining
        /\ \A i \in 1 .. n + 1 : gcFrames[i].draining => gcFrames[i].running \in Range(queue)
        /\ \A i, j \in 1 .. n + 1 : gcFrames[i].draining /\ gcFrames[j].draining => i = j
    BY <2>2 DEF DrainInv, Drained
  <2>5. \A i \in 1 .. n + 1 : i \in 1 .. n \/ i = n + 1
    OBVIOUS
  <2>6. \A i \in 1 .. n : i \in 1 .. n + 1 /\ GcFrames[i] = gcFrames[i]
    BY <1>1, <2>1
  <2>7. draining <=> \E i \in 1 .. n : GcFrames[i].draining
    BY <2>3, <2>4, <2>5, <2>6
  <2>8. /\ \A i \in 1 .. n : GcFrames[i].draining => GcFrames[i].running \in Range(queue)
        /\ \A i, j \in 1 .. n : GcFrames[i].draining /\ GcFrames[j].draining => i = j
    BY <2>4, <2>6
  <2> QED BY <2>1, <2>7, <2>8 DEF Drained
<1> QED BY <1>2, <1>3

\* A drain starts where none runs.
LEMMA DrainStarts ==
    ASSUME NEW gs \in Seq(Drain), NEW h \in Drain, NEW d, NEW q,
           \A i \in 1 .. Len(gs) : ~gs[i].draining,
           d, h.draining, h.running \in Range(q)
    PROVE  Drained(d, Append(gs, h), q)
<1>1. PICK t : t = Append(gs, h)
  OBVIOUS
<1>2. PICK n \in Nat : n = Len(gs)
  OBVIOUS
<1>3. Len(t) = n + 1 /\ t[n + 1] = h /\ \A i \in 1 .. n : t[i] = gs[i]
  BY <1>1, <1>2, AppendedIs
<1>4. \A i \in 1 .. n + 1 : i = n + 1 \/ (i \in 1 .. n /\ ~t[i].draining)
  BY <1>2, <1>3
<1>5. n + 1 \in 1 .. n + 1
  OBVIOUS
<1>6. Drained(d, t, q)
  BY <1>3, <1>4, <1>5 DEF Drained
<1> QED BY <1>1, <1>6

\* A frame that does not drain changes nothing, nor does a longer queue.
LEMMA DrainStays ==
    ASSUME NEW gs \in Seq(Drain), NEW h \in Drain, NEW d, NEW p, NEW q,
           Drained(d, gs, p), ~h.draining, Range(p) \subseteq Range(q)
    PROVE  Drained(d, Append(gs, h), q) /\ Drained(d, gs, q)
<1>1. PICK t : t = Append(gs, h)
  OBVIOUS
<1>2. PICK n \in Nat : n = Len(gs)
  OBVIOUS
<1>3. Len(t) = n + 1 /\ t[n + 1] = h /\ \A i \in 1 .. n : t[i] = gs[i]
  BY <1>1, <1>2, AppendedIs
<1>4. \A i \in 1 .. n + 1 : i = n + 1 \/ i \in 1 .. n
  OBVIOUS
<1>5. \A i \in 1 .. n : i \in 1 .. n + 1
  OBVIOUS
<1>6. /\ d <=> \E i \in 1 .. n : gs[i].draining
      /\ \A i \in 1 .. n : gs[i].draining => gs[i].running \in Range(q)
      /\ \A i, j \in 1 .. n : gs[i].draining /\ gs[j].draining => i = j
  BY <1>2 DEF Drained
<1>7. d <=> \E i \in 1 .. n + 1 : t[i].draining
  BY <1>3, <1>4, <1>5, <1>6
<1>8. /\ \A i \in 1 .. n + 1 : t[i].draining => t[i].running \in Range(q)
      /\ \A i, j \in 1 .. n + 1 : t[i].draining /\ t[j].draining => i = j
  BY <1>3, <1>4, <1>6
<1>9. Drained(d, t, q)
  BY <1>3, <1>7, <1>8 DEF Drained
<1> QED BY <1>1, <1>2, <1>6, <1>9 DEF Drained

\* Elements of a sequence are in its range.
LEMMA HeadInRange ==
    ASSUME NEW S, NEW q \in Seq(S), q # <<>>
    PROVE  Head(q) \in Range(q)
<1>1. PICK n \in Nat \ {0} : n = Len(q)
  BY EmptySeq
<1>2. 1 \in DOMAIN q /\ Head(q) = q[1]
  BY <1>1
<1> QED BY <1>2 DEF Range

\* A collection starts a drain, or leaves the one that runs alone.
LEMMA DrainCollected ==
    ASSUME Types, DrainInv, NEW g \in Drain, ~g.draining, NEW n \in found .. MaxFinalizers, Finds(n),
           NEW ok,
           \/ StartsNext(GcFrames, g, queue') /\ queue' # <<>> /\ ~draining
           \/ Concludes(GcFrames, g, ok) /\ draining' = draining
    PROVE  DrainInv'
<1>1. /\ queue \in Seq(1 .. MaxFinalizers) /\ queue' \in Seq(1 .. MaxFinalizers)
      /\ Len(queue) <= Len(queue') /\ \A i \in 1 .. Len(queue) : queue'[i] = queue[i]
  <2>1. n - found \in Nat /\ queue \in Seq(1 .. MaxFinalizers)
    BY DEF Types
  <2>2. PICK m \in Nat : m = Len(queue)
    BY <2>1
  <2>3. PICK k \in Nat : k = n - found
    BY <2>1
  <2>4. Len(queue') = m + k
    BY <2>2, <2>3, FindsIs
  <2> QED BY <2>1, <2>2, <2>4, FindsIs
<1>2. Range(queue) \subseteq Range(queue')
  <2>1. \A i \in DOMAIN queue : i \in DOMAIN queue' /\ queue'[i] = queue[i]
    BY <1>1
  <2> QED BY <2>1 DEF Range
<1>3. Drained(draining, GcFrames, queue) /\ GcFrames \in Seq(Drain)
  BY DrainedNow, GcFramesIs
<1>t. ASSUME NEW do, NEW role, NEW k, Then(do, role, k) PROVE turn'.do = do
  BY <1>t DEF Then, Turn
<1>4. CASE StartsNext(GcFrames, g, queue') /\ queue' # <<>> /\ ~draining
  <2>1. Head(queue') \in 1 .. MaxFinalizers /\ Head(queue') \in Range(queue')
    BY <1>1, <1>4, HeadInRange, HeadTailProperties
  <2>2. PICK h : h = [g EXCEPT !.draining = TRUE, !.running = Head(queue')]
    OBVIOUS
  <2>3. h \in Drain /\ h.draining /\ h.running = Head(queue')
    <3>1. Head(queue') \in Nat
      BY <2>1, BoundsAssumption
    <3> QED BY <2>2, <3>1 DEF Drain
  <2>4. gcFrames' = Append(GcFrames, h) /\ draining' /\ turn'.do = "startFinalizer"
    BY <1>4, <2>2, <1>t DEF StartsNext
  <2>5. \A i \in 1 .. Len(GcFrames) : ~GcFrames[i].draining
    BY <1>3, <1>4 DEF Drained
  <2>6. Drained(draining', Append(GcFrames, h), queue')
    BY <1>3, <2>1, <2>3, <2>4, <2>5, DrainStarts
  <2> QED BY <2>4, <2>6 DEF DrainInv
<1>5. CASE Concludes(GcFrames, g, ok) /\ draining' = draining
  <2>1. PICK h : h = [g EXCEPT !.draining = FALSE, !.running = 0]
    OBVIOUS
  <2>2. h \in Drain /\ ~h.draining
    BY <2>1 DEF Drain
  <2>3. /\ gcFrames' = IF g.explicit THEN Append(GcFrames, h) ELSE GcFrames
        /\ turn'.do = IF g.explicit THEN "deliverCollection" ELSE "resumeAutomatic"
    BY <1>5, <2>1, <1>t DEF Concludes
  <2>4. Drained(draining', Append(GcFrames, h), queue') /\ Drained(draining', GcFrames, queue')
    BY <1>2, <1>3, <1>5, <2>2, DrainStays
  <2>5. Last(Append(GcFrames, h)) = h
    BY <1>3, <2>2, AppendedIs
  <2> QED BY <2>2, <2>3, <2>4, <2>5 DEF DrainInv
<1> QED BY <1>4, <1>5

\* The end of a finalizer keeps the drain flag and its activation together.
LEMMA DrainFinalized == ASSUME Types, DrainInv, StopFinalizer PROVE DrainInv'
<1> USE DEF threadVars
<1>t. ASSUME NEW do, NEW role, NEW k, Then(do, role, k) PROVE turn'.do = do
  BY <1>t DEF Then, Turn
<1>c. ASSUME NEW result, CloseSession(result, Frames, Boundaries, status, link, allow)
      PROVE  DrainInv'
  <2>1. gcFrames' = <<>> /\ draining' = FALSE /\ turn' = NoTurn
    BY <1>c DEF CloseSession
  <2>2. 1 .. Len(<<>>) = {}
    BY EmptySeq
  <2>3. turn'.do = "none"
    BY <2>1 DEF NoTurn, Turn
  <2> QED BY <2>1, <2>2, <2>3 DEF DrainInv, Drained
<1>1. CASE GcFrames = <<>> \/ (GcFrames # <<>> /\ ~(/\ Last(GcFrames).draining
                                                 /\ Last(GcFrames).owner = current
                                                 /\ Last(GcFrames).running # 0))
  BY <1>1, <1>c DEF StopFinalizer, ProtocolError
<1>2. CASE GcFrames # <<>> /\ Last(GcFrames).draining /\ Last(GcFrames).owner = current
           /\ Last(GcFrames).running # 0
  <2>1. PICK g : g = Last(GcFrames)
    OBVIOUS
  <2>2. PICK gs : gs = Front(GcFrames)
    OBVIOUS
  <2>3. Drained(draining, GcFrames, queue) /\ GcFrames \in Seq(Drain)
    BY DrainedNow, GcFramesIs
  <2>4. PICK n \in Nat \ {0} : n = Len(GcFrames)
    BY <1>2, <2>3, EmptySeq
  <2>5. g \in Drain /\ g = GcFrames[n] /\ gs \in Seq(Drain) /\ Len(gs) = n - 1
        /\ \A i \in 1 .. n - 1 : gs[i] = GcFrames[i]
    BY <1>2, <2>1, <2>2, <2>3, <2>4, FrontIs
  <2>6. \A i \in 1 .. n - 1 : ~gs[i].draining
    <3>1. \A i, j \in 1 .. n : GcFrames[i].draining /\ GcFrames[j].draining => i = j
      BY <2>3, <2>4 DEF Drained
    <3>2. n \in 1 .. n /\ \A i \in 1 .. n - 1 : i \in 1 .. n /\ i # n
      OBVIOUS
    <3> QED BY <1>2, <2>1, <2>5, <3>1, <3>2
  <2>7. PICK waiting : waiting = Acknowledged(g)
    OBVIOUS
  <2>8. waiting \in Seq(1 .. MaxFinalizers)
    BY <2>5, <2>7, AcknowledgedIs
  <2>9. /\ queue' = waiting
        /\ IF mode # "returned" /\ ~g.explicit
           THEN CloseSession("vm", Frames, Boundaries, status, link, allow)
           ELSE IF mode = "returned" /\ waiting # <<>>
                THEN StartsNext(gs, g, waiting)
                ELSE Concludes(gs, g, mode = "returned") /\ draining' = FALSE
    BY <1>2, <2>1, <2>2, <2>7 DEF StopFinalizer
  <2>10. CASE mode # "returned" /\ ~g.explicit
    BY <2>9, <2>10, <1>c
  <2>11. CASE StartsNext(gs, g, waiting) /\ waiting # <<>>
    <3>1. Head(waiting) \in 1 .. MaxFinalizers /\ Head(waiting) \in Range(waiting)
      BY <2>8, <2>11, HeadInRange, HeadTailProperties
    <3>2. PICK h : h = [g EXCEPT !.draining = TRUE, !.running = Head(waiting)]
      OBVIOUS
    <3>3. h \in Drain /\ h.draining /\ h.running = Head(waiting)
      <4>1. Head(waiting) \in Nat
        BY <3>1, BoundsAssumption
      <4> QED BY <2>5, <3>2, <4>1 DEF Drain
    <3>4. gcFrames' = Append(gs, h) /\ draining' /\ turn'.do = "startFinalizer"
      BY <2>11, <3>2, <1>t DEF StartsNext
    <3>5. \A i \in 1 .. Len(gs) : ~gs[i].draining
      BY <2>5, <2>6
    <3>6. Drained(draining', Append(gs, h), queue')
      BY <2>5, <2>9, <3>1, <3>3, <3>4, <3>5, DrainStarts
    <3> QED BY <3>4, <3>6 DEF DrainInv
  <2>12. CASE Concludes(gs, g, mode = "returned") /\ draining' = FALSE
    <3>1. PICK h : h = [g EXCEPT !.draining = FALSE, !.running = 0]
      OBVIOUS
    <3>2. h \in Drain /\ ~h.draining
      BY <2>5, <3>1 DEF Drain
    <3>3. /\ gcFrames' = IF g.explicit THEN Append(gs, h) ELSE gs
          /\ turn'.do = IF g.explicit THEN "deliverCollection" ELSE "resumeAutomatic"
      BY <2>12, <3>1, <1>t DEF Concludes
    <3>4. \A i \in 1 .. Len(gs) : ~gs[i].draining
      BY <2>5, <2>6
    <3>5. Drained(draining', gs, queue')
      BY <2>12, <3>4 DEF Drained
    <3>6. Drained(draining', Append(gs, h), queue')
      BY <2>5, <3>2, <3>5, DrainStays
    <3>7. Last(Append(gs, h)) = h
      BY <2>5, <3>2, AppendedIs
    <3> QED BY <3>2, <3>3, <3>5, <3>6, <3>7 DEF DrainInv
  <2> QED BY <2>9, <2>10, <2>11, <2>12
<1> QED BY <1>1, <1>2

\* The drain is kept by every step.
LEMMA DrainNext == ASSUME Types, DrainInv, [Next]_vars PROVE DrainInv'
<1> USE DEF threadVars, gcVars
<1>t. ASSUME NEW do, NEW role, NEW k, Then(do, role, k) PROVE turn'.do = do
  BY <1>t DEF Then, Turn
<1>c. ASSUME NEW result, NEW fs, NEW bs, NEW st, NEW lk, NEW al, CloseSession(result, fs, bs, st, lk, al)
      PROVE  DrainInv'
  <2>1. gcFrames' = <<>> /\ draining' = FALSE /\ turn' = NoTurn
    BY <1>c DEF CloseSession
  <2>2. 1 .. Len(<<>>) = {}
    BY EmptySeq
  <2>3. turn'.do = "none"
    BY <2>1 DEF NoTurn, Turn
  <2> QED BY <2>1, <2>2, <2>3 DEF DrainInv, Drained
<1>k. ASSUME UNCHANGED <<gcFrames, draining, queue>>, turn' = turn \/ turn'.do # "deliverCollection"
      PROVE  DrainInv'
  BY <1>k DEF DrainInv
<1>d. ASSUME gcFrames' = GcFrames, UNCHANGED <<draining, queue>>, turn'.do # "deliverCollection"
      PROVE  DrainInv'
  BY <1>d, DrainedNow DEF DrainInv
<1>0. CASE UNCHANGED vars
  BY <1>0, <1>k DEF vars
<1>1. CASE BeginSession
  BY <1>1, <1>k DEF BeginSession, Turn
<1>2. CASE Runs
  BY <1>2, <1>k DEF Runs, LuaCall, LuaReturn, LuaThrow, Yield
<1>3. CASE Drives
  <2>1. UNCHANGED <<gcFrames, draining, queue, turn>>
    <3> USE DEF Performs
    <3>1. CASE StartTarget
      BY <3>1 DEF StartTarget
    <3>2. CASE Deliver \/ StartProtected \/ StartCallback
      BY <3>2 DEF Deliver, StartProtected, StartCallback
    <3>3. CASE FinishProtected \/ FinishHelper \/ DeliverCollection
      BY <3>3 DEF FinishProtected, FinishHelper, DeliverCollection
    <3>4. CASE ResumeInstruction \/ FailFinalizer
      BY <3>4 DEF ResumeInstruction, FailFinalizer
    <3> QED BY <1>3, <3>1, <3>2, <3>3, <3>4 DEF Drives
  <2> QED BY <2>1, <1>k
<1>4. ASSUME NEW c \in Coroutines, RequestResume(c) PROVE DrainInv'
  <2>1. gcFrames' = GcFrames /\ UNCHANGED <<draining, queue>>
    BY <1>4 DEF RequestResume
  <2>2. turn'.do # "deliverCollection"
    BY <1>4, <1>t DEF RequestResume, FailsFinalizer
  <2> QED BY <2>1, <2>2, <1>d
<1>5. CASE RequestProtected
  <2>1. gcFrames' = GcFrames /\ UNCHANGED <<draining, queue>> /\ turn'.do = "startProtected"
    BY <1>5, <1>t DEF RequestProtected
  <2> QED BY <2>1, <1>d
<1>6. CASE RequestHelper
  <2>1. gcFrames' = GcFrames /\ UNCHANGED <<draining, queue>> /\ turn'.do = "startHelper"
    BY <1>6, <1>t DEF RequestHelper
  <2> QED BY <2>1, <1>d
<1>7. CASE RequestCollect
  <2>1. PICK g : g = [owner |-> current, stop |-> Len(Suspended), draining |-> FALSE, running |-> 0,
                 explicit |-> TRUE, resume |-> ActiveRole(Boundaries, GcFrames, current)]
    OBVIOUS
  <2>2. g \in Drain /\ ~g.draining
    <3>1. FALSE \in BOOLEAN /\ TRUE \in BOOLEAN /\ 0 \in Nat
      OBVIOUS
    <3>2. current \in States
      BY DEF Types
    <3>3. Suspended \in Seq(CallKinds)
      BY <3>2, PushOnCalls DEF CallKinds, Suspended
    <3>4. ActiveRole(Boundaries, GcFrames, current) \in RoleSet
      BY BoundariesIs, GcFramesIs, ActiveRoleIs
    <3>5. Len(Suspended) \in Nat
      BY <3>3
    <3> QED BY <2>1, <3>1, <3>2, <3>4, <3>5 DEF Drain
  <2>3. PICK n \in found .. MaxFinalizers, finished \in BOOLEAN :
           /\ Finds(n)
           /\ IF finished /\ g.resume.kind # "finalizer" /\ queue' # <<>> /\ ~draining
              THEN StartsNext(GcFrames, g, queue')
              ELSE Concludes(GcFrames, g, TRUE) /\ UNCHANGED <<draining, begun>>
    BY <1>7, <2>1 DEF RequestCollect
  <2> QED BY <2>2, <2>3, DrainCollected
<1>8. CASE AutomaticGc
  <2>1. CASE InFinalizerNow
    BY <1>8, <2>1, <1>c DEF AutomaticGc, ProtocolError
  <2>2. CASE ~InFinalizerNow
    <3>1. PICK g : g = [owner |-> current, stop |-> Len(calls[current]), draining |-> FALSE,
                         running |-> 0, explicit |-> FALSE, resume |-> turn.role]
      OBVIOUS
    <3>2. g \in Drain /\ ~g.draining
      <4>1. FALSE \in BOOLEAN /\ 0 \in Nat
        OBVIOUS
      <4>2. current \in States /\ turn.role \in RoleSet /\ calls \in [States -> Seq(CallKinds)]
        BY DEF Types
      <4>3. Len(calls[current]) \in Nat
        BY <4>2
      <4> QED BY <3>1, <4>1, <4>2, <4>3 DEF Drain
    <3>3. PICK n \in found .. MaxFinalizers, finished \in BOOLEAN :
             /\ Finds(n)
             /\ IF finished /\ queue' # <<>>
                THEN StartsNext(GcFrames, g, queue')
                ELSE Concludes(GcFrames, g, TRUE) /\ UNCHANGED <<draining, begun>>
      BY <1>8, <2>2, <3>1 DEF AutomaticGc
    <3>4. ~draining
      BY <1>8 DEF AutomaticGc
    <3> QED BY <3>2, <3>3, <3>4, DrainCollected
  <2> QED BY <2>1, <2>2
<1>9. CASE UpvalueAccess
  <2>1. gcFrames' = GcFrames /\ UNCHANGED <<draining, queue>>
    BY <1>9 DEF UpvalueAccess
  <2>2. turn'.do # "deliverCollection"
    <3>1. CASE InFinalizerNow
      BY <1>9, <3>1, <1>t DEF UpvalueAccess, FailsFinalizer
    <3>2. CASE ~InFinalizerNow
      BY <1>9, <3>2 DEF UpvalueAccess, Turn
    <3> QED BY <3>1, <3>2
  <2> QED BY <2>1, <2>2, <1>d
<1>10. CASE Fault
  BY <1>10, <1>c DEF Fault
<1>11. CASE StopCoroutine
  <2>1. \/ \E st, lk, al : CloseSession("protocol", Frames, Boundaries, st, lk, al)
        \/ CloseSession("vm", frames, boundaries, status, link, allow)
        \/ /\ gcFrames' = GcFrames /\ UNCHANGED <<draining, queue>>
           /\ turn'.do = "deliver"
    BY <1>11, <1>t DEF StopCoroutine, ProtocolError
  <2> QED BY <2>1, <1>c, <1>d
<1>12. CASE StopMain
  BY <1>12, <1>c DEF StopMain, ProtocolError
<1>13. CASE StopProtected
  <2>1. \/ CloseSession("protocol", Frames, Boundaries, status, link, allow)
        \/ /\ gcFrames' = GcFrames /\ UNCHANGED <<draining, queue>>
           /\ turn'.do # "deliverCollection"
    BY <1>13, <1>t DEF StopProtected
  <2> QED BY <2>1, <1>c, <1>d
<1>14. CASE StopHelper
  <2>1. \/ CloseSession("protocol", Frames, Boundaries, status, link, allow)
        \/ /\ gcFrames' = GcFrames /\ UNCHANGED <<draining, queue>>
           /\ turn'.do # "deliverCollection"
    BY <1>14, <1>t DEF StopHelper
  <2> QED BY <2>1, <1>c, <1>d
<1>15. CASE StopFinalizer
  BY <1>15, DrainFinalized
<1> QED BY <1>0, <1>1, <1>2, <1>3, <1>4, <1>5, <1>6, <1>7, <1>8, <1>9, <1>10, <1>11, <1>12, <1>13, <1>14, <1>15
        DEF Next, Requests, Stops

\* In the initial state nothing drains.
LEMMA DrainInit == ASSUME Init PROVE Types /\ DrainInv
<1>1. 1 .. Len(<<>>) = {}
  BY EmptySeq
<1>2. turn.do = "none" /\ gcFrames = <<>> /\ draining = FALSE
  BY DEF Init, NoTurn, Turn
<1> QED BY <1>1, <1>2, TypesInit DEF DrainInv, Drained

\* The drain flag is set exactly while an activation drains, and the finalizer it
\* runs is still in the queue: no finalizer is left half done, and none is
\* acknowledged that does not run, whatever the program and its callbacks do.
THEOREM DrainsAreOwned == Spec => []DrainHasAnOwner
<1>1. Init => Types /\ DrainInv
  BY DrainInit
<1>2. Types /\ DrainInv /\ [Next]_vars => (Types /\ DrainInv)'
  BY TypesNext, DrainNext
<1>3. Types /\ DrainInv => DrainHasAnOwner
  <2> SUFFICES ASSUME Types, DrainInv PROVE DrainHasAnOwner
    OBVIOUS
  <2>1. DOMAIN gcFrames = 1 .. Len(gcFrames)
    BY DEF Types
  <2> QED BY <2>1 DEF DrainInv, Drained, DrainHasAnOwner
<1> QED BY <1>1, <1>2, <1>3, PTL DEF Spec

-----------------------------------------------------------------------------
(* Threads and resumes, when no caller of a running coroutine is resumed.  *)

\* No coroutine is resumed while it waits for another one.
NoReentry == "reenter" \notin Program

\* Each coroutine is resumed once at a time; the Thread objects say which runs,
\* which wait, and for whom.
ThreadInv ==
    /\ \A i, j \in 1 .. Len(Frames) : Frames[i].target = Frames[j].target => i = j
    /\ \A c \in Coroutines :
          /\ status[c] = "Running" <=> c = current
          /\ status[c] = "Normal" <=> c # current /\ c \in Targets(Frames)
    /\ \A i \in 1 .. Len(Frames) : link[Frames[i].target] = ThreadOf(Frames[i].caller)

\* The frames without the last one.
LEMMA FramesSplit ==
    ASSUME NEW fs \in Seq(Activation), fs # <<>>
    PROVE  \E n \in Nat : /\ Len(fs) = n + 1 /\ Len(Front(fs)) = n /\ Last(fs) = fs[n + 1]
                          /\ Front(fs) \in Seq(Activation)
                          /\ \A i \in 1 .. n : Front(fs)[i] = fs[i]
<1>1. PICK m \in Nat \ {0} : m = Len(fs)
  BY EmptySeq
<1>2. /\ Len(Front(fs)) = m - 1 /\ Last(fs) = fs[m] /\ Front(fs) \in Seq(Activation)
      /\ \A i \in 1 .. m - 1 : Front(fs)[i] = fs[i]
  BY <1>1, FrontIs
<1>3. PICK n : n = m - 1
  OBVIOUS
<1>4. n \in Nat /\ m = n + 1
  BY <1>3
<1> QED BY <1>1, <1>2, <1>3, <1>4

\* The threads after a resume.
LEMMA ThreadGrown ==
    ASSUME Types, ChainInv, ThreadInv, NoReentry, ChainGrows, Types'
    PROVE  ThreadInv'
<1>1. PICK c \in Coroutines, f \in Activation :
          /\ status[c] = "Suspended"
          /\ f.caller = current /\ f.target = c
          /\ frames' = Append(Frames, f) /\ current' = c
          /\ status' = [t \in Coroutines |-> IF t = c THEN "Running"
                                            ELSE IF t = current THEN "Normal" ELSE status[t]]
          /\ link' = [link EXCEPT ![c] = ThreadOf(current)]
  BY DEF ChainGrows, NoReentry
<1>2. PICK fs \in Seq(Activation) : fs = Frames
  BY FramesIs
<1>n. PICK n \in Nat : n = Len(fs)
  BY <1>2
<1>3. PICK gs \in Seq(Activation) : gs = frames'
  BY DEF Types
<1>4. Len(gs) = n + 1 /\ gs[n + 1] = f /\ \A i \in 1 .. n : gs[i] = fs[i]
  BY <1>1, <1>2, <1>3, <1>n, AppendedIs
<1>5. Frames' = gs
  BY <1>3 DEF ChainGrows, Frames
<1>6. c # current /\ c \notin Targets(fs)
  BY <1>1, <1>2 DEF ThreadInv
<1>7. \A i \in 1 .. n : fs[i].target # c
  BY <1>6, <1>n DEF Targets
<1>8. \A i \in 1 .. n + 1 : i \in 1 .. n \/ i = n + 1
  OBVIOUS
<1>9. \A i, j \in 1 .. n + 1 : gs[i].target = gs[j].target => i = j
  <2>1. \A i, j \in 1 .. n : fs[i].target = fs[j].target => i = j
    BY <1>2, <1>n DEF ThreadInv
  <2> QED BY <1>1, <1>4, <1>7, <1>8, <2>1
<1>10. Targets(gs) = Targets(fs) \cup {c}
  <2>1. Targets(gs) = {gs[i].target : i \in 1 .. n + 1} /\ Targets(fs) = {fs[i].target : i \in 1 .. n}
    BY <1>4, <1>n DEF Targets
  <2> QED BY <1>1, <1>4, <1>8, <2>1, SMTT(30)
<1>11. current # Main => current \in Targets(fs)
  <2>1. fs # <<>> => n \in 1 .. n /\ Last(fs) = fs[n]
    BY <1>n, EmptySeq DEF Last
  <2> QED BY <1>2, <1>n, <2>1 DEF ChainInv, Targets
<1>12. ASSUME NEW t \in Coroutines
       PROVE  /\ status'[t] = "Running" <=> t = current'
              /\ status'[t] = "Normal" <=> t # current' /\ t \in Targets(gs)
  <2>1. status'[t] = IF t = c THEN "Running" ELSE IF t = current THEN "Normal" ELSE status[t]
    BY <1>1
  <2>2. t # Main
    BY StatesAssumption
  <2>3. /\ status[t] = "Running" <=> t = current
        /\ status[t] = "Normal" <=> t # current /\ t \in Targets(fs)
    BY <1>2 DEF ThreadInv
  <2>4. t = current => t \in Targets(fs)
    BY <1>11, <2>2
  <2> QED BY <1>1, <1>10, <2>1, <2>3, <2>4
<1>13. ASSUME NEW i \in 1 .. n + 1 PROVE link'[gs[i].target] = ThreadOf(gs[i].caller)
  <2>1. link \in [Coroutines -> Coroutines \cup {None}]
    BY DEF Types
  <2>2. CASE i = n + 1
    BY <1>1, <1>4, <2>1, <2>2
  <2>3. CASE i # n + 1
    <3>1. i \in 1 .. n
      BY <2>3
    <3>2. gs[i] = fs[i] /\ fs[i].target # c
      BY <1>4, <1>7, <3>1
    <3>3. link[fs[i].target] = ThreadOf(fs[i].caller)
      BY <1>2, <1>n, <3>1 DEF ThreadInv
    <3>4. fs[i].target \in Coroutines
      BY <1>n, <3>1 DEF Activation
    <3> QED BY <1>1, <2>1, <3>2, <3>3, <3>4
  <2> QED BY <2>2, <2>3
<1> QED BY <1>4, <1>5, <1>9, <1>12, <1>13 DEF ThreadInv

\* The threads after the end of a coroutine's turn.
LEMMA ThreadShrunk ==
    ASSUME Types, ChainInv, ThreadInv, ChainShrinks, Types'
    PROVE  ThreadInv'
<1>1. PICK f \in Activation, ended \in Ended :
          /\ f.caller = Last(Frames).caller /\ f.target = current
          /\ f.prevCaller = Last(Frames).prevCaller
          /\ f.prevLink = Last(Frames).prevLink
          /\ frames' = Append(Front(Frames), f) /\ current' = f.caller
          /\ link' = [link EXCEPT ![current] = f.prevLink]
          /\ status' = Restored(f, [status EXCEPT ![current] = ended])
  BY DEF ChainShrinks
<1>2. PICK fs \in Seq(Activation) : fs = Frames /\ fs # <<>> /\ Last(fs).target = current
  BY FramesIs DEF ChainShrinks
<1>3. PICK n \in Nat : /\ Len(fs) = n + 1 /\ Len(Front(fs)) = n /\ Last(fs) = fs[n + 1]
                       /\ Front(fs) \in Seq(Activation)
                       /\ \A i \in 1 .. n : Front(fs)[i] = fs[i]
  BY <1>2, FramesSplit
<1>4. PICK gs \in Seq(Activation) : gs = Front(fs)
  BY <1>3
<1>5. Frames' = gs
  BY <1>1, <1>2, <1>4, AppendedIs DEF ChainShrinks, Frames
<1>6. Len(gs) = n /\ \A i \in 1 .. n : gs[i] = fs[i]
  BY <1>3, <1>4
<1>7. \A i, j \in 1 .. n + 1 : fs[i].target = fs[j].target => i = j
  BY <1>2, <1>3 DEF ThreadInv
<1>8. \A i \in 1 .. n : i \in 1 .. n + 1 /\ n + 1 \in 1 .. n + 1 /\ i # n + 1
  OBVIOUS
<1>9. \A i \in 1 .. n : gs[i].target # current
  BY <1>2, <1>3, <1>6, <1>7, <1>8
<1>10. Targets(fs) = Targets(gs) \cup {current} /\ current \notin Targets(gs)
  <2>1. Targets(fs) = {fs[i].target : i \in 1 .. n + 1} /\ Targets(gs) = {gs[i].target : i \in 1 .. n}
    BY <1>3, <1>6 DEF Targets
  <2>2. \A i \in 1 .. n + 1 : i \in 1 .. n \/ i = n + 1
    OBVIOUS
  <2>3. n + 1 \in 1 .. n + 1
    OBVIOUS
  <2> QED BY <1>2, <1>3, <1>6, <1>8, <1>9, <2>1, <2>2, <2>3
<1>c. current \in Coroutines /\ f.caller \in States
  BY <1>2 DEF Types, States, Activation, ChainShrinks
<1>11. /\ f.caller # current /\ (f.caller # Main => f.caller \in Targets(gs) /\ f.prevCaller = "Running")
  <2>1. Linked(fs)
    <3>1. /\ frames \in Seq(Activation) /\ Len(Frames) <= Len(frames) /\ Frames \in Seq(Activation)
          /\ \A i \in 1 .. Len(Frames) : Frames[i] = frames[i]
      BY FramesIs DEF Types
    <3> QED BY <1>2, <3>1, LinkedPrefix DEF ChainInv
  <2>2. /\ fs[n + 1].caller = IF n + 1 = 1 THEN Main ELSE fs[(n + 1) - 1].target
        /\ fs[n + 1].caller # fs[n + 1].target
        /\ fs[n + 1].caller # Main => fs[n + 1].prevCaller = "Running"
    <3>1. n + 1 \in 1 .. Len(fs)
      BY <1>3
    <3> QED BY <2>1, <3>1 DEF Linked
  <2>3. n # 0 => n \in 1 .. n /\ (n + 1) - 1 = n
    OBVIOUS
  <2>4. n # 0 => fs[n].target \in Targets(gs)
    BY <1>6, <2>3 DEF Targets
  <2> QED BY <1>1, <1>2, <1>3, <2>2, <2>3, <2>4
<1>12. PICK st \in [Coroutines -> Statuses] : st = [status EXCEPT ![current] = ended]
  <2>1. ended \in Statuses /\ status \in [Coroutines -> Statuses]
    BY DEF Ended, Statuses, Types
  <2> QED BY <2>1
<1>13. ASSUME NEW t \in Coroutines
       PROVE  /\ status'[t] = "Running" <=> t = current'
              /\ status'[t] = "Normal" <=> t # current' /\ t \in Targets(gs)
  <2>1. /\ status[t] = "Running" <=> t = current
        /\ status[t] = "Normal" <=> t # current /\ t \in Targets(fs)
    BY <1>2 DEF ThreadInv
  <2>2. t # Main
    BY StatesAssumption
  <2>3. status \in [Coroutines -> Statuses]
    BY DEF Types
  <2>4. st[t] = IF t = current THEN ended ELSE status[t]
    BY <1>12, <2>3
  <2>5. status'[t] = IF t = f.caller THEN "Running" ELSE st[t]
    <3>1. CASE f.caller = Main
      BY <1>1, <1>12, <2>2, <3>1 DEF Restored
    <3>2. CASE f.caller # Main
      <4>1. status' = [st EXCEPT ![f.caller] = IF st[f.caller] = "Dead" THEN "Running" ELSE f.prevCaller]
        BY <1>1, <1>12, <3>2 DEF Restored
      <4>2. f.prevCaller = "Running" /\ f.caller \in Coroutines
        BY <1>11, <1>c, <3>2 DEF States
      <4>3. status' = [st EXCEPT ![f.caller] = "Running"]
        BY <4>1, <4>2
      <4> QED BY <4>2, <4>3
    <3> QED BY <3>1, <3>2
  <2>6. current' = f.caller
    BY <1>1
  <2>7. CASE t = f.caller
    BY <2>2, <2>5, <2>6, <2>7
  <2>8. CASE t # f.caller /\ t = current
    <3>1. t \notin Targets(gs)
      BY <1>10, <2>8
    <3> QED BY <2>4, <2>5, <2>6, <2>8, <3>1 DEF Ended
  <2>9. CASE t # f.caller /\ t # current
    <3>1. t \in Targets(gs) <=> t \in Targets(fs)
      BY <1>10, <2>9
    <3> QED BY <2>1, <2>4, <2>5, <2>6, <2>9, <3>1
  <2> QED BY <2>7, <2>8, <2>9
<1>14. ASSUME NEW i \in 1 .. n PROVE link'[gs[i].target] = ThreadOf(gs[i].caller)
  <2>1. link[fs[i].target] = ThreadOf(fs[i].caller)
    BY <1>2, <1>3, <1>8 DEF ThreadInv
  <2>2. gs[i] = fs[i] /\ gs[i].target # current
    BY <1>6, <1>9
  <2>3. gs[i].target \in Coroutines
    BY <1>6 DEF Activation
  <2>4. link \in [Coroutines -> Coroutines \cup {None}]
    BY DEF Types
  <2> QED BY <1>1, <2>1, <2>2, <2>3, <2>4
<1>15. \A i, j \in 1 .. n : gs[i].target = gs[j].target => i = j
  BY <1>6, <1>7, <1>8
<1> QED BY <1>5, <1>6, <1>13, <1>14, <1>15 DEF ThreadInv

\* The threads are kept by every step.
LEMMA ThreadNext == ASSUME Types, ChainInv, ThreadInv, NoReentry, [Next]_vars PROVE ThreadInv'
<1>t. Types' /\ ChainInv'
  BY TypesNext, ChainNext
<1>1. CASE UNCHANGED vars
  BY <1>1 DEF vars, ThreadInv, Frames
<1>2. CASE ChainStays
  BY <1>2 DEF ChainStays, ThreadInv, Frames
<1>3. CASE ChainDelivered
  <2>1. Frames' = Frames
    BY <1>3 DEF ChainDelivered, Frames
  <2> HIDE DEF Frames
  <2> QED BY <1>3, <2>1 DEF ChainDelivered, ThreadInv
<1>4. CASE ChainCloses
  <2>1. current' = Main /\ Frames' = <<>>
    BY <1>4 DEF ChainCloses, Undone, Frames
  <2>2. 1 .. Len(<<>>) = {}
    BY EmptySeq
  <2>3. Targets(<<>>) = {}
    BY <2>2 DEF Targets
  <2>4. \A c \in Coroutines : status'[c] \in Ended /\ c # Main
    BY <1>t, <2>1, <2>3, StatesAssumption DEF ChainInv, Unlinked
  <2> QED BY <2>1, <2>2, <2>3, <2>4 DEF ThreadInv, Ended
<1> QED BY <1>t, <1>1, <1>2, <1>3, <1>4, ThreadGrown, ThreadShrunk, ChainSteps

\* In the initial state nothing is resumed.
LEMMA ThreadInit == ASSUME Init PROVE Types /\ ChainInv /\ ThreadInv
<1>1. 1 .. Len(<<>>) = {}
  BY EmptySeq
<1>2. frames = <<>> /\ Frames = <<>> /\ current = Main
  BY DEF Init, Frames
<1>3. Targets(<<>>) = {} /\ Linked(<<>>)
  BY <1>1 DEF Targets, Linked
<1>4. \A c \in Coroutines : status[c] = "Suspended" /\ link[c] = None /\ c # Main
  BY StatesAssumption DEF Init
<1>5. ThreadInv
  BY <1>1, <1>2, <1>3, <1>4 DEF ThreadInv
<1>6. ChainInv
  BY <1>2, <1>3, <1>4 DEF ChainInv, Unlinked, Ended
<1> QED BY <1>5, <1>6, TypesInit

\* Where no waiting coroutine is resumed again, the Thread objects agree with the
\* activation frames throughout a session: one coroutine runs, those that wait are
\* the targets of the frames below, and each caller link names who waits for whom.
THEOREM ThreadsFollow == ASSUME NoReentry PROVE Spec => []ThreadsFollowActivations
<1>1. Init => Types /\ ChainInv /\ ThreadInv
  BY ThreadInit
<1>2. Types /\ ChainInv /\ ThreadInv /\ [Next]_vars => (Types /\ ChainInv /\ ThreadInv)'
  BY TypesNext, ChainNext, ThreadNext
<1>3. Types /\ ChainInv /\ ThreadInv => ThreadsFollowActivations
  <2> SUFFICES ASSUME Types, ChainInv, ThreadInv PROVE ThreadsFollowActivations
    OBVIOUS
  <2>1. PICK fs \in Seq(Activation) : fs = Frames
    BY FramesIs
  <2>3. PICK n \in Nat : n = Len(fs) /\ DOMAIN fs = 1 .. n
    BY <2>1
  <2>4. Linked(fs)
    <3>1. /\ frames \in Seq(Activation) /\ Len(Frames) <= Len(frames) /\ Frames \in Seq(Activation)
          /\ \A i \in 1 .. Len(Frames) : Frames[i] = frames[i]
      BY FramesIs DEF Types
    <3> QED BY <2>1, <3>1, LinkedPrefix DEF ChainInv
  <2>5. current = IF fs = <<>> THEN Main ELSE Last(fs).target
    BY <2>1 DEF ChainInv
  <2>6. \A i \in 1 .. n : fs[i].caller = IF i = 1 THEN Main ELSE fs[i - 1].target
    BY <2>3, <2>4 DEF Linked
  <2>7. ASSUME NEW c \in Coroutines
        PROVE  LET In == {i \in 1 .. n : fs[i].target = c}
               IN  /\ status[c] = "Running" <=> c = current
                   /\ status[c] = "Normal" <=> c # current /\ In # {}
                   /\ In = {} => link[c] = None
                   /\ \A i \in In : (\A j \in In : j <= i) => link[c] = ThreadOf(fs[i].caller)
    <3> DEFINE In == {i \in 1 .. n : fs[i].target = c}
    <3>1. In # {} <=> c \in Targets(fs)
      BY <2>3 DEF Targets
    <3>2. /\ status[c] = "Running" <=> c = current
          /\ status[c] = "Normal" <=> c # current /\ In # {}
      BY <2>1, <3>1 DEF ThreadInv
    <3>3. In = {} => link[c] = None
      BY <2>1, <3>1 DEF ChainInv, Unlinked
    <3>4. \A i \in In : link[c] = ThreadOf(fs[i].caller)
      BY <2>1, <2>3 DEF ThreadInv
    <3> QED BY <3>2, <3>3, <3>4
  <2> HIDE DEF Frames
  <2> QED BY <2>1, <2>3, <2>5, <2>6, <2>7 DEF ThreadsFollowActivations
<1> QED BY <1>1, <1>2, <1>3, PTL DEF Spec

-----------------------------------------------------------------------------
(* Calls across boundaries, when the callbacks of finalizers do not open   *)
(* boundaries of their own.                                                *)

\* No waiting caller is resumed, and no finalizer makes a request that pushes a
\* pcall, callback or collection: when it is answered, active_driver_role may
\* choose what encloses the drain in place of the drain (SchedNestedRequest).
Nestable ==
    /\ NoReentry
    /\ InFinalizer \subseteq {"call", "error", "resume", "upvalue", "yield"}

\* The states of the chain of resumes fs: the main state, then the targets.
Chain(fs, p) == IF p = 0 THEN Main ELSE fs[p].target

\* The boundaries bs belong to states of the chain, and lie in its order.
Owned(bs, fs) ==
    /\ \A j \in 1 .. Len(bs) : \E p \in 0 .. Len(fs) : bs[j].owner = Chain(fs, p)
    /\ \A j, k \in 1 .. Len(bs), p, q \in 0 .. Len(fs) :
          j < k /\ bs[j].owner = Chain(fs, p) /\ bs[k].owner = Chain(fs, q) => p <= q

\* An inner boundary of a state lies above the outer ones.
StopsGrow(bs) ==
    \A j, k \in 1 .. Len(bs) : j < k /\ bs[j].owner = bs[k].owner => bs[j].stop < bs[k].stop

\* The role of the last of the first n boundaries that belongs to the state s.
RoleAt(bs, n, s, role) ==
    \/ (\A i \in 1 .. n : bs[i].owner # s) /\ role = ProgramRole
    \/ \E i \in 1 .. n :
          bs[i].owner = s /\ (\A k \in 1 .. n : k > i => bs[k].owner # s) /\ role = RoleOf(bs[i])

\* Each boundary knows the role of the boundary that encloses it.
Parents(bs) == \A j \in 1 .. Len(bs) : RoleAt(bs, j - 1, bs[j].owner, bs[j].parent)

\* The frames cs reach each boundary, which a waiting state has called out of.
Standing(bs, cs, cur) ==
    \A j \in 1 .. Len(bs) :
        LET b == bs[j]
        IN  /\ 1 <= b.stop /\ b.stop <= Len(cs[b.owner]) /\ b.stop < MaxDepth
            /\ b.native => cs[b.owner][b.stop] = "native"
            /\ b.kind = "protected" => b.native
            /\ b.owner # cur => b.stop < Len(cs[b.owner])

StackInv ==
    /\ Owned(Boundaries, Frames) /\ StopsGrow(Boundaries) /\ Parents(Boundaries)
    /\ Standing(Boundaries, calls, current)

\* A turn runs under the role of the drain, else of the innermost boundary.
RoleInv ==
    /\ GcFrames = <<>> => RoleAt(Boundaries, Len(Boundaries), current, turn.role)
    /\ GcFrames # <<>> => turn.role = Role("finalizer", GcFrames[1].stop)

\* The drain runs on top of everything else, on the running state.
GcInv ==
    /\ Len(gcFrames) <= 1
    /\ turn.do = "deliverCollection" => gcFrames[1].owner = current /\ gcFrames[1].resume = turn.role
    /\ GcFrames # <<>> =>
          LET g == GcFrames[1]
          IN  /\ g.owner = current /\ g.draining /\ g.running # 0
              /\ 1 <= g.stop /\ g.stop <= Len(calls[current]) /\ g.stop < MaxDepth
              /\ g.explicit => calls[current][g.stop] = "native"
              /\ g.resume.stop < g.stop
              /\ RoleAt(Boundaries, Len(Boundaries), current, g.resume)
              /\ mode = "lua" => \A k \in 1 .. Len(calls[current]) : k > g.stop => calls[current][k] = "lua"
              /\ mode \in {"returned", "yielded", "raised"} => Len(calls[current]) = g.stop
              /\ mode = "action" => turn.do \in {"startFinalizer", "failFinalizer"}
              /\ mode = "action" /\ turn.do = "startFinalizer" => Len(calls[current]) = g.stop

\* The callers of the resumes fs wait in the native frames that their requests left.
Waiting(fs, cs, st) ==
    \A i \in 1 .. Len(fs) :
        /\ ~fs[i].replay /\ fs[i].caller \in st \cup {Main}
        /\ Len(cs[fs[i].caller]) = Len(fs[i].saved)
        /\ cs[fs[i].caller][Len(fs[i].saved)] = "native"

\* Each state has its bottom frame; a coroutine that was never resumed has no other.
Bottoms(cs, st) ==
    /\ \A s \in States : Len(cs[s]) >= 1 /\ Len(cs[s]) <= MaxDepth
    /\ \A c \in Coroutines : cs[c][1] = "base"
    /\ cs[Main][1] = "lua"
    /\ \A c \in Coroutines \ st : Len(cs[c]) = 1

CallsInv ==
    /\ Bottoms(calls, started)
    /\ (mode = "action" /\ turn.do = "startTarget") \/ current \in started \cup {Main}

\* A delivery to this depth finds its native frame above the calls of its role.
Delivers(depth) == Matches(current, depth) /\ turn.role.stop < depth

\* What a driver action may rely on.
TurnInv ==
    /\ turn.do \in {"finishProtected", "finishHelper"} =>
          /\ PopsBoundary = Len(boundaries) /\ boundaries[Len(boundaries)].owner = current
          /\ boundaries[Len(boundaries)].parent = turn.role
    /\ mode = "action" =>
          /\ turn.do \in DriverActions \ {"none", "startProto"}
          /\ turn.do = "deliver" => ~Last(frames).replay /\ Delivers(Len(Last(frames).saved))
          /\ turn.do \in {"finishProtected", "finishHelper"} =>
                LET b == boundaries[Len(boundaries)]
                IN  /\ Len(calls[current]) = b.stop /\ turn.role.stop < b.stop
                    /\ b.native => Matches(current, b.stop)
                    /\ b.kind = "protected" => b.native
          /\ turn.do = "deliverCollection" => Delivers(gcFrames[1].stop)
          /\ turn.do = "startProtected" => turn.role.kind = "protected"
          /\ turn.do = "startHelper" => turn.role.kind = "helper"
          /\ turn.do \in {"startProtected", "startHelper"} => turn.role.stop = Len(calls[current])
          /\ turn.do \in {"startFinalizer", "failFinalizer"} => GcFrames # <<>>
          /\ turn.do = "startTarget" =>
                /\ current # Main /\ Last(frames).prevTarget # "Normal" /\ ~owed
                /\ allow[current] < MaxAllow /\ turn.role = ProgramRole

HasBarrier(bs, s) == \E j \in 1 .. Len(bs) : bs[j].kind = "protected" /\ bs[j].owner = s

\* The outermost pcall of a coroutine saved its permission, an inner one saved none.
Yields(bs) ==
    \A j \in 1 .. Len(bs) : bs[j].kind = "protected" =>
        /\ bs[j].prevYield <= MaxAllow
        /\ bs[j].prevYield > 0 <=>
              /\ bs[j].owner # Main
              /\ \A i \in 1 .. Len(bs) : i < j => ~(bs[i].kind = "protected" /\ bs[i].owner = bs[j].owner)

\* A coroutine that was resumed may yield unless a pcall encloses what it does.
AllowInv ==
    /\ allow[Main] = 0 /\ \A s \in States : allow[s] <= MaxAllow
    /\ \A s \in States : HasBarrier(Boundaries, s) =>
          allow[s] = 0 \/ (s = current /\ mode = "action" /\ turn.do = "startProtected")
    /\ \A i \in 1 .. Len(Frames) :
          \/ allow[Frames[i].target] > 0
          \/ HasBarrier(Boundaries, Frames[i].target)
          \/ /\ Frames[i].target = current /\ mode = "action"
             /\ turn.do \in {"startTarget", "finishProtected"}
    /\ Yields(boundaries)

\* A finalizer waits once, and one that was started waits only while it runs.
QueueInv ==
    /\ \A i, j \in 1 .. Len(queue) : queue[i] = queue[j] => i = j
    /\ \A i \in 1 .. Len(queue) : queue[i] <= found
    /\ \A x \in 1 .. MaxFinalizers :
          /\ begun[x] <= 1 /\ (begun[x] = 1 => x <= found)
          /\ begun[x] = 1 /\ (\E i \in 1 .. Len(queue) : queue[i] = x) =>
                GcFrames # <<>> /\ GcFrames[1].running = x

\* Between sessions no activation is left.
IdleInv ==
    /\ mode = "idle" => frames = <<>> /\ boundaries = <<>> /\ gcFrames = <<>> /\ turn = NoTurn
    /\ outcome # "protocol"

NestInv ==
    /\ IdleInv /\ StackInv /\ RoleInv /\ GcInv /\ Waiting(Frames, calls, started)
    /\ CallsInv /\ TurnInv /\ AllowInv /\ QueueInv

\* The frames us are the first of the frames bs, up to their handlers.
Like(us, bs) ==
    /\ Len(us) <= Len(bs)
    /\ \A i \in 1 .. Len(us) :
          /\ us[i].kind = bs[i].kind /\ us[i].owner = bs[i].owner /\ us[i].stop = bs[i].stop
          /\ us[i].native = bs[i].native /\ us[i].parent = bs[i].parent
          /\ us[i].prevYield = bs[i].prevYield

\* What holds of a stack of boundaries holds of the frames below its top.
LEMMA StackOfPrefix ==
    ASSUME NEW us \in Seq(Boundary), NEW bs \in Seq(Boundary), Like(us, bs)
    PROVE  /\ \A fs : Owned(bs, fs) => Owned(us, fs)
           /\ StopsGrow(bs) => StopsGrow(us)
           /\ Parents(bs) => Parents(us)
           /\ \A cs, cur : Standing(bs, cs, cur) => Standing(us, cs, cur)
           /\ Yields(bs) => Yields(us)
<1>1. PICK n \in Nat, m \in Nat : n = Len(us) /\ m = Len(bs) /\ n <= m
  BY DEF Like
<1>2. \A i \in 1 .. n : /\ i \in 1 .. m
                        /\ us[i].kind = bs[i].kind /\ us[i].owner = bs[i].owner /\ us[i].stop = bs[i].stop
                        /\ us[i].native = bs[i].native /\ us[i].parent = bs[i].parent
                        /\ us[i].prevYield = bs[i].prevYield
  BY <1>1 DEF Like
<1>3. ASSUME NEW fs, Owned(bs, fs) PROVE Owned(us, fs)
  BY <1>1, <1>2, <1>3, ZenonT(40) DEF Owned
<1>4. StopsGrow(bs) => StopsGrow(us)
  BY <1>1, <1>2 DEF StopsGrow
<1>5. Parents(bs) => Parents(us)
  <2> SUFFICES ASSUME Parents(bs), NEW j \in 1 .. n
               PROVE  RoleAt(us, j - 1, us[j].owner, us[j].parent)
    BY <1>1 DEF Parents
  <2>1. RoleAt(bs, j - 1, us[j].owner, us[j].parent)
    BY <1>1, <1>2 DEF Parents
  <2>2. \A i \in 1 .. j - 1 : i \in 1 .. n /\ us[i].owner = bs[i].owner /\ RoleOf(us[i]) = RoleOf(bs[i])
    BY <1>2 DEF RoleOf
  <2> QED BY <2>1, <2>2 DEF RoleAt
<1>6. ASSUME NEW cs, NEW cur, Standing(bs, cs, cur) PROVE Standing(us, cs, cur)
  <2> SUFFICES ASSUME NEW j \in 1 .. n
               PROVE  /\ 1 <= us[j].stop /\ us[j].stop <= Len(cs[us[j].owner]) /\ us[j].stop < MaxDepth
                      /\ us[j].native => cs[us[j].owner][us[j].stop] = "native"
                      /\ us[j].kind = "protected" => us[j].native
                      /\ us[j].owner # cur => us[j].stop < Len(cs[us[j].owner])
    BY <1>1 DEF Standing
  <2> QED BY <1>1, <1>2, <1>6 DEF Standing
<1>7. Yields(bs) => Yields(us)
  <2> SUFFICES ASSUME Yields(bs), NEW j \in 1 .. n, us[j].kind = "protected"
               PROVE  /\ us[j].prevYield <= MaxAllow
                      /\ us[j].prevYield > 0 <=>
                            /\ us[j].owner # Main
                            /\ \A i \in 1 .. n : i < j => ~(us[i].kind = "protected" /\ us[i].owner = us[j].owner)
    BY <1>1 DEF Yields
  <2>1. /\ bs[j].prevYield <= MaxAllow
        /\ bs[j].prevYield > 0 <=>
              /\ bs[j].owner # Main
              /\ \A i \in 1 .. m : i < j => ~(bs[i].kind = "protected" /\ bs[i].owner = bs[j].owner)
    BY <1>1, <1>2 DEF Yields
  <2>2. \A i \in 1 .. m : i < j => i \in 1 .. n
    BY <1>1
  <2>3. (\A i \in 1 .. m : i < j => ~(bs[i].kind = "protected" /\ bs[i].owner = bs[j].owner))
        <=> \A i \in 1 .. n : i < j => ~(us[i].kind = "protected" /\ us[i].owner = us[j].owner)
    BY <1>2, <2>2
  <2> QED BY <1>2, <2>1, <2>3
<1> QED BY <1>3, <1>4, <1>5, <1>6, <1>7

\* Stacks of the same height that differ in handlers give the same roles.
LEMMA RoleOfLike ==
    ASSUME NEW us \in Seq(Boundary), NEW bs \in Seq(Boundary), Like(us, bs), NEW n \in 0 .. Len(us),
           NEW s, NEW role, RoleAt(bs, n, s, role)
    PROVE  RoleAt(us, n, s, role)
<1>1. PICK m \in Nat : m = Len(us) /\ n \in 0 .. m
  OBVIOUS
<1>2. \A i \in 1 .. n : us[i].owner = bs[i].owner /\ RoleOf(us[i]) = RoleOf(bs[i])
  BY <1>1 DEF Like, RoleOf
<1> QED BY <1>2 DEF RoleAt

\* Targets of resumes in progress are distinct.
Distinct(fs) == \A i, j \in 1 .. Len(fs) : fs[i].target = fs[j].target => i = j

\* No state occurs twice in the chain.
LEMMA ChainIsDistinct ==
    ASSUME NEW fs \in Seq(Activation), Distinct(fs), NEW p \in 0 .. Len(fs), NEW q \in 0 .. Len(fs),
           Chain(fs, p) = Chain(fs, q)
    PROVE  p = q
<1>1. PICK n \in Nat : n = Len(fs)
  OBVIOUS
<1>2. \A i \in 1 .. n : fs[i].target \in Coroutines
  BY <1>1 DEF Activation
<1>3. \A i \in 1 .. n : fs[i].target # Main
  BY <1>2, StatesAssumption
<1> QED BY <1>1, <1>3 DEF Chain, Distinct

\* Boundaries of the running state are on top of those of the states that wait.
LEMMA LastOwned ==
    ASSUME NEW bs \in Seq(Boundary), NEW fs \in Seq(Activation), Owned(bs, fs), Distinct(fs),
           NEW j \in 1 .. Len(bs), bs[j].owner = Chain(fs, Len(fs))
    PROVE  \A k \in 1 .. Len(bs) : k >= j => bs[k].owner = bs[j].owner
<1>1. PICK n \in Nat, m \in Nat : n = Len(fs) /\ m = Len(bs)
  OBVIOUS
<1>2. ASSUME NEW k \in 1 .. m, k > j PROVE bs[k].owner = bs[j].owner
  <2>1. PICK q \in 0 .. n : bs[k].owner = Chain(fs, q)
    BY <1>1 DEF Owned
  <2>2. n <= q
    BY <1>1, <1>2, <2>1 DEF Owned
  <2>3. q = n
    BY <2>2
  <2> QED BY <1>1, <2>1, <2>3
<1> QED BY <1>1, <1>2

\* A new boundary of the running state.
LEMMA StackOfPush ==
    ASSUME NEW bs \in Seq(Boundary), NEW b \in Boundary, NEW fs \in Seq(Activation), Distinct(fs),
           Owned(bs, fs), StopsGrow(bs), Parents(bs), b.owner = Chain(fs, Len(fs)),
           \A j \in 1 .. Len(bs) : bs[j].owner = b.owner => bs[j].stop < b.stop,
           RoleAt(bs, Len(bs), b.owner, b.parent)
    PROVE  /\ Owned(Append(bs, b), fs) /\ StopsGrow(Append(bs, b)) /\ Parents(Append(bs, b))
           /\ RoleAt(Append(bs, b), Len(Append(bs, b)), b.owner, RoleOf(b))
<1>1. PICK n \in Nat, m \in Nat : n = Len(fs) /\ m = Len(bs)
  OBVIOUS
<1>2. PICK cs \in Seq(Boundary) : cs = Append(bs, b)
  BY AppendedIs
<1>3. Len(cs) = m + 1 /\ cs[m + 1] = b /\ \A i \in 1 .. m : cs[i] = bs[i]
  BY <1>1, <1>2, AppendedIs
<1>4. \A i \in 1 .. m + 1 : i \in 1 .. m \/ i = m + 1
  OBVIOUS
<1>5. \A q \in 0 .. n : Chain(fs, q) = b.owner => q = n
  <2>1. n \in 0 .. n
    OBVIOUS
  <2> QED BY <1>1, <2>1, ChainIsDistinct
<1>6. Owned(cs, fs)
  <2>1. \A j \in 1 .. m + 1 : \E p \in 0 .. n : cs[j].owner = Chain(fs, p)
    <3>1. n \in 0 .. n
      OBVIOUS
    <3>2. \A j \in 1 .. m : \E p \in 0 .. n : bs[j].owner = Chain(fs, p)
      BY <1>1 DEF Owned
    <3> QED BY <1>1, <1>3, <1>4, <3>1, <3>2
  <2>2. ASSUME NEW j \in 1 .. m + 1, NEW k \in 1 .. m + 1, NEW p \in 0 .. n, NEW q \in 0 .. n,
               j < k, cs[j].owner = Chain(fs, p), cs[k].owner = Chain(fs, q)
        PROVE  p <= q
    <3>1. CASE k = m + 1
      BY <1>3, <1>5, <2>2, <3>1
    <3>2. CASE k # m + 1
      <4>1. k \in 1 .. m
        BY <3>2
      <4>2. j \in 1 .. m
        BY <2>2, <4>1
      <4> QED BY <1>1, <1>3, <2>2, <4>1, <4>2 DEF Owned
    <3> QED BY <3>1, <3>2
  <2> QED BY <1>1, <1>3, <2>1, <2>2 DEF Owned
<1>7. StopsGrow(cs)
  <2>1. ASSUME NEW j \in 1 .. m + 1, NEW k \in 1 .. m + 1, j < k, cs[j].owner = cs[k].owner
        PROVE  cs[j].stop < cs[k].stop
    <3>1. CASE k = m + 1
      <4>1. j \in 1 .. m
        BY <2>1, <3>1
      <4> QED BY <1>1, <1>3, <2>1, <3>1, <4>1
    <3>2. CASE k # m + 1
      <4>1. k \in 1 .. m
        BY <3>2
      <4>2. j \in 1 .. m
        BY <2>1, <4>1
      <4> QED BY <1>1, <1>3, <2>1, <4>1, <4>2 DEF StopsGrow
    <3> QED BY <3>1, <3>2
  <2> QED BY <1>3, <2>1 DEF StopsGrow
<1>8. Parents(cs)
  <2>1. ASSUME NEW j \in 1 .. m + 1 PROVE RoleAt(cs, j - 1, cs[j].owner, cs[j].parent)
    <3>1. \A i \in 1 .. j - 1 : cs[i] = bs[i]
      BY <1>3
    <3>2. RoleAt(bs, j - 1, cs[j].owner, cs[j].parent)
      <4>1. CASE j = m + 1
        <5>1. j - 1 = m
          BY <4>1
        <5> QED BY <1>1, <1>3, <4>1, <5>1
      <4>2. CASE j # m + 1
        <5>1. j \in 1 .. m
          BY <4>2
        <5> QED BY <1>1, <1>3, <5>1 DEF Parents
      <4> QED BY <4>1, <4>2
    <3> QED BY <3>1, <3>2 DEF RoleAt
  <2> QED BY <1>3, <2>1 DEF Parents
<1>9. RoleAt(cs, m + 1, b.owner, RoleOf(b))
  <2>1. m + 1 \in 1 .. m + 1 /\ \A k \in 1 .. m + 1 : ~(k > m + 1)
    OBVIOUS
  <2> QED BY <1>3, <2>1 DEF RoleAt
<1> QED BY <1>2, <1>3, <1>6, <1>7, <1>8, <1>9

\* A resume does not disturb the boundaries below it ...
LEMMA OwnedGrown ==
    ASSUME NEW bs \in Seq(Boundary), NEW fs \in Seq(Activation), NEW f \in Activation,
           Owned(bs, fs), f.target \notin Targets(fs)
    PROVE  Owned(bs, Append(fs, f)) /\ \A j \in 1 .. Len(bs) : bs[j].owner # f.target
<1>1. PICK n \in Nat, m \in Nat : n = Len(fs) /\ m = Len(bs)
  OBVIOUS
<1>2. PICK gs \in Seq(Activation) : gs = Append(fs, f)
  BY AppendedIs
<1>3. Len(gs) = n + 1 /\ gs[n + 1] = f /\ \A i \in 1 .. n : gs[i] = fs[i]
  BY <1>1, <1>2, AppendedIs
<1>4. \A p \in 0 .. n : Chain(gs, p) = Chain(fs, p)
  BY <1>3 DEF Chain
<1>5. \A p \in 0 .. n : Chain(fs, p) # f.target
  <2>1. f.target # Main
    BY StatesAssumption DEF Activation
  <2>2. \A p \in 1 .. n : fs[p].target # f.target
    BY <1>1 DEF Targets
  <2> QED BY <2>1, <2>2 DEF Chain
<1>6. \A j \in 1 .. m : \E p \in 0 .. n : bs[j].owner = Chain(fs, p)
  BY <1>1 DEF Owned
<1>7. \A j \in 1 .. m : bs[j].owner # f.target
  BY <1>5, <1>6
<1>8. Chain(gs, n + 1) = f.target
  BY <1>3 DEF Chain
<1>9. \A p \in 0 .. n + 1 : p \in 0 .. n \/ p = n + 1
  OBVIOUS
<1>10. \A j \in 1 .. m : \E p \in 0 .. n + 1 : bs[j].owner = Chain(gs, p)
  <2>1. \A p \in 0 .. n : p \in 0 .. n + 1
    OBVIOUS
  <2> QED BY <1>4, <1>6, <2>1
<1>11. ASSUME NEW j \in 1 .. m, NEW k \in 1 .. m, NEW p \in 0 .. n + 1, NEW q \in 0 .. n + 1,
               j < k, bs[j].owner = Chain(gs, p), bs[k].owner = Chain(gs, q)
       PROVE  p <= q
  <2>1. p \in 0 .. n /\ q \in 0 .. n
    BY <1>7, <1>8, <1>9, <1>11
  <2>2. bs[j].owner = Chain(fs, p) /\ bs[k].owner = Chain(fs, q)
    BY <1>4, <1>11, <2>1
  <2> QED BY <1>1, <1>11, <2>1, <2>2 DEF Owned
<1> QED BY <1>1, <1>2, <1>3, <1>7, <1>10, <1>11 DEF Owned

\* ... and neither does its end, when its target has no boundary.
LEMMA OwnedShrunk ==
    ASSUME NEW bs \in Seq(Boundary), NEW fs \in Seq(Activation), fs # <<>>, Owned(bs, fs),
           \A j \in 1 .. Len(bs) : bs[j].owner # Last(fs).target
    PROVE  Owned(bs, Front(fs))
<1>1. PICK n \in Nat : /\ Len(fs) = n + 1 /\ Len(Front(fs)) = n /\ Last(fs) = fs[n + 1]
                       /\ Front(fs) \in Seq(Activation)
                       /\ \A i \in 1 .. n : Front(fs)[i] = fs[i]
  BY FramesSplit
<1>2. PICK gs \in Seq(Activation) : gs = Front(fs)
  BY <1>1
<1>3. \A p \in 0 .. n : p \in 0 .. n + 1 /\ Chain(gs, p) = Chain(fs, p)
  BY <1>1, <1>2 DEF Chain
<1>4. Chain(fs, n + 1) = Last(fs).target
  BY <1>1 DEF Chain
<1>5. \A j \in 1 .. Len(bs) : \E p \in 0 .. n + 1 : bs[j].owner = Chain(fs, p)
  BY <1>1 DEF Owned
<1>6. \A p \in 0 .. n + 1 : p \in 0 .. n \/ p = n + 1
  OBVIOUS
<1>7. \A j \in 1 .. Len(bs) : \E p \in 0 .. n : bs[j].owner = Chain(gs, p)
  BY <1>3, <1>4, <1>5, <1>6
<1>8. \A j, k \in 1 .. Len(bs), p, q \in 0 .. n :
          j < k /\ bs[j].owner = Chain(gs, p) /\ bs[k].owner = Chain(gs, q) => p <= q
  BY <1>1, <1>3 DEF Owned
<1> QED BY <1>1, <1>2, <1>7, <1>8 DEF Owned


\* The boundaries of a turn that delivers one lose the last.
LEMMA BoundariesLeft ==
    ASSUME Types, TurnInv
    PROVE  /\ Boundaries \in Seq(Boundary) /\ boundaries \in Seq(Boundary)
           /\ Len(Boundaries) <= Len(boundaries)
           /\ \A i \in 1 .. Len(Boundaries) : Boundaries[i] = boundaries[i]
           /\ turn.do \notin {"finishProtected", "finishHelper"} => Boundaries = boundaries
           /\ turn.do \in {"finishProtected", "finishHelper"} =>
                 /\ Len(boundaries) \in 1 .. Len(boundaries)
                 /\ Len(boundaries) = Len(Boundaries) + 1
<1>1. boundaries \in Seq(Boundary)
  BY DEF Types
<1>2. PICK m \in Nat : m = Len(boundaries)
  BY <1>1
<1>3. CASE turn.do \in {"finishProtected", "finishHelper"}
  <2>1. PopsBoundary = m /\ PopsBoundary # 0
    BY <1>2, <1>3, BoundariesIs DEF TurnInv
  <2>2. Boundaries = RemoveAt(boundaries, m) /\ m \in 1 .. m
    BY <1>2, <2>1, BoundariesIs
  <2>3. /\ Boundaries \in Seq(Boundary) /\ Len(Boundaries) = m - 1
        /\ \A i \in 1 .. m - 1 : Boundaries[i] = IF i < m THEN boundaries[i] ELSE boundaries[i + 1]
    BY <1>1, <1>2, <2>2, RemoveAtIs
  <2>4. \A i \in 1 .. m - 1 : i < m
    OBVIOUS
  <2> QED BY <1>1, <1>2, <1>3, <2>2, <2>3, <2>4
<1>4. CASE turn.do \notin {"finishProtected", "finishHelper"}
  <2>1. PopsBoundary = 0
    BY <1>4 DEF PopsBoundary
  <2> QED BY <1>1, <1>2, <1>4, <2>1, BoundariesIs
<1> QED BY <1>3, <1>4

\* No call of the state s ends above the role that is innermost on it.
LEMMA RoleIsInner ==
    ASSUME NEW bs \in Seq(Boundary), NEW s, NEW role, StopsGrow(bs), RoleAt(bs, Len(bs), s, role)
    PROVE  /\ \A j \in 1 .. Len(bs) : bs[j].owner = s => bs[j].stop <= role.stop
           /\ role \in RoleSet
           /\ role.kind = "program" => role = ProgramRole /\ \A j \in 1 .. Len(bs) : bs[j].owner # s
           /\ role.kind # "program" =>
                 \E i \in 1 .. Len(bs) : /\ bs[i].owner = s /\ role = RoleOf(bs[i])
                                         /\ \A k \in 1 .. Len(bs) : k > i => bs[k].owner # s
           /\ role.kind # "finalizer"
<1>1. PICK m \in Nat : m = Len(bs)
  OBVIOUS
<1>2. CASE (\A i \in 1 .. m : bs[i].owner # s) /\ role = ProgramRole
  BY <1>1, <1>2 DEF ProgramRole, Role, RoleSet, RoleKinds
<1>3. CASE \E i \in 1 .. m : /\ bs[i].owner = s /\ (\A k \in 1 .. m : k > i => bs[k].owner # s)
                             /\ role = RoleOf(bs[i])
  <2>1. PICK i \in 1 .. m : /\ bs[i].owner = s /\ (\A k \in 1 .. m : k > i => bs[k].owner # s)
                            /\ role = RoleOf(bs[i])
    BY <1>3
  <2>2. bs[i] \in Boundary
    BY <1>1
  <2>3. role.stop = bs[i].stop /\ role.kind = bs[i].kind /\ role \in RoleSet /\ bs[i].stop \in Nat
        /\ role.kind \in {"protected", "helper"}
    BY <2>1, <2>2 DEF RoleOf, Role, Boundary, RoleSet, RoleKinds
  <2>4. ASSUME NEW j \in 1 .. m, bs[j].owner = s PROVE bs[j].stop <= role.stop
    <3>1. j = i \/ j < i
      BY <2>1, <2>4
    <3>2. bs[j] \in Boundary
      BY <1>1
    <3>3. bs[j].stop \in Nat
      BY <3>2 DEF Boundary
    <3> QED BY <1>1, <2>1, <2>3, <2>4, <3>1, <3>3 DEF StopsGrow
  <2> QED BY <1>1, <2>1, <2>3, <2>4
<1> QED BY <1>1, <1>2, <1>3 DEF RoleAt

\* What the proofs of this part start from.
Grounds == Types /\ ChainInv /\ ThreadInv /\ DrainInv /\ NestInv

\* The running state is the end of the chain, and nobody that waits is running.
LEMMA EndOfChain ==
    ASSUME Types, ChainInv, ThreadInv
    PROVE  /\ Frames \in Seq(Activation) /\ Distinct(Frames) /\ Linked(Frames)
           /\ current = Chain(Frames, Len(Frames)) /\ Len(Frames) \in 0 .. Len(Frames)
           /\ \A i \in 1 .. Len(Frames) : /\ Frames[i].caller = Chain(Frames, i - 1)
                                          /\ Frames[i].caller # current
                                          /\ Frames[i].caller \in States
           /\ current = Main <=> Frames = <<>>
<1>1. /\ frames \in Seq(Activation) /\ Len(Frames) <= Len(frames) /\ Frames \in Seq(Activation)
      /\ \A i \in 1 .. Len(Frames) : Frames[i] = frames[i]
  BY FramesIs DEF Types
<1>2. Linked(Frames)
  BY <1>1, LinkedPrefix DEF ChainInv
<1>3. PICK fs \in Seq(Activation) : fs = Frames
  BY <1>1
<1>4. PICK n \in Nat : n = Len(fs)
  BY <1>1
<1>5. Distinct(fs)
  BY <1>3 DEF ThreadInv, Distinct
<1>6. current = IF fs = <<>> THEN Main ELSE fs[n].target
  BY <1>3, <1>4 DEF ChainInv, Last
<1>7. fs = <<>> <=> n = 0
  BY <1>4, EmptySeq
<1>8. current = Chain(fs, n) /\ n \in 0 .. n
  BY <1>6, <1>7 DEF Chain
<1>9. ASSUME NEW i \in 1 .. n
      PROVE  fs[i].caller = Chain(fs, i - 1) /\ fs[i].caller # current /\ fs[i].caller \in States
  <2>1. fs[i].caller = IF i = 1 THEN Main ELSE fs[i - 1].target
    BY <1>2, <1>3, <1>4 DEF Linked
  <2>2. fs[i].caller = Chain(fs, i - 1)
    BY <2>1 DEF Chain
  <2>3. i - 1 \in 0 .. n /\ i - 1 # n
    OBVIOUS
  <2>4. Chain(fs, i - 1) # Chain(fs, n)
    BY <1>4, <1>5, <1>8, <2>3, ChainIsDistinct
  <2>5. fs[i] \in Activation
    BY <1>4
  <2> QED BY <1>8, <2>2, <2>4, <2>5 DEF Activation
<1>10. current = Main <=> fs = <<>>
  <2>1. n # 0 => fs[n] \in Activation
    BY <1>4
  <2>2. n # 0 => fs[n].target # Main
    BY <2>1, StatesAssumption DEF Activation
  <2> QED BY <1>6, <1>7, <2>2
<1> QED BY <1>2, <1>3, <1>4, <1>5, <1>8, <1>9, <1>10

\* The last boundary of the running state is the last of all.
LEMMA OwnIsLast ==
    ASSUME NEW bs \in Seq(Boundary), NEW fs \in Seq(Activation), Owned(bs, fs), Distinct(fs),
           NEW role, RoleAt(bs, Len(bs), Chain(fs, Len(fs)), role), role.kind \in {"protected", "helper"}
    PROVE  /\ Len(bs) \in 1 .. Len(bs) /\ bs[Len(bs)].owner = Chain(fs, Len(fs))
           /\ role = RoleOf(bs[Len(bs)]) /\ bs[Len(bs)].kind = role.kind
           /\ IndexOfKind(role.kind, bs) = Len(bs)
<1>1. PICK m \in Nat : m = Len(bs)
  OBVIOUS
<1>2. role # ProgramRole
  BY DEF ProgramRole, Role
<1>3. PICK i \in 1 .. m : /\ bs[i].owner = Chain(fs, Len(fs)) /\ role = RoleOf(bs[i])
                          /\ \A k \in 1 .. m : k > i => bs[k].owner # Chain(fs, Len(fs))
  BY <1>1, <1>2 DEF RoleAt
<1>4. \A k \in 1 .. m : k >= i => bs[k].owner = bs[i].owner
  BY <1>1, <1>3, LastOwned
<1>5. i = m
  <2>1. m \in 1 .. m /\ m >= i
    BY <1>3
  <2>2. bs[m].owner = Chain(fs, Len(fs))
    BY <1>3, <1>4, <2>1
  <2>3. ~(m > i)
    BY <1>3, <2>1, <2>2
  <2> QED BY <2>1, <2>3
<1>6. role.kind = bs[m].kind
  BY <1>3, <1>5 DEF RoleOf, Role
<1>7. PICK k : k = IndexOfKind(role.kind, bs)
  OBVIOUS
<1>8. /\ k \in 0 .. m /\ (k = 0 => \A j \in 1 .. m : bs[j].kind # role.kind)
      /\ \A j \in 1 .. m : j > k /\ k # 0 => bs[j].kind # role.kind
  BY <1>1, <1>7, IndexOfKindIs
<1>9. k = m
  <2>1. m \in 1 .. m
    BY <1>3
  <2> QED BY <1>6, <1>8, <2>1
<1> QED BY <1>1, <1>3, <1>5, <1>6, <1>7, <1>9

\* The call that the running code belongs to.
LEMMA Innermost ==
    ASSUME Grounds
    PROVE  /\ turn.role.stop \in Nat /\ turn.role.stop <= Len(calls[current]) /\ turn.role.stop < MaxDepth
           /\ turn.role.kind # "program" => turn.role.stop >= 1
           /\ \A j \in 1 .. Len(Boundaries) :
                 Boundaries[j].owner = current => Boundaries[j].stop <= turn.role.stop
           /\ GcFrames # <<>> =>
                 /\ Len(GcFrames) = 1 /\ turn.role.kind = "finalizer" /\ turn.role.stop = GcFrames[1].stop
                 /\ GcFrames[1] \in Drain /\ InFinalizerNow /\ ActiveDrain(GcFrames, current) = 1
                 /\ \A j \in 1 .. Len(Boundaries) :
                       Boundaries[j].owner = current => Boundaries[j].stop < turn.role.stop
           /\ GcFrames = <<>> => ~InFinalizerNow /\ turn.role.kind # "finalizer"
           /\ turn.role.kind \in {"protected", "helper"} =>
                 LET m == Len(Boundaries)
                 IN  /\ m \in 1 .. m /\ Boundaries[m].owner = current /\ Boundaries[m] \in Boundary
                     /\ turn.role = RoleOf(Boundaries[m]) /\ Boundaries[m].kind = turn.role.kind
                     /\ IndexOfKind(turn.role.kind, Boundaries) = m
           /\ turn.role.kind = "program" =>
                 turn.role = ProgramRole /\ \A j \in 1 .. Len(Boundaries) : Boundaries[j].owner # current
<1>1. PICK bs \in Seq(Boundary), fs \in Seq(Activation), gs \in Seq(Drain) :
          bs = Boundaries /\ fs = Frames /\ gs = GcFrames
  BY BoundariesIs, FramesIs, GcFramesIs DEF Grounds
<1>2. PICK m \in Nat : m = Len(bs)
  OBVIOUS
<1>3. /\ Owned(bs, fs) /\ StopsGrow(bs) /\ Distinct(fs) /\ current = Chain(fs, Len(fs))
      /\ Standing(bs, calls, current)
  BY <1>1, EndOfChain DEF Grounds, NestInv, StackInv
<1>4. \A j \in 1 .. m : bs[j] \in Boundary
  BY <1>2
<1>5. Len(calls[current]) \in Nat /\ Len(calls[current]) >= 1
  <2>1. calls[current] \in Seq(CallKinds)
    BY DEF Grounds, Types
  <2> QED BY <2>1 DEF Grounds, Types, NestInv, CallsInv, Bottoms
<1>6. \A j \in 1 .. m : bs[j].owner = current =>
          /\ bs[j].stop \in Nat /\ bs[j].stop <= Len(calls[current]) /\ bs[j].stop < MaxDepth
          /\ 1 <= bs[j].stop
  BY <1>2, <1>3, <1>4 DEF Standing, Boundary
<1>7. Len(gs) <= 1
  BY <1>1, GcFramesIs DEF Grounds, NestInv, GcInv, Types
<1>8. CASE gs = <<>>
  <2>1. RoleAt(bs, m, current, turn.role)
    BY <1>1, <1>2, <1>8 DEF Grounds, NestInv, RoleInv
  <2>2. /\ \A j \in 1 .. m : bs[j].owner = current => bs[j].stop <= turn.role.stop
        /\ turn.role.kind = "program" =>
              turn.role = ProgramRole /\ \A j \in 1 .. m : bs[j].owner # current
        /\ turn.role.kind # "program" => \E i \in 1 .. m : bs[i].owner = current /\ turn.role = RoleOf(bs[i])
        /\ turn.role.kind # "finalizer" /\ turn.role \in RoleSet
    <3>1. PICK r : r = turn.role
      OBVIOUS
    <3>2. StopsGrow(bs) /\ RoleAt(bs, Len(bs), current, r)
      BY <1>2, <1>3, <2>1, <3>1
    <3>3. /\ \A j \in 1 .. Len(bs) : bs[j].owner = current => bs[j].stop <= r.stop
          /\ r \in RoleSet
          /\ r.kind = "program" => r = ProgramRole /\ \A j \in 1 .. Len(bs) : bs[j].owner # current
          /\ r.kind # "program" =>
                \E i \in 1 .. Len(bs) : /\ bs[i].owner = current /\ r = RoleOf(bs[i])
                                        /\ \A k \in 1 .. Len(bs) : k > i => bs[k].owner # current
          /\ r.kind # "finalizer"
      BY <3>2, RoleIsInner
    <3> QED BY <1>2, <3>1, <3>3
  <2>3. /\ turn.role.stop \in Nat /\ turn.role.stop <= Len(calls[current]) /\ turn.role.stop < MaxDepth
        /\ turn.role.kind # "program" => turn.role.stop >= 1
    <3>1. CASE turn.role.kind = "program"
      BY <1>5, <2>2, <3>1, BoundsAssumption DEF ProgramRole, Role
    <3>2. CASE turn.role.kind # "program"
      <4>1. PICK i \in 1 .. m : bs[i].owner = current /\ turn.role = RoleOf(bs[i])
        BY <2>2, <3>2
      <4>2. turn.role.stop = bs[i].stop
        BY <4>1 DEF RoleOf, Role
      <4> QED BY <1>6, <4>1, <4>2
    <3> QED BY <3>1, <3>2
  <2>4. ~InFinalizerNow
    <3>1. Len(gs) = 0
      BY <1>8, EmptySeq
    <3>2. ActiveDrain(gs, current) \in 0 .. Len(gs)
      BY ActiveDrainIs
    <3> QED BY <1>1, <3>1, <3>2 DEF InFinalizerNow
  <2>5. ASSUME turn.role.kind \in {"protected", "helper"}
        PROVE  /\ m \in 1 .. m /\ bs[m].owner = current /\ bs[m] \in Boundary
               /\ turn.role = RoleOf(bs[m]) /\ bs[m].kind = turn.role.kind
               /\ IndexOfKind(turn.role.kind, bs) = m
    BY <1>2, <1>3, <1>4, <2>1, <2>5, OwnIsLast
  <2> HIDE DEF InFinalizerNow
  <2> QED BY <1>1, <1>2, <1>8, <2>2, <2>3, <2>4, <2>5
<1>9. CASE gs # <<>>
  <2>1. PICK g \in Drain : g = gs[1] /\ Len(gs) = 1
    <3>1. PICK n \in Nat : n = Len(gs)
      OBVIOUS
    <3>2. n # 0
      BY <1>9, <3>1, EmptySeq
    <3>3. n = 1
      BY <1>7, <3>1, <3>2
    <3>4. \A i \in 1 .. n : gs[i] \in Drain
      BY <3>1
    <3>5. 1 \in 1 .. n
      BY <3>3
    <3> QED BY <3>1, <3>3, <3>4, <3>5
  <2>2. /\ turn.role = Role("finalizer", g.stop) /\ g.owner = current /\ g.draining /\ g.stop \in Nat
        /\ 1 <= g.stop /\ g.stop <= Len(calls[current]) /\ g.stop < MaxDepth
        /\ g.resume.stop < g.stop /\ RoleAt(bs, m, current, g.resume)
    BY <1>1, <1>2, <1>9, <2>1 DEF Grounds, NestInv, RoleInv, GcInv, Drain
  <2>3. turn.role.kind = "finalizer" /\ turn.role.stop = g.stop
    BY <2>2 DEF Role
  <2>4. /\ \A j \in 1 .. m : bs[j].owner = current => bs[j].stop <= g.resume.stop
        /\ g.resume.stop \in Nat
    BY <1>2, <1>3, <2>2, RoleIsInner DEF RoleSet
  <2>5. \A j \in 1 .. m : bs[j].owner = current => bs[j].stop < turn.role.stop
    <3>1. PICK t \in Nat, r \in Nat : t = turn.role.stop /\ r = g.resume.stop /\ r < t
      BY <2>2, <2>3, <2>4
    <3>2. ASSUME NEW j \in 1 .. m, bs[j].owner = current PROVE bs[j].stop < t
      <4>1. PICK x \in Nat : x = bs[j].stop
        BY <1>6, <3>2
      <4>2. x <= r
        BY <2>4, <3>1, <3>2, <4>1
      <4>3. x < t
        BY <3>1, <4>2
      <4> QED BY <4>1, <4>3
    <3> QED BY <3>1, <3>2
  <2>6. ActiveDrain(gs, current) = 1
    <3>1. PICK k : k = ActiveDrain(gs, current)
      OBVIOUS
    <3>2. k \in 0 .. 1 /\ (k = 0 => \A j \in 1 .. 1 : ~(gs[j].draining /\ gs[j].owner = current))
      BY <2>1, <3>1, ActiveDrainIs
    <3> QED BY <2>1, <2>2, <3>1, <3>2
  <2>7. InFinalizerNow
    BY <1>1, <2>6 DEF InFinalizerNow
  <2>8. \A j \in 1 .. m : bs[j].owner = current => bs[j].stop <= turn.role.stop
    BY <1>6, <2>2, <2>3, <2>5
  <2> HIDE DEF InFinalizerNow
  <2> QED BY <1>1, <1>2, <1>9, <2>1, <2>2, <2>3, <2>5, <2>6, <2>7, <2>8
<1> QED BY <1>1, <1>8, <1>9

\* The frames cs, which differ from those of the running state above its role.
Local(cs) ==
    /\ cs \in Seq(CallKinds) /\ Len(cs) >= 1 /\ Len(cs) <= MaxDepth /\ turn.role.stop <= Len(cs)
    /\ \A i \in 1 .. Len(cs) : i <= turn.role.stop \/ i = 1 => cs[i] = calls[current][i]
    /\ calls' = [calls EXCEPT ![current] = cs]

\* What the running state does above its role concerns nobody that waits.
LEMMA LocalStep ==
    ASSUME Grounds, NEW cs, Local(cs), started \subseteq started', current \in started' \cup {Main}
    PROVE  /\ Standing(Boundaries, calls', current)
           /\ (\A j \in 1 .. Len(Boundaries) :
                  Boundaries[j].owner = current => Boundaries[j].stop < Len(cs))
                 => \A cur : Standing(Boundaries, calls', cur)
           /\ Waiting(Frames, calls', started')
           /\ Bottoms(calls', started')
           /\ calls'[current] = cs /\ \A s \in States \ {current} : calls'[s] = calls[s]
<1>1. PICK bs \in Seq(Boundary), fs \in Seq(Activation) : bs = Boundaries /\ fs = Frames
  BY BoundariesIs, FramesIs DEF Grounds
<1>2. PICK m \in Nat, n \in Nat, l \in Nat, r \in Nat :
          m = Len(bs) /\ n = Len(fs) /\ l = Len(cs) /\ r = turn.role.stop
  BY Innermost DEF Local
<1>3. calls'[current] = cs /\ \A s \in States \ {current} : calls'[s] = calls[s]
  BY DEF Grounds, Types, Local
<1>4. 1 <= l /\ l <= MaxDepth /\ r <= l /\ \A i \in 1 .. l : i <= r \/ i = 1 => cs[i] = calls[current][i]
  BY <1>2 DEF Local
<1>5. ASSUME NEW j \in 1 .. m
      PROVE  LET b == bs[j]
             IN  /\ 1 <= b.stop /\ b.stop <= Len(calls'[b.owner]) /\ b.stop < MaxDepth
                 /\ b.native => calls'[b.owner][b.stop] = "native"
                 /\ b.kind = "protected" => b.native
                 /\ b.owner # current => b.stop < Len(calls'[b.owner])
  <2>1. bs[j].owner \in States /\ bs[j].stop \in Nat
    <3>1. bs[j] \in Boundary
      BY <1>2
    <3> QED BY <3>1 DEF Boundary
  <2>2. PICK x \in Nat, s \in States : x = bs[j].stop /\ s = bs[j].owner
    BY <2>1
  <2>3. /\ 1 <= x /\ x <= Len(calls[s]) /\ x < MaxDepth
        /\ bs[j].native => calls[s][x] = "native"
        /\ bs[j].kind = "protected" => bs[j].native
        /\ s # current => x < Len(calls[s])
    BY <1>1, <1>2, <2>2 DEF Grounds, NestInv, StackInv, Standing
  <2>4. CASE s # current
    BY <1>3, <2>2, <2>3, <2>4
  <2>5. CASE s = current
    <3>1. x <= r
      BY <1>1, <1>2, <2>2, <2>5, Innermost
    <3>2. x \in 1 .. l
      BY <1>4, <2>3, <3>1
    <3>3. cs[x] = calls[current][x]
      BY <1>4, <3>1, <3>2
    <3> QED BY <1>2, <1>3, <2>2, <2>3, <2>5, <3>2, <3>3
  <2> QED BY <2>4, <2>5
<1>6. Standing(bs, calls', current)
  BY <1>2, <1>5 DEF Standing
<1>7. ASSUME \A j \in 1 .. m : bs[j].owner = current => bs[j].stop < l, NEW cur
      PROVE  Standing(bs, calls', cur)
  <2>1. \A j \in 1 .. m : bs[j].stop < Len(calls'[bs[j].owner])
    BY <1>2, <1>3, <1>5, <1>7
  <2> QED BY <1>2, <1>5, <2>1 DEF Standing
<1>8. Waiting(fs, calls', started')
  <2>1. \A i \in 1 .. n : fs[i].caller # current /\ fs[i].caller \in States
    BY <1>1, <1>2, EndOfChain DEF Grounds
  <2>2. \A i \in 1 .. n : calls'[fs[i].caller] = calls[fs[i].caller]
    BY <1>3, <2>1
  <2>3. Waiting(fs, calls, started)
    BY <1>1 DEF Grounds, NestInv
  <2> QED BY <1>2, <2>2, <2>3 DEF Waiting
<1>9. Bottoms(calls', started')
  <2>1. Bottoms(calls, started)
    BY DEF Grounds, NestInv, CallsInv
  <2>2. ASSUME NEW s \in States PROVE Len(calls'[s]) >= 1 /\ Len(calls'[s]) <= MaxDepth
    BY <1>2, <1>3, <1>4, <2>1 DEF Bottoms
  <2>3. cs[1] = calls[current][1]
    <3>1. 1 \in 1 .. l
      BY <1>4
    <3> QED BY <1>4, <3>1
  <2>4. ASSUME NEW s \in States PROVE calls'[s][1] = calls[s][1]
    BY <1>3, <2>3
  <2>5. ASSUME NEW c \in Coroutines \ started' PROVE Len(calls'[c]) = 1
    <3>1. c # current /\ c \in States /\ c \in Coroutines \ started
      BY StatesAssumption DEF States
    <3> QED BY <1>3, <2>1, <3>1 DEF Bottoms
  <2>6. Main \in States /\ \A c \in Coroutines : c \in States
    BY DEF States
  <2> QED BY <2>1, <2>2, <2>4, <2>5, <2>6 DEF Bottoms
<1> QED BY <1>1, <1>2, <1>3, <1>6, <1>7, <1>8, <1>9

\* The frames of the running state as they are, with one more, with one less, and
\* unwound to its role.
LEMMA LocalSteps ==
    ASSUME Grounds
    PROVE  /\ calls[current] \in Seq(CallKinds) /\ Len(calls[current]) >= 1
           /\ calls' = calls => Local(calls[current])
           /\ \A k \in CallKinds :
                 Len(calls[current]) < MaxDepth /\ calls' = [calls EXCEPT ![current] = Append(calls[current], k)]
                 => Local(Append(calls[current], k))
           /\ Len(calls[current]) > 1 /\ turn.role.stop < Len(calls[current])
              /\ calls' = [calls EXCEPT ![current] = Front(calls[current])]
              => Local(Front(calls[current])) /\ Len(Front(calls[current])) = Len(calls[current]) - 1
           /\ turn.role.kind # "program" /\ calls' = Unwound(current, turn.role.stop)
              => \E cs \in Seq(CallKinds) : Local(cs) /\ Len(cs) = turn.role.stop
<1>1. calls[current] \in Seq(CallKinds) /\ calls \in [States -> Seq(CallKinds)] /\ current \in States
  BY DEF Grounds, Types
<1>2. PICK cs \in Seq(CallKinds) : cs = calls[current]
  BY <1>1
<1>3. PICK l \in Nat, r \in Nat : l = Len(cs) /\ r = turn.role.stop
  BY <1>2, Innermost
<1>4. 1 <= l /\ l <= MaxDepth /\ r <= l /\ MaxDepth \in Nat /\ (turn.role.kind # "program" => r >= 1)
  BY <1>1, <1>2, <1>3, Innermost, BoundsAssumption DEF Grounds, NestInv, CallsInv, Bottoms
<1>5. ASSUME calls' = calls PROVE Local(cs)
  <2>1. calls' = [calls EXCEPT ![current] = cs]
    BY <1>1, <1>2, <1>5
  <2> QED BY <1>2, <1>3, <1>4, <2>1 DEF Local
<1>6. ASSUME NEW k \in CallKinds, l < MaxDepth, calls' = [calls EXCEPT ![current] = Append(cs, k)]
      PROVE  Local(Append(cs, k))
  <2>1. PICK ds : ds = Append(cs, k)
    OBVIOUS
  <2>2. ds \in Seq(CallKinds) /\ Len(ds) = l + 1 /\ \A i \in 1 .. l : ds[i] = cs[i]
    BY <1>3, <2>1, AppendedIs
  <2>3. \A i \in 1 .. l + 1 : i <= r \/ i = 1 => i \in 1 .. l
    BY <1>4
  <2>4. calls' = [calls EXCEPT ![current] = ds]
    BY <1>6, <2>1
  <2>5. l + 1 >= 1 /\ l + 1 <= MaxDepth /\ r <= l + 1
    BY <1>4, <1>6
  <2>6. \A i \in 1 .. l + 1 : i <= r \/ i = 1 => ds[i] = calls[current][i]
    BY <1>2, <2>2, <2>3
  <2> QED BY <1>3, <2>1, <2>2, <2>4, <2>5, <2>6 DEF Local
<1>7. ASSUME NEW ds \in Seq(CallKinds), NEW d \in 1 .. l, Len(ds) = d, r <= d, \A i \in 1 .. d : ds[i] = cs[i],
             calls' = [calls EXCEPT ![current] = ds]
      PROVE  Local(ds)
  <2>1. d >= 1 /\ d <= MaxDepth
    BY <1>4
  <2> QED BY <1>2, <1>3, <1>7, <2>1 DEF Local
<1>8. ASSUME l > 1, r < l, calls' = [calls EXCEPT ![current] = Front(cs)]
      PROVE  Local(Front(cs)) /\ Len(Front(cs)) = l - 1
  <2>1. cs # <<>>
    BY <1>3, <1>8, EmptySeq
  <2>2. PICK ds : ds = Front(cs)
    OBVIOUS
  <2>3. ds \in Seq(CallKinds) /\ Len(ds) = l - 1 /\ \A i \in 1 .. l - 1 : ds[i] = cs[i]
    BY <1>3, <2>1, <2>2, FrontIs
  <2>4. l - 1 \in 1 .. l /\ r <= l - 1
    BY <1>8
  <2>5. Local(ds)
    BY <1>7, <1>8, <2>2, <2>3, <2>4
  <2> QED BY <2>2, <2>3, <2>5
<1>9. ASSUME turn.role.kind # "program", calls' = Unwound(current, r)
      PROVE  \E ds \in Seq(CallKinds) : Local(ds) /\ Len(ds) = r
  <2>1. PICK ds : ds = SubSeq(cs, 1, r)
    OBVIOUS
  <2>2. ds \in Seq(CallKinds) /\ Len(ds) = r /\ \A i \in 1 .. r : ds[i] = cs[i]
    BY <1>3, <1>4, <2>1, PrefixIs
  <2>3. (IF r < l THEN r ELSE l) = r
    BY <1>4
  <2>4. calls' = [calls EXCEPT ![current] = ds]
    BY <1>2, <1>3, <1>9, <2>1, <2>3 DEF Unwound
  <2>5. r \in 1 .. l /\ r <= r
    BY <1>4, <1>9
  <2>6. Local(ds)
    BY <1>7, <2>2, <2>4, <2>5
  <2> QED BY <2>2, <2>6
<1> QED BY <1>1, <1>2, <1>3, <1>4, <1>5, <1>6, <1>8, <1>9

\* The permissions al suit the boundaries and resumes while code runs.
Permits(al) ==
    /\ al[Main] = 0 /\ \A s \in States : al[s] <= MaxAllow
    /\ \A s \in States : HasBarrier(Boundaries, s) => al[s] = 0
    /\ \A i \in 1 .. Len(Frames) : al[Frames[i].target] > 0 \/ HasBarrier(Boundaries, Frames[i].target)

\* They do outside of driver actions.
LEMMA PermitsNow == ASSUME Grounds, mode # "action" PROVE Permits(allow)
BY DEF Grounds, NestInv, AllowInv, Permits

\* A step of a turn that goes on.
LEMMA TurnGoesOn ==
    ASSUME Grounds, NEW cs, Local(cs), started \subseteq started', current \in started' \cup {Main},
           UNCHANGED <<turn, owed, current, frames, boundaries, outcome>>, UNCHANGED gcVars,
           mode' \in {"lua", "returned", "yielded", "raised"}, Permits(allow'),
           GcFrames # <<>> /\ mode' = "lua" => \A k \in 1 .. Len(cs) : k > turn.role.stop => cs[k] = "lua",
           GcFrames # <<>> /\ mode' # "lua" => Len(cs) = turn.role.stop
    PROVE  NestInv'
<1>1. Frames' = Frames /\ Boundaries' = Boundaries /\ GcFrames' = GcFrames
  <2>1. turn' = turn /\ owed' = owed /\ frames' = frames /\ boundaries' = boundaries /\ gcFrames' = gcFrames
    BY DEF gcVars
  <2> QED BY <2>1 DEF Frames, Boundaries, PopsBoundary, GcFrames
<1>2. PopsBoundary' = PopsBoundary
  BY DEF PopsBoundary
<1>3. /\ mode' \in {"lua", "returned", "yielded", "raised"} /\ mode' # "idle" /\ mode' # "action"
      /\ turn' = turn /\ owed' = owed /\ current' = current /\ frames' = frames /\ boundaries' = boundaries
      /\ outcome' = outcome /\ gcFrames' = gcFrames /\ queue' = queue /\ found' = found /\ begun' = begun
  BY DEF gcVars
<1>4. /\ Standing(Boundaries, calls', current) /\ Waiting(Frames, calls', started')
      /\ Bottoms(calls', started') /\ calls'[current] = cs
  BY LocalStep
<1>5. IdleInv'
  BY <1>3 DEF IdleInv, Grounds, NestInv
<1>6. StackInv'
  BY <1>1, <1>3, <1>4 DEF StackInv, Grounds, NestInv
<1>7. RoleInv'
  BY <1>1, <1>3 DEF RoleInv, Grounds, NestInv
<1>8. Waiting(Frames, calls, started)'
  BY <1>1, <1>4
<1>9. CallsInv'
  BY <1>3, <1>4 DEF CallsInv
<1>10. TurnInv'
  BY <1>2, <1>3 DEF TurnInv, Grounds, NestInv
<1>11. QueueInv'
  BY <1>1, <1>3 DEF QueueInv, Grounds, NestInv
<1>12. AllowInv'
  BY <1>1, <1>3 DEF AllowInv, Grounds, NestInv, Permits
<1>13. GcInv'
  <2>1. GcInv
    BY DEF Grounds, NestInv
  <2>2. CASE GcFrames = <<>>
    BY <1>1, <1>3, <2>1, <2>2 DEF GcInv
  <2>3. CASE GcFrames # <<>>
    <3>1. PICK g \in Drain : g = GcFrames[1] /\ turn.role.stop = g.stop
      BY <2>3, Innermost
    <3>2. PICK t \in Nat, l \in Nat : t = g.stop /\ l = Len(cs)
      BY <3>1, Innermost DEF Local
    <3>3. 1 <= t /\ t <= l /\ t < MaxDepth /\ (g.explicit => calls[current][t] = "native")
      BY <2>1, <2>3, <3>1, <3>2 DEF GcInv, Local
    <3>4. g.explicit => cs[t] = "native"
      <4>1. t \in 1 .. l /\ t <= t
        BY <3>3
      <4>2. cs[t] = calls[current][t]
        BY <3>1, <3>2, <4>1 DEF Local
      <4> QED BY <3>3, <4>2
    <3>5. /\ g.owner = current /\ g.draining /\ g.running # 0 /\ g.resume.stop < g.stop
          /\ RoleAt(Boundaries, Len(Boundaries), current, g.resume)
      BY <2>1, <2>3, <3>1 DEF GcInv
    <3>6. /\ mode' = "lua" => \A k \in 1 .. l : k > t => cs[k] = "lua"
          /\ mode' # "lua" => l = t
      BY <2>3, <3>1, <3>2
    <3>7. /\ Len(gcFrames) <= 1
          /\ turn.do = "deliverCollection" => gcFrames[1].owner = current /\ gcFrames[1].resume = turn.role
      BY <2>1 DEF GcInv
    <3> QED BY <1>1, <1>3, <1>4, <2>3, <3>1, <3>2, <3>3, <3>4, <3>5, <3>6, <3>7 DEF GcInv
  <2> QED BY <2>2, <2>3
<1> QED BY <1>5, <1>6, <1>7, <1>8, <1>9, <1>10, <1>11, <1>12, <1>13 DEF NestInv

\* What a turn makes of its frames when it settles, under a drain.
LEMMA SettlesAbove ==
    ASSUME Grounds, NEW cs \in Seq(CallKinds), Len(cs) >= turn.role.stop, Len(cs) >= 1, GcFrames # <<>>,
           \A k \in 1 .. Len(cs) : k > turn.role.stop => cs[k] = "lua"
    PROVE  Settles(cs, turn.role) # "lua" => Len(cs) = turn.role.stop
<1>1. turn.role.kind = "finalizer" /\ turn.role.stop \in Nat
  BY Innermost
<1>2. PICK l \in Nat, r \in Nat : l = Len(cs) /\ r = turn.role.stop
  BY <1>1
<1>3. SUFFICES ASSUME l # r PROVE Settles(cs, turn.role) = "lua"
  BY <1>2
<1>4. l > r
  BY <1>2, <1>3
<1>5. cs[l] = "lua"
  <2>1. l \in 1 .. l
    BY <1>2
  <2> QED BY <1>2, <1>4, <2>1
<1>6. Last(cs) = "lua"
  BY <1>2, <1>5 DEF Last
<1>7. ~(Len(cs) <= turn.role.stop)
  BY <1>2, <1>4
<1> QED BY <1>1, <1>6, <1>7 DEF Settles

\* Under a drain, the code that runs is the callback's.
LEMMA CodeAbove ==
    ASSUME Grounds, mode = "lua", GcFrames # <<>>
    PROVE  \A k \in 1 .. Len(calls[current]) : k > turn.role.stop => calls[current][k] = "lua"
BY Innermost DEF Grounds, NestInv, GcInv

\* The code that runs belongs to a state that was started.
LEMMA RunningIsStarted ==
    ASSUME Grounds, mode # "action" PROVE current \in started \cup {Main}
BY DEF Grounds, NestInv, CallsInv

\* The steps of the Lua code.
LEMMA NestRuns ==
    ASSUME Grounds, Runs PROVE NestInv'
<1>1. PICK cs \in Seq(CallKinds) : cs = calls[current]
  BY LocalSteps
<1>2. PICK l \in Nat, r \in Nat : l = Len(cs) /\ r = turn.role.stop
  BY <1>1, Innermost
<1>3. 1 <= l /\ r <= l /\ (turn.role.kind # "program" => r >= 1) /\ (turn.role.kind = "program" => turn.role = ProgramRole)
  BY <1>1, <1>2, Innermost, LocalSteps
<1>4. mode = "lua"
  BY DEF Runs, LuaCall, LuaReturn, LuaThrow, Yield, May
<1>5. GcFrames # <<>> => turn.role.kind = "finalizer" /\ \A k \in 1 .. l : k > r => cs[k] = "lua"
  BY <1>1, <1>2, <1>4, CodeAbove, Innermost
<1>6. Permits(allow) /\ current \in started \cup {Main}
  BY <1>4, PermitsNow, RunningIsStarted
<1>7. /\ UNCHANGED <<turn, owed, current, frames, boundaries, outcome>> /\ UNCHANGED gcVars
      /\ allow' = allow /\ started' = started
  BY DEF Runs, LuaCall, LuaReturn, LuaThrow, Yield, threadVars
<1>8. Permits(allow')
  BY <1>6, <1>7
<1>9. started \subseteq started' /\ current \in started' \cup {Main}
  BY <1>6, <1>7
<1>10. CASE LuaCall
  <2>1. PICK ds : ds = Append(cs, "lua")
    OBVIOUS
  <2>2. Local(ds)
    BY <1>1, <1>2, <1>10, <2>1, LocalSteps DEF LuaCall, CallKinds
  <2>3. ds \in Seq(CallKinds) /\ Len(ds) = l + 1 /\ ds[l + 1] = "lua" /\ \A i \in 1 .. l : ds[i] = cs[i]
    BY <1>2, <2>1, AppendedIs DEF CallKinds
  <2>4. mode' = "lua"
    BY <1>4, <1>10 DEF LuaCall
  <2>5. GcFrames # <<>> => \A k \in 1 .. Len(ds) : k > turn.role.stop => ds[k] = "lua"
    <3>1. ASSUME GcFrames # <<>>, NEW k \in 1 .. l + 1, k > r PROVE ds[k] = "lua"
      BY <1>5, <2>3, <3>1
    <3> QED BY <1>2, <2>3, <3>1
  <2> QED BY <1>7, <1>8, <1>9, <2>2, <2>4, <2>5, TurnGoesOn
<1>11. CASE LuaReturn
  <2> DEFINE root == turn.role = ProgramRole /\ calls[current] = <<"lua">>
  <2>1. PICK ds : /\ ds = IF LuaRuns /\ ~root THEN Front(cs) ELSE cs
                  /\ calls' = [calls EXCEPT ![current] = ds]
                  /\ mode' = IF root THEN "returned" ELSE Settles(ds, turn.role)
    BY <1>1, <1>11 DEF LuaReturn
  <2>2. CASE LuaRuns /\ ~root
    <3>1. Top(current) = "lua" /\ ~InTarget
      BY <2>2 DEF LuaRuns
    <3>2. r < l
      <4>1. CASE turn.role.kind # "program"
        BY <1>1, <1>2, <1>3, <3>1, <4>1 DEF InTarget
      <4>2. CASE turn.role.kind = "program"
        <5>1. r = 0
          BY <1>2, <1>3, <4>2 DEF ProgramRole, Role
        <5> QED BY <1>3, <5>1
      <4> QED BY <4>1, <4>2
    <3>3. l > 1
      <4>1. CASE turn.role.kind # "program"
        BY <1>3, <3>2, <4>1
      <4>2. CASE turn.role.kind = "program"
        <5>1. SUFFICES ASSUME l = 1 PROVE FALSE
          BY <1>3
        <5>2. cs[1] = "lua"
          BY <1>1, <1>2, <3>1, <5>1 DEF Top, Last
        <5>3. cs = <<"lua">>
          <6>4. Len(<<"lua">>) = 1 /\ <<"lua">>[1] = "lua" /\ <<"lua">> \in Seq(CallKinds)
            BY DEF CallKinds
          <6>1. PICK ts \in Seq(CallKinds) : ts = <<"lua">> /\ Len(ts) = 1 /\ ts[1] = "lua"
            BY <6>4, Zenon
          <6>2. Len(cs) = Len(ts) /\ \A i \in 1 .. Len(cs) : cs[i] = ts[i]
            BY <1>2, <5>1, <5>2, <6>1
          <6>3. cs = ts
            BY <6>2, SeqEqual, Zenon
          <6> QED BY <6>1, <6>3
        <5> QED BY <1>1, <1>3, <2>2, <4>2, <5>3
      <4> QED BY <4>1, <4>2
    <3>4. ds = Front(cs)
      BY <2>1, <2>2
    <3>5. Local(ds) /\ Len(ds) = l - 1
      BY <1>1, <1>2, <2>1, <3>2, <3>3, <3>4, LocalSteps
    <3>6. cs # <<>>
      BY <1>2, <1>3, EmptySeq
    <3>7. ds \in Seq(CallKinds) /\ \A i \in 1 .. l - 1 : ds[i] = cs[i]
      BY <1>2, <3>4, <3>6, FrontIs
    <3>8. GcFrames # <<>> => \A k \in 1 .. Len(ds) : k > turn.role.stop => ds[k] = "lua"
      <4>1. ASSUME GcFrames # <<>>, NEW k \in 1 .. l - 1, k > r PROVE ds[k] = "lua"
        BY <1>5, <3>7, <4>1
      <4> QED BY <1>2, <3>5, <4>1
    <3>9. mode' = Settles(ds, turn.role)
      BY <2>1, <2>2
    <3>10. GcFrames # <<>> /\ mode' # "lua" => Len(ds) = turn.role.stop
      BY <3>5, <3>7, <3>8, <3>9, SettlesAbove DEF Local
    <3>11. mode' \in {"lua", "returned", "yielded", "raised"}
      BY <3>9, SettlesIs
    <3> QED BY <1>7, <1>8, <1>9, <3>5, <3>8, <3>10, <3>11, TurnGoesOn
  <2>3. CASE ~(LuaRuns /\ ~root)
    <3>1. ds = cs
      BY <2>1, <2>3
    <3>2. calls' = calls
      BY <1>1, <2>1, <3>1 DEF Grounds, Types
    <3>3. Local(ds)
      BY <1>1, <3>1, <3>2, LocalSteps
    <3>4. GcFrames # <<>> => mode' = Settles(ds, turn.role)
      BY <1>5, <2>1 DEF ProgramRole, Role
    <3>5. GcFrames # <<>> => \A k \in 1 .. Len(ds) : k > turn.role.stop => ds[k] = "lua"
      BY <1>2, <1>5, <3>1
    <3>6. GcFrames # <<>> /\ mode' # "lua" => Len(ds) = turn.role.stop
      BY <3>1, <3>3, <3>4, <3>5, SettlesAbove DEF Local
    <3>7. mode' \in {"lua", "returned", "yielded", "raised"}
      BY <2>1, SettlesIs
    <3> QED BY <1>7, <1>8, <1>9, <3>3, <3>5, <3>6, <3>7, TurnGoesOn
  <2> QED BY <2>2, <2>3
<1>12. CASE LuaThrow \/ Yield
  <2>1. /\ calls' = IF turn.role.kind = "finalizer" THEN Unwound(current, turn.role.stop) ELSE calls
        /\ mode' \in {"raised", "yielded"}
    BY <1>12 DEF LuaThrow, Yield
  <2>2. CASE turn.role.kind = "finalizer"
    <3>1. PICK ds \in Seq(CallKinds) : Local(ds) /\ Len(ds) = turn.role.stop
      BY <2>1, <2>2, LocalSteps
    <3> QED BY <1>7, <1>8, <1>9, <2>1, <3>1, TurnGoesOn
  <2>3. CASE turn.role.kind # "finalizer"
    <3>1. Local(cs)
      BY <1>1, <2>1, <2>3, LocalSteps
    <3> QED BY <1>5, <1>7, <1>8, <1>9, <2>1, <2>3, <3>1, TurnGoesOn
  <2> QED BY <2>2, <2>3
<1> QED BY <1>10, <1>11, <1>12 DEF Runs

\* A native frame is never the bottom of a state.
LEMMA NativeIsAbove ==
    ASSUME Grounds, NEW s \in States, NEW d \in Nat, Len(calls[s]) = d, calls[s][d] = "native"
    PROVE  d > 1
<1>1. Bottoms(calls, started)
  BY DEF Grounds, NestInv, CallsInv
<1>2. d >= 1
  BY <1>1 DEF Bottoms
<1>3. calls[s][1] # "native"
  <2>1. s = Main \/ s \in Coroutines
    BY DEF States
  <2> QED BY <1>1, <2>1 DEF Bottoms
<1> QED BY <1>2, <1>3

\* A delivery pops the native frame, above the role of the turn.
LEMMA DeliveryIsLocal ==
    ASSUME Grounds, NEW depth, Delivers(depth)
    PROVE  /\ Completes(current, depth, turn.role) =>
                 Local(Front(calls[current])) /\ mode' \in {"returned", "raised", "lua"}
           /\ Fails(current, depth) => mode' = "raised" /\ \E cs \in Seq(CallKinds) : Local(cs)
<1>1. PICK cs \in Seq(CallKinds), l \in Nat, r \in Nat : cs = calls[current] /\ l = Len(cs) /\ r = turn.role.stop
  <2>1. calls[current] \in Seq(CallKinds) /\ turn.role.stop \in Nat
    BY Innermost, LocalSteps
  <2>2. Len(calls[current]) \in Nat
    BY <2>1
  <2> QED BY <2>1, <2>2
<1>2. Matches(current, depth) /\ l = depth /\ r < l /\ Last(cs) = "native"
  BY <1>1 DEF Delivers, Matches, Top
<1>3. cs[l] = "native"
  BY <1>1, <1>2 DEF Last
<1>4. l > 1
  BY <1>1, <1>3, NativeIsAbove DEF Grounds, Types
<1>5. ASSUME Completes(current, depth, turn.role)
      PROVE  Local(Front(cs)) /\ mode' \in {"returned", "raised", "lua"}
  <2>1. calls' = [calls EXCEPT ![current] = Front(cs)] /\ mode' = Settles(Front(cs), turn.role)
    BY <1>1, <1>2, <1>5 DEF Completes
  <2>2. Local(Front(cs))
    BY <1>1, <1>2, <1>4, <2>1, LocalSteps
  <2> QED BY <2>1, <2>2, SettlesIs
<1>6. ASSUME Fails(current, depth) PROVE mode' = "raised" /\ \E ds \in Seq(CallKinds) : Local(ds)
  <2>1. calls' = Unwound(current, l - 1) /\ mode' = "raised"
    BY <1>1, <1>2, <1>6 DEF Fails
  <2>2. (IF l - 1 < l THEN l - 1 ELSE l) = l - 1
    OBVIOUS
  <2>3. calls' = [calls EXCEPT ![current] = SubSeq(cs, 1, l - 1)]
    BY <1>1, <2>1, <2>2 DEF Unwound
  <2>4. Front(cs) = SubSeq(cs, 1, l - 1)
    BY <1>1 DEF Front
  <2>5. Local(Front(cs))
    BY <1>1, <1>2, <1>4, <2>3, <2>4, LocalSteps
  <2>6. Front(cs) \in Seq(CallKinds)
    BY <2>5 DEF Local
  <2> QED BY <2>1, <2>5, <2>6
<1> QED BY <1>1, <1>5, <1>6

\* A target starts at the boundary of its call.
LEMMA StartIsLocal ==
    ASSUME Grounds, Len(calls[current]) = turn.role.stop, turn.role.kind # "program", StartsTarget(turn.role.stop)
    PROVE  /\ mode' = "lua"
           /\ \E cs \in Seq(CallKinds) : Local(cs) /\ \A k \in 1 .. Len(cs) : k > turn.role.stop => cs[k] = "lua"
<1>1. PICK cs \in Seq(CallKinds), l \in Nat : cs = calls[current] /\ l = Len(cs) /\ l = turn.role.stop
  BY LocalSteps
<1>2. mode' = "lua" /\ (calls' = [calls EXCEPT ![current] = Append(cs, "lua")] \/ calls' = calls)
  BY <1>1 DEF StartsTarget
<1>3. l < MaxDepth
  BY <1>1, Innermost
<1>4. ASSUME calls' = [calls EXCEPT ![current] = Append(cs, "lua")]
      PROVE  \E ds \in Seq(CallKinds) : Local(ds) /\ \A k \in 1 .. Len(ds) : k > turn.role.stop => ds[k] = "lua"
  <2>1. PICK ds : ds = Append(cs, "lua")
    OBVIOUS
  <2>2. ds \in Seq(CallKinds) /\ Len(ds) = l + 1 /\ ds[l + 1] = "lua"
    BY <1>1, <2>1, AppendedIs DEF CallKinds
  <2>3. \A k \in 1 .. l + 1 : k > l => k = l + 1
    OBVIOUS
  <2>4. Local(ds)
    BY <1>1, <1>3, <1>4, <2>1, LocalSteps DEF CallKinds
  <2> QED BY <1>1, <2>2, <2>3, <2>4
<1>5. ASSUME calls' = calls
      PROVE  \E ds \in Seq(CallKinds) : Local(ds) /\ \A k \in 1 .. Len(ds) : k > turn.role.stop => ds[k] = "lua"
  <2>1. Local(cs)
    BY <1>1, <1>5, LocalSteps
  <2>2. \A k \in 1 .. l : ~(k > l)
    OBVIOUS
  <2> QED BY <1>1, <2>1, <2>2
<1> QED BY <1>2, <1>4, <1>5

\* An answer that leaves the permissions alone.
LEMMA NestAnswers ==
    ASSUME Grounds, Deliver \/ FinishHelper \/ DeliverCollection \/ ResumeInstruction
    PROVE  NestInv'
<1>1. /\ mode = "action" /\ turn.do \in {"deliver", "finishHelper", "deliverCollection", "deliverUpvalue", "resumeAutomatic"}
      /\ UNCHANGED <<turn, owed, current, frames, boundaries, outcome>> /\ UNCHANGED gcVars
      /\ started' = started
  BY DEF Deliver, FinishHelper, DeliverCollection, ResumeInstruction, Performs, threadVars
<1>2. TurnInv /\ GcInv /\ AllowInv
  BY DEF Grounds, NestInv
<1>3. GcFrames = <<>>
  BY <1>1, <1>2 DEF GcInv
<1>4. Permits(allow)
  BY <1>1, <1>2 DEF AllowInv, Permits
<1>5. started \subseteq started' /\ current \in started' \cup {Main}
  BY <1>1 DEF Grounds, NestInv, CallsInv
<1>6. SUFFICES (\E cs : Local(cs)) /\ mode' \in {"returned", "raised", "lua"} /\ allow' = allow
  BY <1>1, <1>3, <1>4, <1>5, TurnGoesOn
<1>7. CASE Deliver
  <2>1. ~Last(frames).replay /\ Delivers(Len(Last(frames).saved))
    BY <1>1, <1>2, <1>7 DEF TurnInv, Deliver, Performs
  <2>2. Completes(current, Len(Last(frames).saved), turn.role) /\ allow' = allow
    BY <1>7, <2>1 DEF Deliver
  <2> QED BY <2>1, <2>2, DeliveryIsLocal
<1>8. CASE FinishHelper
  <2>1. PICK b : b = boundaries[Len(boundaries)] /\ b = boundaries[PopsBoundary]
    BY <1>2, <1>8 DEF TurnInv, FinishHelper, Performs
  <2>2. Len(calls[current]) = b.stop /\ turn.role.stop < b.stop /\ (b.native => Matches(current, b.stop))
    BY <1>1, <1>2, <1>8, <2>1 DEF TurnInv, FinishHelper, Performs
  <2>3. allow' = allow
    BY <1>8 DEF FinishHelper
  <2>4. CASE b.native
    <3>1. Delivers(b.stop)
      BY <2>2, <2>4 DEF Delivers
    <3>2. Completes(current, b.stop, turn.role) \/ Fails(current, b.stop)
      BY <1>8, <2>1, <2>4 DEF FinishHelper
    <3> QED BY <2>3, <3>1, <3>2, DeliveryIsLocal
  <2>5. CASE ~b.native
    <3>1. calls' = calls /\ (mode' = "raised" \/ mode' = Settles(calls[current], turn.role))
      BY <1>8, <2>1, <2>5 DEF FinishHelper
    <3> QED BY <2>3, <3>1, LocalSteps, SettlesIs
  <2> QED BY <2>4, <2>5
<1>9. CASE DeliverCollection
  <2>1. Delivers(gcFrames[1].stop)
    BY <1>1, <1>2, <1>9 DEF TurnInv, DeliverCollection, Performs
  <2>2. Last(gcFrames) = gcFrames[1]
    <3>1. PICK n \in Nat : n = Len(gcFrames)
      BY DEF Grounds, Types
    <3>2. n # 0
      BY <1>9, <3>1, EmptySeq DEF Grounds, Types, DeliverCollection, Performs
    <3>3. n = 1
      BY <1>2, <3>1, <3>2 DEF GcInv
    <3> QED BY <3>1, <3>3 DEF Last
  <2>3. /\ Completes(current, gcFrames[1].stop, turn.role) \/ Fails(current, gcFrames[1].stop)
        /\ allow' = allow
    BY <1>9, <2>2 DEF DeliverCollection
  <2> QED BY <2>1, <2>3, DeliveryIsLocal
<1>10. CASE ResumeInstruction
  BY <1>10, LocalSteps, SettlesIs DEF ResumeInstruction
<1> QED BY <1>7, <1>8, <1>9, <1>10

\* The start of a callback, and the end of a finalizer that asked for too much.
LEMMA NestCallbacks ==
    ASSUME Grounds, StartProtected \/ StartCallback \/ FailFinalizer
    PROVE  NestInv'
<1>1. /\ mode = "action" /\ turn.do \in {"startProtected", "startHelper", "startFinalizer", "failFinalizer"}
      /\ UNCHANGED <<turn, owed, current, frames, boundaries, outcome>> /\ UNCHANGED gcVars
      /\ started' = started
  BY DEF StartProtected, StartCallback, FailFinalizer, Performs, threadVars
<1>2. TurnInv /\ GcInv /\ AllowInv
  BY DEF Grounds, NestInv
<1>3. started \subseteq started' /\ current \in started' \cup {Main}
  BY <1>1 DEF Grounds, NestInv, CallsInv
<1>4. turn.do # "startProtected" => Permits(allow)
  BY <1>1, <1>2 DEF AllowInv, Permits
<1>5. /\ turn.do = "startProtected" => turn.role.kind = "protected"
      /\ turn.do = "startHelper" => turn.role.kind = "helper"
      /\ turn.do \in {"startFinalizer", "failFinalizer"} => GcFrames # <<>> /\ turn.role.kind = "finalizer"
  BY <1>1, <1>2, Innermost DEF TurnInv
<1>6. turn.do # "failFinalizer" => Len(calls[current]) = turn.role.stop
  <2>1. turn.do \in {"startProtected", "startHelper"} => turn.role.stop = Len(calls[current])
    BY <1>1, <1>2 DEF TurnInv
  <2>2. turn.do = "startFinalizer" => turn.role.stop = Len(calls[current])
    BY <1>1, <1>2, <1>5, Innermost DEF GcInv
  <2> QED BY <1>1, <2>1, <2>2
<1>7. CASE StartProtected
  <2>1. turn.do = "startProtected" /\ turn.role.kind = "protected" /\ StartsTarget(turn.role.stop)
        /\ allow' = [allow EXCEPT ![current] = 0]
    BY <1>5, <1>7 DEF StartProtected, Performs
  <2>2. PICK cs \in Seq(CallKinds) : Local(cs) /\ mode' = "lua"
    BY <1>6, <2>1, StartIsLocal
  <2>3. GcFrames = <<>>
    BY <2>1, Innermost
  <2>4. HasBarrier(Boundaries, current)
    <3>1. PICK m : m = Len(Boundaries)
      OBVIOUS
    <3>2. m \in 1 .. m /\ Boundaries[m].owner = current /\ Boundaries[m].kind = "protected"
      BY <2>1, <3>1, Innermost
    <3> QED BY <3>1, <3>2 DEF HasBarrier
  <2>5. allow'[current] = 0 /\ \A s \in States \ {current} : allow'[s] = allow[s]
    BY <2>1 DEF Grounds, Types
  <2>6. Permits(allow')
    <3>1. PICK fs \in Seq(Activation), n \in Nat : fs = Frames /\ n = Len(fs)
      BY EndOfChain DEF Grounds
    <3>2. \A i \in 1 .. n : fs[i].target \in States
      <4>1. \A i \in 1 .. n : fs[i] \in Activation
        BY <3>1
      <4> QED BY <4>1 DEF Activation, States
    <3>3. /\ allow[Main] = 0 /\ \A s \in States : allow[s] <= MaxAllow
          /\ \A s \in States \ {current} : HasBarrier(Boundaries, s) => allow[s] = 0
          /\ \A i \in 1 .. n : allow[fs[i].target] > 0 \/ HasBarrier(Boundaries, fs[i].target)
      BY <1>2, <2>1, <3>1 DEF AllowInv
    <3>4. Main \in States /\ 0 <= MaxAllow
      BY BoundsAssumption DEF States
    <3>5. /\ allow'[Main] = 0 /\ \A s \in States : allow'[s] <= MaxAllow
          /\ \A s \in States : HasBarrier(Boundaries, s) => allow'[s] = 0
      BY <2>5, <3>3, <3>4
    <3>6. \A i \in 1 .. n : allow'[fs[i].target] > 0 \/ HasBarrier(Boundaries, fs[i].target)
      BY <2>4, <2>5, <3>2, <3>3
    <3> QED BY <3>1, <3>5, <3>6 DEF Permits
  <2> QED BY <1>1, <1>3, <2>2, <2>3, <2>6, TurnGoesOn
<1>8. CASE StartCallback
  <2>1. turn.do \in {"startHelper", "startFinalizer"} /\ StartsTarget(turn.role.stop) /\ allow' = allow
    BY <1>8 DEF StartCallback, Performs
  <2>2. turn.role.kind # "program" /\ Permits(allow')
    BY <1>4, <1>5, <2>1
  <2>3. PICK cs \in Seq(CallKinds) :
            Local(cs) /\ mode' = "lua" /\ \A k \in 1 .. Len(cs) : k > turn.role.stop => cs[k] = "lua"
    BY <1>6, <2>1, <2>2, StartIsLocal
  <2> QED BY <1>1, <1>3, <2>2, <2>3, TurnGoesOn
<1>9. CASE FailFinalizer
  <2>1. turn.do = "failFinalizer" /\ calls' = Unwound(current, turn.role.stop) /\ mode' = "raised" /\ allow' = allow
    BY <1>9 DEF FailFinalizer, Performs, Unwind
  <2>2. Permits(allow') /\ turn.role.kind = "finalizer"
    BY <1>4, <1>5, <2>1
  <2>3. PICK cs \in Seq(CallKinds) : Local(cs) /\ Len(cs) = turn.role.stop
    BY <2>1, <2>2, LocalSteps
  <2> QED BY <1>1, <1>3, <2>1, <2>2, <2>3, TurnGoesOn
<1> QED BY <1>7, <1>8, <1>9

\* The answer of a pcall gives back the permission that the pcall found.
LEMMA NestFinishProtected ==
    ASSUME Grounds, FinishProtected
    PROVE  NestInv'
<1>1. /\ mode = "action" /\ turn.do = "finishProtected"
      /\ UNCHANGED <<turn, owed, current, frames, boundaries, outcome>> /\ UNCHANGED gcVars
      /\ started' = started
  BY DEF FinishProtected, Performs, threadVars
<1>2. TurnInv /\ GcInv /\ AllowInv
  BY DEF Grounds, NestInv
<1>3. started \subseteq started' /\ current \in started' \cup {Main}
  BY <1>1 DEF Grounds, NestInv, CallsInv
<1>4. GcFrames = <<>>
  BY <1>1, <1>2 DEF GcInv
<1>5. PICK bs \in Seq(Boundary), m \in Nat, k \in Nat :
          /\ bs = boundaries /\ m = Len(bs) /\ m \in 1 .. m /\ k = Len(Boundaries) /\ m = k + 1
          /\ Boundaries \in Seq(Boundary) /\ \A i \in 1 .. k : Boundaries[i] = bs[i]
  <2>1. /\ Boundaries \in Seq(Boundary) /\ boundaries \in Seq(Boundary)
        /\ Len(Boundaries) <= Len(boundaries)
        /\ \A i \in 1 .. Len(Boundaries) : Boundaries[i] = boundaries[i]
        /\ Len(boundaries) \in 1 .. Len(boundaries)
        /\ Len(boundaries) = Len(Boundaries) + 1
    BY <1>1, <1>2, BoundariesLeft DEF Grounds
  <2>2. Len(Boundaries) \in Nat /\ Len(boundaries) \in Nat
    BY <2>1
  <2> QED BY <2>1, <2>2
<1>6. PopsBoundary = m /\ bs[m].owner = current
  BY <1>1, <1>2, <1>5 DEF TurnInv
<1>7. bs[m].kind = "protected"
  <2>1. IndexOfKind("protected", bs) = m
    BY <1>1, <1>5, <1>6 DEF PopsBoundary
  <2>2. m # 0
    BY <1>5
  <2> QED BY <1>5, <2>1, <2>2, IndexOfKindIs
<1>8. Delivers(bs[m].stop)
  BY <1>1, <1>2, <1>5, <1>7 DEF TurnInv, Delivers
<1>9. allow' = [allow EXCEPT ![current] = bs[m].prevYield] /\ Completes(current, bs[m].stop, turn.role)
  BY <1>5, <1>6 DEF FinishProtected
<1>10. PICK cs : Local(cs) /\ mode' \in {"returned", "raised", "lua"}
  BY <1>8, <1>9, DeliveryIsLocal
<1>11. Permits(allow')
  <2>1. PICK y \in Nat : y = bs[m].prevYield
    <3>1. m = Len(bs) /\ m \in 1 .. m
      BY <1>5
    <3>2. bs[m] \in Boundary
      BY <3>1, ElementOfSeq
    <3> QED BY <3>2 DEF Boundary
  <2>2. allow'[current] = y /\ \A s \in States \ {current} : allow'[s] = allow[s]
    BY <1>9, <2>1 DEF Grounds, Types
  <2>3. y <= MaxAllow /\ (y > 0 <=> /\ current # Main
                                    /\ \A i \in 1 .. m : i < m => ~(bs[i].kind = "protected" /\ bs[i].owner = current))
    BY <1>2, <1>5, <1>6, <1>7, <2>1, SMTT(30) DEF AllowInv, Yields
  <2>4. HasBarrier(Boundaries, current) <=>
            \E i \in 1 .. m : i < m /\ bs[i].kind = "protected" /\ bs[i].owner = current
    <3>1. \A i \in 1 .. m : i < m <=> i \in 1 .. k
      BY <1>5
    <3>2. \A i \in 1 .. k : i \in 1 .. m
      BY <1>5
    <3> QED BY <1>5, <3>1, <3>2 DEF HasBarrier
  <2>5. PICK fs \in Seq(Activation), n \in Nat : fs = Frames /\ n = Len(fs)
    BY EndOfChain DEF Grounds
  <2>6. \A i \in 1 .. n : fs[i].target \in States /\ fs[i].target # Main
    <3>1. \A i \in 1 .. n : fs[i] \in Activation
      BY <2>5
    <3> QED BY <3>1, StatesAssumption DEF Activation, States
  <2>7. /\ allow[Main] = 0 /\ \A s \in States : allow[s] <= MaxAllow
        /\ \A s \in States : HasBarrier(Boundaries, s) => allow[s] = 0
        /\ \A i \in 1 .. n : allow[fs[i].target] > 0 \/ HasBarrier(Boundaries, fs[i].target) \/ fs[i].target = current
    BY <1>1, <1>2, <2>5 DEF AllowInv
  <2>8. current = Main => y = 0
    BY <2>3
  <2>9. HasBarrier(Boundaries, current) => y = 0
    BY <2>3, <2>4
  <2>10. current # Main => y > 0 \/ HasBarrier(Boundaries, current)
    BY <2>3, <2>4
  <2>11. /\ allow'[Main] = 0 /\ \A s \in States : allow'[s] <= MaxAllow
         /\ \A s \in States : HasBarrier(Boundaries, s) => allow'[s] = 0
    <3>1. Main \in States
      BY DEF States
    <3> QED BY <2>2, <2>3, <2>7, <2>8, <2>9, <3>1
  <2>12. ASSUME NEW i \in 1 .. n PROVE allow'[fs[i].target] > 0 \/ HasBarrier(Boundaries, fs[i].target)
    BY <2>2, <2>6, <2>7, <2>10
  <2> QED BY <2>5, <2>11, <2>12 DEF Permits
<1> QED BY <1>1, <1>3, <1>4, <1>10, <1>11, TurnGoesOn

\* The first turn of a coroutine, or its next one after a yield.
LEMMA NestStartTarget ==
    ASSUME Grounds, StartTarget
    PROVE  NestInv'
<1>1. /\ mode = "action" /\ turn.do = "startTarget"
      /\ UNCHANGED <<turn, owed, current, frames, boundaries, outcome>> /\ UNCHANGED gcVars
      /\ started' = started \cup {current} /\ allow' = [allow EXCEPT ![current] = @ + 1]
  BY DEF StartTarget, Performs
<1>2. TurnInv /\ GcInv /\ AllowInv
  BY DEF Grounds, NestInv
<1>3. started \subseteq started' /\ current \in started' \cup {Main}
  BY <1>1
<1>4. /\ GcFrames = <<>> /\ current # Main /\ current \in States /\ Last(frames).prevTarget # "Normal" /\ ~owed
      /\ allow[current] < MaxAllow /\ turn.role = ProgramRole
  BY <1>1, <1>2 DEF TurnInv, GcInv, Grounds, Types
<1>5. \A j \in 1 .. Len(Boundaries) : Boundaries[j].owner # current
  BY <1>4, Innermost DEF ProgramRole, Role
<1>6. PICK fs \in Seq(Activation), n \in Nat : fs = Frames /\ n = Len(fs)
  BY EndOfChain DEF Grounds
<1>7. Permits(allow')
  <2>1. \A i \in 1 .. n : fs[i].target \in States
    <3>1. \A i \in 1 .. n : fs[i] \in Activation
      BY <1>6
    <3> QED BY <3>1 DEF Activation, States
  <2>2. PICK a \in Nat : a = allow[current]
    BY DEF Grounds, Types
  <2>3. allow'[current] = a + 1 /\ \A s \in States \ {current} : allow'[s] = allow[s]
    BY <1>1, <2>2 DEF Grounds, Types
  <2>4. /\ allow[Main] = 0 /\ \A s \in States : allow[s] <= MaxAllow
        /\ \A s \in States : HasBarrier(Boundaries, s) => allow[s] = 0
        /\ \A i \in 1 .. n : allow[fs[i].target] > 0 \/ HasBarrier(Boundaries, fs[i].target) \/ fs[i].target = current
    BY <1>1, <1>2, <1>6 DEF AllowInv
  <2>5. ~HasBarrier(Boundaries, current)
    BY <1>5 DEF HasBarrier
  <2>6. a + 1 <= MaxAllow /\ a + 1 > 0 /\ Main \in States
    BY <1>4, <2>2, BoundsAssumption DEF States
  <2>7. /\ allow'[Main] = 0 /\ \A s \in States : allow'[s] <= MaxAllow
        /\ \A s \in States : HasBarrier(Boundaries, s) => allow'[s] = 0
    BY <1>4, <2>3, <2>4, <2>5, <2>6
  <2>8. ASSUME NEW i \in 1 .. n PROVE allow'[fs[i].target] > 0 \/ HasBarrier(Boundaries, fs[i].target)
    BY <2>1, <2>3, <2>4, <2>6
  <2> QED BY <1>6, <2>7, <2>8 DEF Permits
<1>8. CASE current \in started
  <2>1. calls' = calls /\ mode' = Settles(calls[current], ProgramRole)
    BY <1>4, <1>8 DEF StartTarget
  <2>2. Local(calls[current])
    BY <2>1, LocalSteps
  <2>3. mode' \in {"returned", "raised", "lua"}
    BY <2>1, SettlesIs
  <2> QED BY <1>1, <1>3, <1>4, <1>7, <2>2, <2>3, TurnGoesOn
<1>9. CASE current \notin started
  <2>1. calls' = [calls EXCEPT ![current] = Append(calls[current], "lua")] /\ mode' = "lua"
    BY <1>9 DEF StartTarget
  <2>2. 1 < MaxDepth
    <3>1. n \in 1 .. n
      <4>1. fs # <<>>
        BY <1>4, <1>6, EndOfChain DEF Grounds
      <4> QED BY <1>6, <4>1, EmptySeq
    <3>2. fs[n].caller \in States
      BY <1>6, <3>1, EndOfChain DEF Grounds
    <3>3. PICK d \in Nat : d = Len(fs[n].saved)
      <4>1. fs[n] \in Activation
        BY <1>6, <3>1
      <4> QED BY <4>1 DEF Activation
    <3>4. Len(calls[fs[n].caller]) = d /\ calls[fs[n].caller][d] = "native"
      BY <1>6, <3>1, <3>3 DEF Grounds, NestInv, Waiting
    <3>5. d > 1
      BY <3>2, <3>4, NativeIsAbove
    <3>6. d <= MaxDepth /\ MaxDepth \in Nat
      BY <3>2, <3>4, BoundsAssumption DEF Grounds, NestInv, CallsInv, Bottoms
    <3> QED BY <3>5, <3>6
  <2>3. Len(calls[current]) = 1
    <3>1. current \in Coroutines \ started
      BY <1>4, <1>9 DEF States
    <3> QED BY <3>1 DEF Grounds, NestInv, CallsInv, Bottoms
  <2>4. Local(Append(calls[current], "lua"))
    BY <2>1, <2>2, <2>3, LocalSteps DEF CallKinds
  <2> QED BY <1>1, <1>3, <1>4, <1>7, <2>1, <2>4, TurnGoesOn
<1> QED BY <1>8, <1>9

\* The driver actions.
LEMMA NestDrives == ASSUME Grounds, Drives PROVE NestInv'
BY NestAnswers, NestCallbacks, NestFinishProtected, NestStartTarget DEF Drives

\* A session that ends leaves no activation and no permission too many.
LEMMA NestClosed ==
    ASSUME Grounds, NEW result, result # "protocol", NEW fs, NEW bs \in Seq(Boundary), Yields(bs),
           NEW st, NEW lk, NEW al, al[Main] = 0, \A s \in States : al[s] <= MaxAllow,
           CloseSession(result, fs, bs, st, lk, al), Bottoms(calls', started'), QueueInv'
    PROVE  NestInv'
<1>1. /\ mode' = "idle" /\ turn' = NoTurn /\ owed' = FALSE /\ current' = Main
      /\ frames' = <<>> /\ boundaries' = <<>> /\ gcFrames' = <<>> /\ outcome' = result
      /\ allow' = [s \in States |-> LET i == FirstBarrier(bs, s) IN IF i = 0 THEN al[s] ELSE bs[i].prevYield]
  BY DEF CloseSession
<1>2. turn'.do = "none" /\ turn'.role = ProgramRole
  BY <1>1 DEF NoTurn, Turn
<1>3. Frames' = <<>> /\ GcFrames' = <<>>
  BY <1>1, <1>2 DEF Frames, GcFrames
<1>4. Boundaries' = <<>>
  <2>1. PopsBoundary' = 0
    BY <1>2 DEF PopsBoundary
  <2> QED BY <1>1, <2>1 DEF Boundaries
<1>5. Len(<<>>) = 0 /\ 1 .. 0 = {} /\ 1 .. Len(<<>>) = {}
  BY EmptySeq
<1>6. IdleInv'
  BY <1>1 DEF IdleInv
<1>7. StackInv'
  BY <1>1, <1>3, <1>4, <1>5 DEF StackInv, Owned, StopsGrow, Parents, Standing
<1>8. RoleInv'
  BY <1>1, <1>2, <1>3, <1>4, <1>5 DEF RoleInv, RoleAt
<1>9. GcInv'
  BY <1>1, <1>2, <1>3, <1>5 DEF GcInv
<1>10. Waiting(Frames, calls, started)'
  BY <1>3, <1>5 DEF Waiting
<1>11. CallsInv'
  BY <1>1 DEF CallsInv
<1>12. TurnInv'
  BY <1>1, <1>2 DEF TurnInv
<1>13. AllowInv'
  <2>1. ASSUME NEW s \in States PROVE allow'[s] <= MaxAllow /\ (s = Main => allow'[s] = 0)
    <3>1. PICK i \in 0 .. Len(bs) : i = FirstBarrier(bs, s)
      BY FirstBarrierIs
    <3>2. allow'[s] = IF i = 0 THEN al[s] ELSE bs[i].prevYield
      BY <1>1, <3>1
    <3>3. CASE i = 0
      BY <3>2, <3>3
    <3>4. CASE i # 0
      <4>1. i \in 1 .. Len(bs) /\ bs[i].kind = "protected" /\ bs[i].owner = s
        BY <3>1, <3>4, FirstBarrierIs
      <4>2. bs[i] \in Boundary
        BY <4>1, ElementOfSeq
      <4>3. PICK y \in Nat : y = bs[i].prevYield
        BY <4>2 DEF Boundary
      <4>4. y <= MaxAllow /\ (y > 0 => s # Main)
        BY <4>1, <4>3 DEF Yields
      <4>5. s = Main => y = 0
        BY <4>4
      <4> QED BY <3>2, <3>4, <4>3, <4>4, <4>5
    <3> QED BY <3>3, <3>4
  <2>2. allow'[Main] = 0
    BY <2>1 DEF States
  <2>3. \A s \in States : ~HasBarrier(Boundaries', s)
    BY <1>4, <1>5 DEF HasBarrier
  <2>4. 1 .. Len(Frames') = {} /\ 1 .. Len(boundaries') = {}
    BY <1>1, <1>3, <1>5
  <2>5. Yields(boundaries')
    BY <2>4 DEF Yields
  <2> QED BY <2>1, <2>2, <2>3, <2>4, <2>5 DEF AllowInv
<1> QED BY <1>6, <1>7, <1>8, <1>9, <1>10, <1>11, <1>12, <1>13 DEF NestInv

\* Outside of a drain no finalizer that was begun waits.
LEMMA QueueKept ==
    ASSUME Grounds, GcFrames = <<>>, UNCHANGED <<queue, found, begun>>
    PROVE  QueueInv'
BY DEF Grounds, NestInv, QueueInv

\* The boundaries that a turn leaves saved permissions like those it began with.
LEMMA YieldsLeft ==
    ASSUME Grounds
    PROVE  Yields(boundaries) /\ Yields(Boundaries) /\ boundaries \in Seq(Boundary) /\ Boundaries \in Seq(Boundary)
<1>1. TurnInv /\ Types /\ Yields(boundaries)
  BY DEF Grounds, NestInv, AllowInv
<1>2. Boundaries \in Seq(Boundary) /\ boundaries \in Seq(Boundary)
  BY <1>1, BoundariesLeft
<1>3. Like(Boundaries, boundaries)
  BY <1>1, BoundariesLeft DEF Like
<1> QED BY <1>1, <1>2, <1>3, StackOfPrefix

\* Outside of a drain a session may end with whatever frames the running state has.
LEMMA NestEnds ==
    ASSUME Grounds, GcFrames = <<>>, NEW result, result # "protocol", NEW fs,
           NEW bs \in {boundaries, Boundaries}, NEW st, NEW lk,
           CloseSession(result, fs, bs, st, lk, allow), UNCHANGED <<started, queue, found, begun>>,
           Bottoms(calls', started)
    PROVE  NestInv'
<1>1. bs \in Seq(Boundary) /\ Yields(bs)
  BY YieldsLeft
<1>2. allow[Main] = 0 /\ \A s \in States : allow[s] <= MaxAllow
  BY DEF Grounds, NestInv, AllowInv
<1>3. QueueInv'
  BY QueueKept
<1>4. Bottoms(calls', started')
  OBVIOUS
<1> QED BY <1>1, <1>2, <1>3, <1>4, NestClosed

\* What a turn leaves behind when it chooses the next driver action.
LEMMA AfterEnd ==
    ASSUME NEW do, NEW role, NEW ok, Then(do, role, ok)
    PROVE  /\ mode' = "action" /\ turn'.do = do /\ turn'.role = role /\ owed' = (do = "deliver")
           /\ do # "deliver" => Frames' = frames'
           /\ do = "deliver" => Frames' = Front(frames')
           /\ do \notin {"finishProtected", "finishHelper"} => PopsBoundary' = 0 /\ Boundaries' = boundaries'
           /\ do = "finishProtected" => PopsBoundary' = IndexOfKind("protected", boundaries')
           /\ do = "finishHelper" => PopsBoundary' = IndexOfKind("helper", boundaries')
           /\ do # "deliverCollection" => GcFrames' = gcFrames'
           /\ do = "deliverCollection" => GcFrames' = Front(gcFrames')
<1>1. mode' = "action" /\ turn' = Turn(do, role, ok) /\ owed' = (do = "deliver")
  BY DEF Then
<1>2. turn'.do = do /\ turn'.role = role
  BY <1>1 DEF Turn
<1>3. (do # "deliver" => Frames' = frames') /\ (do = "deliver" => Frames' = Front(frames'))
  <2>1. CASE do = "deliver"
    <3>1. owed'
      BY <1>1, <2>1, Zenon
    <3> QED BY <2>1, <3>1 DEF Frames
  <2>2. CASE do # "deliver"
    <3>1. ~owed'
      BY <1>1, <2>2, Zenon
    <3> QED BY <2>2, <3>1 DEF Frames
  <2> QED BY <2>1, <2>2
<1>4. /\ do \notin {"finishProtected", "finishHelper"} => PopsBoundary' = 0 /\ Boundaries' = boundaries'
      /\ do = "finishProtected" => PopsBoundary' = IndexOfKind("protected", boundaries')
      /\ do = "finishHelper" => PopsBoundary' = IndexOfKind("helper", boundaries')
  BY <1>2 DEF PopsBoundary, Boundaries
<1>5. /\ do # "deliverCollection" => GcFrames' = gcFrames'
      /\ do = "deliverCollection" => GcFrames' = Front(gcFrames')
  BY <1>2 DEF GcFrames
<1> QED BY <1>1, <1>2, <1>3, <1>4, <1>5

\* The end of a turn after which the same state goes on.
LEMMA NestTurn ==
    ASSUME Grounds, mode # "action", NEW cs, Local(cs), mode' = "action", current' = current,
           Frames' = Frames, started' = started, outcome' = outcome
    PROVE  /\ IdleInv' /\ Waiting(Frames, calls, started)' /\ CallsInv'
           /\ Standing(Boundaries, calls', current) /\ calls'[current] = cs
<1>1. started \subseteq started' /\ current \in started' \cup {Main}
  BY RunningIsStarted
<1>2. /\ Standing(Boundaries, calls', current) /\ Waiting(Frames, calls', started')
      /\ Bottoms(calls', started') /\ calls'[current] = cs
  BY <1>1, LocalStep
<1>3. IdleInv'
  BY DEF IdleInv, Grounds, NestInv
<1>4. CallsInv'
  BY <1>1, <1>2 DEF CallsInv
<1> QED BY <1>2, <1>3, <1>4

\* ... with the boundaries that were there.
LEMMA NestLike ==
    ASSUME Grounds, mode # "action", NEW cs, Local(cs), mode' = "action", current' = current,
           Frames' = Frames, started' = started, outcome' = outcome, allow' = allow,
           boundaries' \in Seq(Boundary), Boundaries' = boundaries', Like(boundaries', Boundaries),
           Len(boundaries') = Len(Boundaries)
    PROVE  /\ IdleInv' /\ Waiting(Frames, calls, started)' /\ CallsInv' /\ StackInv' /\ AllowInv'
           /\ calls'[current] = cs
           /\ \A role : RoleAt(Boundaries, Len(Boundaries), current, role)
                           => RoleAt(Boundaries', Len(Boundaries'), current', role)
<1>1. /\ IdleInv' /\ Waiting(Frames, calls, started)' /\ CallsInv'
      /\ Standing(Boundaries, calls', current) /\ calls'[current] = cs
  BY NestTurn
<1>2. PICK us \in Seq(Boundary), bs \in Seq(Boundary), m \in Nat :
          us = boundaries' /\ bs = Boundaries /\ m = Len(bs) /\ m = Len(us) /\ Like(us, bs)
  BY YieldsLeft
<1>3. Owned(us, Frames) /\ StopsGrow(us) /\ Parents(us) /\ Standing(us, calls', current) /\ Yields(us)
  BY <1>1, <1>2, StackOfPrefix, YieldsLeft DEF Grounds, NestInv, StackInv
<1>4. Boundaries' = us
  BY <1>2
<1>5. StackInv'
  BY <1>3, <1>4 DEF StackInv
<1>6. \A s : HasBarrier(us, s) <=> HasBarrier(bs, s)
  BY <1>2 DEF HasBarrier, Like
<1>7. AllowInv'
  <2>1. /\ allow[Main] = 0 /\ \A s \in States : allow[s] <= MaxAllow
        /\ \A s \in States : HasBarrier(bs, s) => allow[s] = 0
        /\ \A i \in 1 .. Len(Frames) : allow[Frames[i].target] > 0 \/ HasBarrier(bs, Frames[i].target)
    BY <1>2, PermitsNow DEF Permits
  <2> QED BY <1>2, <1>3, <1>4, <1>6, <2>1 DEF AllowInv
<1>8. ASSUME NEW role, RoleAt(bs, m, current, role) PROVE RoleAt(us, m, current, role)
  <2>1. m \in 0 .. Len(us)
    BY <1>2
  <2>2. PICK s : s = current
    OBVIOUS
  <2> QED BY <1>2, <1>8, <2>1, <2>2, RoleOfLike
<1> QED BY <1>1, <1>2, <1>4, <1>5, <1>7, <1>8

\* Outside of a drain active_driver_role finds the innermost boundary.
LEMMA ActiveIsInner ==
    ASSUME NEW bs \in Seq(Boundary), NEW gs \in Seq(Drain), NEW s
    PROVE  gs = <<>> => RoleAt(bs, Len(bs), s, ActiveRole(bs, gs, s))
<1>1. PICK r : r = ActiveRole(bs, gs, s)
  OBVIOUS
<1>2. \/ (\A i \in 1 .. Len(bs) : bs[i].owner # s) /\ ActiveDrain(gs, s) = 0 /\ r = ProgramRole
      \/ ActiveDrain(gs, s) # 0
      \/ \E i \in 1 .. Len(bs) :
            /\ bs[i].owner = s /\ (\A k \in 1 .. Len(bs) : k > i => bs[k].owner # s)
            /\ r = RoleOf(bs[i])
  BY <1>1, ActiveRoleIs
<1>3. gs = <<>> => ActiveDrain(gs, s) = 0
  <2>1. gs = <<>> => Len(gs) = 0
    BY EmptySeq
  <2>2. ActiveDrain(gs, s) \in 0 .. Len(gs)
    BY ActiveDrainIs
  <2> QED BY <2>1, <2>2
<1>4. gs = <<>> => RoleAt(bs, Len(bs), s, r)
  BY <1>2, <1>3, Zenon DEF RoleAt
<1> QED BY <1>1, <1>4

\* Every state has the same boundaries as before.
LEMMA LikeItself ==
    ASSUME Grounds, boundaries' = Boundaries
    PROVE  /\ boundaries' \in Seq(Boundary) /\ Like(boundaries', Boundaries)
           /\ Len(boundaries') = Len(Boundaries) /\ Len(Boundaries) \in Nat
BY YieldsLeft DEF Like

\* The frames of the request are pushed.
LEMMA SuspendsIs ==
    ASSUME Grounds, Suspends, Len(calls[current]) < MaxDepth
    PROVE  /\ Suspended \in Seq(CallKinds) /\ Local(Suspended) /\ Len(Suspended) = Len(calls[current]) + 1
           /\ Suspended[Len(Suspended)] = "native" /\ Last(Suspended) = "native"
           /\ Len(calls[current]) \in Nat /\ turn.role.stop < Len(Suspended)
           /\ \A j \in 1 .. Len(Boundaries) :
                 Boundaries[j].owner = current => Boundaries[j].stop < Len(Suspended)
<1>1. PICK cs \in Seq(CallKinds), l \in Nat, r \in Nat : cs = calls[current] /\ l = Len(cs) /\ r = turn.role.stop
  <2>1. calls[current] \in Seq(CallKinds) /\ turn.role.stop \in Nat
    BY Innermost, LocalSteps
  <2>2. Len(calls[current]) \in Nat
    BY <2>1
  <2> QED BY <2>1, <2>2
<1>2. PICK ds : ds = Append(cs, "native") /\ ds = Suspended
  BY <1>1 DEF Suspended
<1>3. ds \in Seq(CallKinds) /\ Len(ds) = l + 1 /\ ds[l + 1] = "native" /\ Last(ds) = "native"
  BY <1>1, <1>2, AppendedIs DEF CallKinds
<1>4. Local(ds)
  BY <1>1, <1>2, LocalSteps DEF Suspends, CallKinds
<1>5. r <= l
  BY <1>1, Innermost
<1>6. ASSUME NEW j \in 1 .. Len(Boundaries), Boundaries[j].owner = current
      PROVE  Boundaries[j].stop < l + 1
  <2>1. Boundaries[j] \in Boundary
    BY YieldsLeft, ElementOfSeq
  <2>2. PICK x \in Nat : x = Boundaries[j].stop
    BY <2>1 DEF Boundary
  <2>3. x <= r
    BY <1>1, <1>6, <2>2, Innermost
  <2>4. x < l + 1
    BY <1>5, <2>3
  <2> QED BY <2>2, <2>4
<1>7. r < l + 1
  BY <1>5
<1> QED BY <1>1, <1>2, <1>3, <1>4, <1>6, <1>7

\* A request that a finalizer may not make.
LEMMA NestFailed ==
    ASSUME Grounds, mode = "lua", InFinalizerNow, FailsFinalizer, NEW cs, Local(cs),
           frames' = Frames, boundaries' = Boundaries, gcFrames' = GcFrames,
           UNCHANGED <<current, allow, started, queue, found, begun, outcome>>
    PROVE  NestInv'
<1>1. PICK g \in Drain : g = GcFrames[1] /\ GcFrames # <<>> /\ ActiveDrain(GcFrames, current) = 1 /\ Len(GcFrames) = 1
                         /\ turn.role.stop = g.stop
  BY Innermost
<1>2. Then("failFinalizer", Role("finalizer", g.stop), FALSE)
  BY <1>1 DEF FailsFinalizer
<1>3. /\ mode' = "action" /\ turn'.do = "failFinalizer" /\ turn'.role = Role("finalizer", g.stop)
      /\ Frames' = Frames /\ PopsBoundary' = 0 /\ Boundaries' = boundaries' /\ GcFrames' = GcFrames
  <2>1. PICK do, role, ok : do = "failFinalizer" /\ role = Role("finalizer", g.stop) /\ ok = FALSE
    OBVIOUS
  <2>2. Then(do, role, ok)
    BY <1>2, <2>1
  <2>3. /\ mode' = "action" /\ turn'.do = do /\ turn'.role = role
        /\ do # "deliver" => Frames' = frames'
        /\ do \notin {"finishProtected", "finishHelper"} => PopsBoundary' = 0 /\ Boundaries' = boundaries'
        /\ do # "deliverCollection" => GcFrames' = gcFrames'
    BY <2>2, AfterEnd
  <2> QED BY <2>1, <2>3
<1>4. /\ boundaries' \in Seq(Boundary) /\ Like(boundaries', Boundaries)
      /\ Len(boundaries') = Len(Boundaries)
  BY LikeItself
<1>5. /\ IdleInv' /\ Waiting(Frames, calls, started)' /\ CallsInv' /\ StackInv' /\ AllowInv'
      /\ calls'[current] = cs
      /\ \A role : RoleAt(Boundaries, Len(Boundaries), current, role)
                      => RoleAt(Boundaries', Len(Boundaries'), current', role)
  BY <1>3, <1>4, NestLike
<1>6. RoleInv'
  BY <1>1, <1>3 DEF RoleInv
<1>7. QueueInv'
  BY <1>3 DEF Grounds, NestInv, QueueInv
<1>8. TurnInv'
  BY <1>1, <1>3, <1>5 DEF TurnInv, DriverActions
<1>9. GcInv'
  <2>1. GcInv
    BY DEF Grounds, NestInv
  <2>2. PICK t \in Nat, l \in Nat : t = g.stop /\ l = Len(cs)
    BY <1>1, Innermost DEF Local
  <2>3. 1 <= t /\ t <= l /\ t < MaxDepth /\ (g.explicit => calls[current][t] = "native")
    BY <1>1, <2>1, <2>2 DEF GcInv, Local
  <2>4. g.explicit => cs[t] = "native"
    <3>1. t \in 1 .. l /\ t <= t
      BY <2>3
    <3>2. cs[t] = calls[current][t]
      BY <1>1, <2>2, <3>1 DEF Local
    <3> QED BY <2>3, <3>2
  <2>5. /\ g.owner = current /\ g.draining /\ g.running # 0 /\ g.resume.stop < g.stop
        /\ RoleAt(Boundaries, Len(Boundaries), current, g.resume)
    BY <1>1, <2>1 DEF GcInv
  <2>6. RoleAt(Boundaries', Len(Boundaries'), current', g.resume) /\ calls'[current'] = cs /\ current' = current
    BY <1>5, <2>5
  <2>7. Len(gcFrames') = 1 /\ GcFrames'[1] = g
    BY <1>1, <1>3
  <2> QED BY <1>1, <1>3, <2>2, <2>3, <2>4, <2>5, <2>6, <2>7 DEF GcInv
<1> QED BY <1>5, <1>6, <1>7, <1>8, <1>9 DEF NestInv

\* An access to another state's upvalue.
LEMMA NestUpvalue == ASSUME Grounds, UpvalueAccess PROVE NestInv'
<1>1. /\ mode = "lua" /\ boundaries' = Boundaries /\ gcFrames' = GcFrames /\ calls' = calls
      /\ UNCHANGED <<current, allow, started, queue, found, begun, outcome>>
  BY DEF UpvalueAccess, May, threadVars
<1>2. Local(calls[current])
  BY <1>1, LocalSteps
<1>3. CASE InFinalizerNow
  <2>1. FailsFinalizer /\ frames' = Frames
    BY <1>3 DEF UpvalueAccess
  <2> QED BY <1>1, <1>2, <1>3, <2>1, NestFailed
<1>4. CASE ~InFinalizerNow
  <2>1. /\ mode' = "action" /\ turn' = Turn("deliverUpvalue", ActiveRole(Boundaries, GcFrames, current), TRUE)
        /\ owed' = owed /\ frames' = frames
    BY <1>4 DEF UpvalueAccess
  <2>2. turn'.do = "deliverUpvalue" /\ turn'.role = ActiveRole(Boundaries, GcFrames, current)
    BY <2>1 DEF Turn
  <2>3. Frames' = Frames
    BY <2>1 DEF Frames
  <2>4. GcFrames = <<>>
    BY <1>4, Innermost
  <2>5. PopsBoundary' = 0 /\ Boundaries' = boundaries' /\ GcFrames' = <<>> /\ gcFrames' = <<>>
    BY <1>1, <2>2, <2>4 DEF PopsBoundary, Boundaries, GcFrames
  <2>6. /\ boundaries' \in Seq(Boundary) /\ Like(boundaries', Boundaries)
        /\ Len(boundaries') = Len(Boundaries)
    BY <1>1, LikeItself
  <2>7. /\ IdleInv' /\ Waiting(Frames, calls, started)' /\ CallsInv' /\ StackInv' /\ AllowInv'
        /\ \A role : RoleAt(Boundaries, Len(Boundaries), current, role)
                        => RoleAt(Boundaries', Len(Boundaries'), current', role)
    BY <1>1, <1>2, <2>1, <2>3, <2>5, <2>6, NestLike
  <2>8. GcFrames \in Seq(Drain) /\ Boundaries \in Seq(Boundary)
    BY GcFramesIs, YieldsLeft DEF Grounds
  <2>9. RoleAt(Boundaries, Len(Boundaries), current, turn'.role)
    BY <2>2, <2>4, <2>8, ActiveIsInner
  <2>10. RoleInv'
    BY <2>5, <2>7, <2>9 DEF RoleInv
  <2>11. QueueInv'
    BY <1>1, <2>4, QueueKept
  <2>12. TurnInv'
    BY <2>1, <2>2 DEF TurnInv, DriverActions
  <2>13. GcInv'
    BY <2>2, <2>5, EmptySeq DEF GcInv
  <2> QED BY <2>7, <2>10, <2>11, <2>12, <2>13 DEF NestInv
<1> QED BY <1>3, <1>4

\* A coroutine is resumed.
LEMMA NestResume ==
    ASSUME Grounds, Nestable, NEW c \in Coroutines, RequestResume(c)
    PROVE  NestInv'
<1>1. /\ mode = "lua" /\ status[c] = "Suspended" /\ Suspends /\ Len(calls[current]) + 1 <= MaxDepth
      /\ allow[c] < MaxAllow /\ boundaries' = Boundaries /\ gcFrames' = GcFrames
      /\ UNCHANGED <<allow, started, queue, draining, found, begun, outcome>>
  BY DEF RequestResume, May, CanNest, Nestable, NoReentry
<1>2. Len(calls[current]) < MaxDepth
  <2>1. Len(calls[current]) \in Nat /\ MaxDepth \in Nat
    BY LocalSteps, BoundsAssumption
  <2> QED BY <1>1, <2>1
<1>3. /\ Suspended \in Seq(CallKinds) /\ Local(Suspended) /\ Suspended[Len(Suspended)] = "native"
      /\ \A j \in 1 .. Len(Boundaries) :
            Boundaries[j].owner = current => Boundaries[j].stop < Len(Suspended)
  BY <1>1, <1>2, SuspendsIs
<1>4. CASE InFinalizerNow
  <2>1. FailsFinalizer /\ frames' = Frames /\ current' = current
    BY <1>4 DEF RequestResume
  <2> QED BY <1>1, <1>3, <1>4, <2>1, NestFailed
<1>5. CASE ~InFinalizerNow
  <2>1. PICK ds \in Seq(CallKinds), bs \in Seq(Boundary), fs \in Seq(Activation), n \in Nat, d \in Nat :
            ds = Suspended /\ bs = Boundaries /\ fs = Frames /\ n = Len(fs) /\ d = Len(ds)
    BY <1>3, YieldsLeft, EndOfChain DEF Grounds
  <2>2. PICK f : f = [caller |-> current, target |-> c,
                      prevCaller |-> IF current = Main THEN "none" ELSE status[current],
                      prevTarget |-> status[c], prevLink |-> link[c],
                      saved |-> Suspended, yield |-> allow[current], replay |-> FALSE]
    OBVIOUS
  <2>3. f \in Activation
    <3>1. /\ current # Main => current \in Coroutines
          /\ status \in [Coroutines -> Statuses] /\ link \in [Coroutines -> Coroutines \cup {None}]
          /\ current \in States /\ allow[current] \in Nat
      BY DEF States, Grounds, Types
    <3>2. PICK pc : pc = IF current = Main THEN "none" ELSE status[current]
      OBVIOUS
    <3>3. pc \in Statuses \cup {"none"} /\ (current # Main => pc \in Statuses)
      BY <3>1, <3>2
    <3>4. FALSE \in BOOLEAN
      OBVIOUS
    <3>5. f = [caller |-> current, target |-> c, prevCaller |-> pc, prevTarget |-> status[c],
               prevLink |-> link[c], saved |-> Suspended, yield |-> allow[current], replay |-> FALSE]
      BY <2>2, <3>2
    <3> QED BY <1>3, <3>1, <3>3, <3>4, <3>5 DEF Activation
  <2>4. /\ f.caller = current /\ f.target = c /\ f.saved = ds /\ ~f.replay /\ f.prevTarget = "Suspended"
    BY <1>1, <2>1, <2>2
  <2>5. frames' = Append(fs, f) /\ current' = c /\ Then("startTarget", ProgramRole, TRUE)
    BY <1>5, <2>1, <2>2 DEF RequestResume
  <2>6. /\ mode' = "action" /\ turn'.do = "startTarget" /\ turn'.role = ProgramRole /\ ~owed'
        /\ Frames' = frames' /\ Boundaries' = bs /\ GcFrames' = gcFrames'
    <3>1. PICK do, role, ok : do = "startTarget" /\ role = ProgramRole /\ ok = TRUE
      OBVIOUS
    <3>2. Then(do, role, ok)
      BY <2>5, <3>1
    <3>3. /\ mode' = "action" /\ turn'.do = do /\ turn'.role = role /\ owed' = (do = "deliver")
          /\ do # "deliver" => Frames' = frames'
          /\ do \notin {"finishProtected", "finishHelper"} => Boundaries' = boundaries'
          /\ do # "deliverCollection" => GcFrames' = gcFrames'
      BY <3>2, AfterEnd
    <3>4. ~owed'
      BY <3>1, <3>3, Zenon
    <3> QED BY <1>1, <2>1, <3>1, <3>3, <3>4
  <2>7. PICK gs \in Seq(Activation) : gs = Frames' /\ gs = Append(fs, f)
    BY <2>3, <2>5, <2>6, AppendedIs
  <2>8. Len(gs) = n + 1 /\ gs[n + 1] = f /\ (\A i \in 1 .. n : gs[i] = fs[i]) /\ Last(gs) = f
    BY <2>1, <2>3, <2>7, AppendedIs
  <2>9. GcFrames = <<>> /\ GcFrames' = <<>> /\ gcFrames' = <<>>
    BY <1>1, <1>5, <2>6, Innermost
  <2>10. c \notin Targets(fs) /\ c # current /\ c # Main
    BY <1>1, <2>1, StatesAssumption DEF Grounds, ThreadInv
  <2>11. Owned(bs, gs) /\ \A j \in 1 .. Len(bs) : bs[j].owner # c
    BY <2>1, <2>3, <2>4, <2>7, <2>10, OwnedGrown DEF Grounds, NestInv, StackInv
  <2>12. current \in started' \cup {Main} /\ started' = started
    BY <1>1, RunningIsStarted
  <2>13. /\ \A cur : Standing(bs, calls', cur)
         /\ Waiting(fs, calls', started') /\ Bottoms(calls', started') /\ calls'[current] = ds
    <3>1. Local(ds)
      BY <1>3, <2>1
    <3>2. \A j \in 1 .. Len(Boundaries) : Boundaries[j].owner = current => Boundaries[j].stop < Len(ds)
      BY <1>3, <2>1
    <3> QED BY <2>1, <2>12, <3>1, <3>2, LocalStep
  <2>14. \A i \in 1 .. n + 1 : i \in 1 .. n \/ i = n + 1
    OBVIOUS
  <2>15. IdleInv'
    BY <1>1, <2>6 DEF IdleInv, Grounds, NestInv
  <2>16. StackInv'
    BY <2>1, <2>5, <2>6, <2>7, <2>11, <2>13 DEF StackInv, Grounds, NestInv
  <2>17. RoleInv'
    BY <2>5, <2>6, <2>9, <2>11 DEF RoleInv, RoleAt
  <2>18. GcInv'
    BY <2>6, <2>9, EmptySeq DEF GcInv
  <2>19. Waiting(Frames, calls, started)'
    <3>1. ds[d] = "native" /\ Len(ds) = d
      BY <1>3, <2>1
    <3>2. ASSUME NEW i \in 1 .. n + 1
          PROVE  /\ ~gs[i].replay /\ gs[i].caller \in started' \cup {Main}
                 /\ Len(calls'[gs[i].caller]) = Len(gs[i].saved)
                 /\ calls'[gs[i].caller][Len(gs[i].saved)] = "native"
      <4>1. CASE i = n + 1
        BY <2>1, <2>4, <2>8, <2>12, <2>13, <3>1, <4>1
      <4>2. CASE i \in 1 .. n
        BY <2>1, <2>8, <2>13, <4>2 DEF Waiting
      <4> QED BY <2>14, <4>1, <4>2
    <3> QED BY <2>7, <2>8, <3>2 DEF Waiting
  <2>20. CallsInv'
    BY <2>6, <2>13 DEF CallsInv
  <2>21. TurnInv'
    BY <1>1, <2>4, <2>5, <2>6, <2>7, <2>8, <2>10 DEF TurnInv, DriverActions
  <2>22. QueueInv'
    BY <1>1, <2>9, QueueKept
  <2>23. AllowInv'
    <3>1. /\ allow[Main] = 0 /\ \A s \in States : allow[s] <= MaxAllow
          /\ \A s \in States : HasBarrier(bs, s) => allow[s] = 0
          /\ \A i \in 1 .. n : allow[fs[i].target] > 0 \/ HasBarrier(bs, fs[i].target)
      BY <1>1, <2>1, PermitsNow DEF Permits
    <3>2. \A i \in 1 .. n + 1 : allow[gs[i].target] > 0 \/ HasBarrier(bs, gs[i].target) \/ gs[i].target = c
      BY <2>4, <2>8, <2>14, <3>1
    <3>3. Yields(boundaries') /\ allow' = allow
      BY <1>1, YieldsLeft
    <3> QED BY <2>5, <2>6, <2>7, <2>8, <3>1, <3>2, <3>3 DEF AllowInv
  <2> QED BY <2>15, <2>16, <2>17, <2>18, <2>19, <2>20, <2>21, <2>22, <2>23 DEF NestInv
<1> QED BY <1>4, <1>5

\* A boundary opens on top of what the running state has.
LEMMA NestOpened ==
    ASSUME Grounds, mode = "lua", GcFrames = <<>>, NEW b \in Boundary, NEW cs, Local(cs),
           b.owner = current, b.stop = Len(cs), b.stop < MaxDepth, b.native => cs[b.stop] = "native",
           b.kind = "protected" => b.native /\ b.prevYield = allow[current],
           b.parent = ActiveRole(Boundaries, GcFrames, current),
           \A j \in 1 .. Len(Boundaries) : Boundaries[j].owner = current => Boundaries[j].stop < Len(cs),
           NEW do, do = IF b.kind = "protected" THEN "startProtected" ELSE "startHelper",
           NEW ok, Then(do, RoleOf(b), ok),
           boundaries' = Append(Boundaries, b), frames' = Frames, gcFrames' = GcFrames,
           UNCHANGED <<current, allow, started, queue, found, begun, outcome>>
    PROVE  NestInv'
<1>1. PICK bs \in Seq(Boundary), fs \in Seq(Activation), n \in Nat, m \in Nat :
          bs = Boundaries /\ fs = Frames /\ n = Len(fs) /\ m = Len(bs)
  <2>1. Boundaries \in Seq(Boundary) /\ Frames \in Seq(Activation)
    BY YieldsLeft, EndOfChain DEF Grounds
  <2>2. Len(Frames) \in Nat /\ Len(Boundaries) \in Nat
    BY <2>1
  <2> QED BY <2>1, <2>2
<1>2. /\ mode' = "action" /\ turn'.do = do /\ turn'.role = RoleOf(b) /\ Frames' = frames'
      /\ Boundaries' = boundaries' /\ GcFrames' = gcFrames'
  <2>1. PICK role : role = RoleOf(b)
    OBVIOUS
  <2>2. Then(do, role, ok)
    BY <2>1
  <2>3. /\ mode' = "action" /\ turn'.do = do /\ turn'.role = role
        /\ do # "deliver" => Frames' = frames'
        /\ do \notin {"finishProtected", "finishHelper"} => Boundaries' = boundaries'
        /\ do # "deliverCollection" => GcFrames' = gcFrames'
    BY <2>2, AfterEnd
  <2> QED BY <2>1, <2>3
<1>3. turn'.role.kind = b.kind /\ turn'.role.stop = b.stop /\ b.kind \in {"protected", "helper"} /\ b.stop \in Nat
  BY <1>2 DEF RoleOf, Role, Boundary
<1>4. PICK us \in Seq(Boundary) : us = Append(bs, b) /\ us = Boundaries' /\ us = boundaries'
  BY <1>1, <1>2, AppendedIs
<1>5. Len(us) = m + 1 /\ us[m + 1] = b /\ \A i \in 1 .. m : us[i] = bs[i]
  BY <1>1, <1>4, AppendedIs
<1>6. \A i \in 1 .. m + 1 : i \in 1 .. m \/ i = m + 1
  OBVIOUS
<1>7. Frames' = Frames /\ GcFrames' = <<>> /\ gcFrames' = <<>>
  BY <1>2
<1>8. /\ IdleInv' /\ Waiting(Frames, calls, started)' /\ CallsInv'
      /\ Standing(bs, calls', current) /\ calls'[current] = cs
  <2>1. mode # "action" /\ started' = started /\ outcome' = outcome /\ current' = current
    OBVIOUS
  <2> QED BY <1>1, <1>2, <1>7, <2>1, NestTurn
<1>9. RoleAt(bs, m, b.owner, b.parent)
  <2>1. GcFrames \in Seq(Drain)
    BY GcFramesIs DEF Grounds
  <2>2. PICK s : s = current
    OBVIOUS
  <2>3. RoleAt(bs, Len(bs), s, ActiveRole(bs, GcFrames, s))
    BY <2>1, ActiveIsInner
  <2> QED BY <1>1, <2>2, <2>3
<1>10. Owned(us, fs) /\ StopsGrow(us) /\ Parents(us) /\ RoleAt(us, m + 1, current, RoleOf(b))
  <2>1. Owned(bs, fs) /\ StopsGrow(bs) /\ Parents(bs) /\ Distinct(fs) /\ b.owner = Chain(fs, Len(fs))
    BY <1>1, EndOfChain DEF Grounds, NestInv, StackInv
  <2>2. \A j \in 1 .. Len(bs) : bs[j].owner = b.owner => bs[j].stop < b.stop
    BY <1>1
  <2>3. RoleAt(bs, Len(bs), b.owner, b.parent)
    BY <1>1, <1>9
  <2>4. /\ Owned(Append(bs, b), fs) /\ StopsGrow(Append(bs, b)) /\ Parents(Append(bs, b))
        /\ RoleAt(Append(bs, b), Len(Append(bs, b)), b.owner, RoleOf(b))
    BY <2>1, <2>2, <2>3, StackOfPush
  <2> QED BY <1>4, <1>5, <2>4
<1>11. Standing(us, calls', current)
  <2>1. PICK x \in Nat : x = b.stop
    BY <1>3
  <2>2. 1 <= x /\ x <= Len(calls'[b.owner])
    BY <1>8, <2>1 DEF Local
  <2>3. ASSUME NEW j \in 1 .. m + 1
        PROVE  /\ 1 <= us[j].stop /\ us[j].stop <= Len(calls'[us[j].owner]) /\ us[j].stop < MaxDepth
               /\ us[j].native => calls'[us[j].owner][us[j].stop] = "native"
               /\ us[j].kind = "protected" => us[j].native
               /\ us[j].owner # current => us[j].stop < Len(calls'[us[j].owner])
    <3>1. CASE j = m + 1
      BY <1>5, <1>8, <2>1, <2>2, <3>1
    <3>2. CASE j \in 1 .. m
      BY <1>1, <1>5, <1>8, <3>2 DEF Standing
    <3> QED BY <1>6, <3>1, <3>2
  <2> QED BY <1>5, <2>3 DEF Standing
<1>12. StackInv'
  BY <1>1, <1>4, <1>7, <1>10, <1>11 DEF StackInv
<1>13. RoleInv'
  BY <1>2, <1>4, <1>5, <1>7, <1>10 DEF RoleInv
<1>14. GcInv'
  BY <1>2, <1>3, <1>7, EmptySeq DEF GcInv
<1>15. TurnInv'
  BY <1>2, <1>3, <1>8 DEF TurnInv, DriverActions
<1>16. QueueInv'
  BY QueueKept
<1>17. AllowInv'
  <2>1. /\ allow[Main] = 0 /\ \A s \in States : allow[s] <= MaxAllow
        /\ \A s \in States : HasBarrier(bs, s) => allow[s] = 0
        /\ \A i \in 1 .. n : allow[fs[i].target] > 0 \/ HasBarrier(bs, fs[i].target)
    BY <1>1, PermitsNow DEF Permits
  <2>2. \A s : HasBarrier(us, s) <=> HasBarrier(bs, s) \/ (s = current /\ b.kind = "protected")
    <3>1. m + 1 \in 1 .. m + 1 /\ \A i \in 1 .. m : i \in 1 .. m + 1
      OBVIOUS
    <3> QED BY <1>1, <1>5, <1>6, <3>1 DEF HasBarrier
  <2>3. Yields(us)
    <3>1. ASSUME NEW j \in 1 .. m + 1, us[j].kind = "protected"
          PROVE  /\ us[j].prevYield <= MaxAllow
                 /\ us[j].prevYield > 0 <=>
                       /\ us[j].owner # Main
                       /\ \A i \in 1 .. m + 1 : i < j => ~(us[i].kind = "protected" /\ us[i].owner = us[j].owner)
      <4>1. \A i \in 1 .. m + 1 : i < j => i \in 1 .. m
        OBVIOUS
      <4>2. \A i \in 1 .. m : i \in 1 .. m + 1
        OBVIOUS
      <4>3. CASE j \in 1 .. m
        <5>1. /\ bs[j].prevYield <= MaxAllow
              /\ bs[j].prevYield > 0 <=>
                    /\ bs[j].owner # Main
                    /\ \A i \in 1 .. m : i < j => ~(bs[i].kind = "protected" /\ bs[i].owner = bs[j].owner)
          BY <1>1, <1>5, <3>1, <4>3, YieldsLeft DEF Yields
        <5>2. (\A i \in 1 .. m : i < j => ~(bs[i].kind = "protected" /\ bs[i].owner = bs[j].owner))
              <=> \A i \in 1 .. m + 1 : i < j => ~(us[i].kind = "protected" /\ us[i].owner = us[j].owner)
          BY <1>5, <4>1, <4>2, <4>3
        <5> QED BY <1>5, <4>3, <5>1, <5>2
      <4>4. CASE j = m + 1
        <5>1. PICK y \in Nat : y = allow[current]
          BY DEF Grounds, Types
        <5>2. us[j].prevYield = y /\ us[j].owner = current /\ y <= MaxAllow
          BY <1>5, <2>1, <3>1, <4>4, <5>1 DEF Grounds, Types
        <5>3. \A i \in 1 .. m : i < j
          BY <4>4
        <5>4. (\A i \in 1 .. m + 1 : i < j => ~(us[i].kind = "protected" /\ us[i].owner = current))
              <=> ~HasBarrier(bs, current)
          <6>1. HasBarrier(bs, current) <=> \E i \in 1 .. m : us[i].kind = "protected" /\ us[i].owner = current
            BY <1>1, <1>5 DEF HasBarrier
          <6> QED BY <4>1, <4>2, <5>3, <6>1
        <5>5. y > 0 => current # Main /\ ~HasBarrier(bs, current)
          <6>1. current \in States
            BY DEF Grounds, Types
          <6>2. HasBarrier(bs, current) => y = 0
            BY <2>1, <5>1, <6>1
          <6>3. current = Main => y = 0
            BY <2>1, <5>1
          <6> QED BY <6>2, <6>3
        <5>6. ASSUME current # Main, ~HasBarrier(bs, current) PROVE y > 0
          <6>1. fs # <<>> /\ current = Chain(fs, n)
            BY <1>1, <5>6, EndOfChain DEF Grounds
          <6>2. n \in 1 .. n /\ n # 0
            BY <1>1, <6>1, EmptySeq
          <6>3. current = fs[n].target
            BY <6>1, <6>2 DEF Chain
          <6> QED BY <2>1, <5>1, <5>6, <6>2, <6>3
        <5> QED BY <5>2, <5>4, <5>5, <5>6
      <4> QED BY <1>6, <4>3, <4>4
    <3> QED BY <1>5, <3>1 DEF Yields
  <2> QED BY <1>1, <1>2, <1>4, <1>7, <2>1, <2>2, <2>3 DEF AllowInv
<1> QED BY <1>8, <1>12, <1>13, <1>14, <1>15, <1>16, <1>17 DEF NestInv

\* What a finalizer may not ask for is asked outside of a drain.
LEMMA OutsideDrain ==
    ASSUME Grounds, Nestable, NEW op, May(op), op \notin {"call", "error", "resume", "upvalue", "yield"}
    PROVE  mode = "lua" /\ GcFrames = <<>> /\ ~InFinalizerNow
<1>1. mode = "lua" /\ ~InFinalizerNow
  BY DEF May, Nestable
<1>2. GcFrames = <<>>
  BY <1>1, Innermost
<1> QED BY <1>1, <1>2

\* pcall and xpcall.
LEMMA NestProtected == ASSUME Grounds, Nestable, RequestProtected PROVE NestInv'
<1>1. PICK handler \in {"none", "ready"} :
          /\ May(IF handler = "none" THEN "pcall" ELSE "xpcall") /\ CanNest(2) /\ Suspends
          /\ boundaries' = Append(Boundaries,
                 [kind |-> "protected", owner |-> current, stop |-> Len(Suspended), native |-> TRUE,
                  parent |-> ActiveRole(Boundaries, GcFrames, current),
                  prevYield |-> allow[current], handler |-> handler])
          /\ Then("startProtected", Role("protected", Len(Suspended)), TRUE)
          /\ frames' = Frames /\ gcFrames' = GcFrames
          /\ UNCHANGED <<current, allow, queue, draining, found, begun, outcome>>
          /\ UNCHANGED threadVars
  BY DEF RequestProtected
<1>2. PICK op : op = (IF handler = "none" THEN "pcall" ELSE "xpcall")
  OBVIOUS
<1>3. mode = "lua" /\ GcFrames = <<>>
  BY <1>1, <1>2, OutsideDrain
<1>4. PICK l \in Nat : l = Len(calls[current]) /\ l + 2 <= MaxDepth /\ MaxDepth \in Nat
  <2>1. calls[current] \in Seq(CallKinds)
    BY LocalSteps
  <2>2. PICK l \in Nat : l = Len(calls[current])
    BY <2>1
  <2>3. l + 2 <= MaxDepth /\ MaxDepth \in Nat
    BY <1>1, <2>2, BoundsAssumption DEF CanNest
  <2> QED BY <2>2, <2>3
<1>5. /\ Suspended \in Seq(CallKinds) /\ Local(Suspended) /\ Suspended[Len(Suspended)] = "native"
      /\ Len(Suspended) = l + 1
      /\ \A j \in 1 .. Len(Boundaries) :
            Boundaries[j].owner = current => Boundaries[j].stop < Len(Suspended)
  BY <1>1, <1>4, SuspendsIs
<1>6. PICK b : b = [kind |-> "protected", owner |-> current, stop |-> Len(Suspended), native |-> TRUE,
                    parent |-> ActiveRole(Boundaries, GcFrames, current),
                    prevYield |-> allow[current], handler |-> handler]
  OBVIOUS
<1>7. b \in Boundary
  <2>1. ActiveRole(Boundaries, GcFrames, current) \in RoleSet /\ allow[current] \in Nat /\ current \in States
    <3>1. GcFrames \in Seq(Drain) /\ Boundaries \in Seq(Boundary)
      BY GcFramesIs, YieldsLeft DEF Grounds
    <3> QED BY <3>1, ActiveRoleIs DEF Grounds, Types
  <2>2. handler \in {"none", "ready", "used"} /\ TRUE \in BOOLEAN
    OBVIOUS
  <2>3. Len(Suspended) \in Nat
    BY <1>5
  <2> QED BY <1>6, <2>1, <2>2, <2>3 DEF Boundary
<1>8. RoleOf(b) = Role("protected", Len(Suspended))
  BY <1>6 DEF RoleOf
<1>9. b.stop < MaxDepth
  BY <1>4, <1>5, <1>6
<1>10. PICK do, ok : do = "startProtected" /\ ok = TRUE
  OBVIOUS
<1>11. Then(do, RoleOf(b), ok) /\ boundaries' = Append(Boundaries, b)
  BY <1>1, <1>6, <1>8, <1>10
<1>12. UNCHANGED <<current, allow, started, queue, found, begun, outcome>>
  BY <1>1 DEF threadVars
<1>13. /\ b.owner = current /\ b.stop = Len(Suspended) /\ (b.native => Suspended[b.stop] = "native")
       /\ (b.kind = "protected" => b.native /\ b.prevYield = allow[current])
       /\ b.parent = ActiveRole(Boundaries, GcFrames, current)
       /\ do = IF b.kind = "protected" THEN "startProtected" ELSE "startHelper"
  BY <1>5, <1>6, <1>10
<1> QED BY <1>1, <1>3, <1>5, <1>7, <1>9, <1>11, <1>12, <1>13, NestOpened

\* The callback of a library function, and a metamethod.
LEMMA NestHelper == ASSUME Grounds, Nestable, RequestHelper PROVE NestInv'
<1>1. PICK native \in BOOLEAN :
          /\ May(IF native THEN "helper" ELSE "metamethod") /\ CanNest(2) /\ (native \/ LuaRuns)
          /\ IF native THEN Suspends ELSE UNCHANGED calls
          /\ LET stop == Len(IF native THEN Suspended ELSE calls[current])
             IN  /\ boundaries' = Append(Boundaries,
                        [kind |-> "helper", owner |-> current, stop |-> stop, native |-> native,
                         parent |-> ActiveRole(Boundaries, GcFrames, current),
                         prevYield |-> 0, handler |-> "none"])
                 /\ Then("startHelper", Role("helper", stop), TRUE)
          /\ frames' = Frames /\ gcFrames' = GcFrames
          /\ UNCHANGED <<current, allow, queue, draining, found, begun, outcome>>
          /\ UNCHANGED threadVars
  BY DEF RequestHelper
<1>2. PICK op : op = (IF native THEN "helper" ELSE "metamethod")
  OBVIOUS
<1>3. mode = "lua" /\ GcFrames = <<>>
  BY <1>1, <1>2, OutsideDrain
<1>4. PICK l \in Nat : l = Len(calls[current]) /\ l + 2 <= MaxDepth /\ MaxDepth \in Nat
  <2>1. calls[current] \in Seq(CallKinds)
    BY LocalSteps
  <2>2. PICK l \in Nat : l = Len(calls[current])
    BY <2>1
  <2>3. l + 2 <= MaxDepth /\ MaxDepth \in Nat
    BY <1>1, <2>2, BoundsAssumption DEF CanNest
  <2> QED BY <2>2, <2>3
<1>5. PICK cs : cs = (IF native THEN Suspended ELSE calls[current])
  OBVIOUS
<1>6. /\ Local(cs) /\ cs \in Seq(CallKinds) /\ Len(cs) <= l + 1 /\ (native => cs[Len(cs)] = "native")
      /\ \A j \in 1 .. Len(Boundaries) : Boundaries[j].owner = current => Boundaries[j].stop < Len(cs)
  <2>1. CASE native
    <3>1. Suspends /\ l < MaxDepth
      BY <1>1, <1>4, <2>1
    <3>2. /\ Suspended \in Seq(CallKinds) /\ Local(Suspended) /\ Suspended[Len(Suspended)] = "native"
          /\ Len(Suspended) = l + 1
          /\ \A j \in 1 .. Len(Boundaries) :
                Boundaries[j].owner = current => Boundaries[j].stop < Len(Suspended)
      BY <1>4, <3>1, SuspendsIs
    <3> QED BY <1>5, <2>1, <3>2
  <2>2. CASE ~native
    <3>1. calls' = calls /\ LuaRuns
      BY <1>1, <2>2
    <3>2. Local(calls[current]) /\ calls[current] \in Seq(CallKinds)
      BY <3>1, LocalSteps
    <3>3. PICK r \in Nat : r = turn.role.stop /\ r <= l
      BY <1>4, Innermost
    <3>4. ASSUME NEW j \in 1 .. Len(Boundaries), Boundaries[j].owner = current
          PROVE  Boundaries[j].stop < l
      <4>1. turn.role.kind # "program" /\ r # l
        BY <1>4, <3>1, <3>3, <3>4, Innermost DEF LuaRuns, InTarget
      <4>2. Boundaries[j] \in Boundary
        BY YieldsLeft, ElementOfSeq
      <4>3. PICK x \in Nat : x = Boundaries[j].stop
        BY <4>2 DEF Boundary
      <4>4. x <= r
        BY <3>3, <3>4, <4>3, Innermost
      <4>5. x < l
        BY <3>3, <4>1, <4>4
      <4> QED BY <4>3, <4>5
    <3>5. l <= l + 1
      OBVIOUS
    <3> QED BY <1>4, <1>5, <2>2, <3>2, <3>4, <3>5
  <2> QED BY <2>1, <2>2
<1>7. PICK d \in Nat : d = Len(cs) /\ d < MaxDepth
  <2>1. Len(cs) \in Nat
    BY <1>6
  <2>2. Len(cs) < MaxDepth
    BY <1>4, <1>6, <2>1
  <2> QED BY <2>1, <2>2
<1>8. PICK b : b = [kind |-> "helper", owner |-> current, stop |-> d, native |-> native,
                    parent |-> ActiveRole(Boundaries, GcFrames, current),
                    prevYield |-> 0, handler |-> "none"]
  OBVIOUS
<1>9. b \in Boundary
  <2>1. ActiveRole(Boundaries, GcFrames, current) \in RoleSet /\ current \in States
    <3>1. GcFrames \in Seq(Drain) /\ Boundaries \in Seq(Boundary)
      BY GcFramesIs, YieldsLeft DEF Grounds
    <3> QED BY <3>1, ActiveRoleIs DEF Grounds, Types
  <2>2. "none" \in {"none", "ready", "used"} /\ 0 \in Nat
    OBVIOUS
  <2> QED BY <1>8, <2>1, <2>2 DEF Boundary
<1>10. PICK do, ok : do = "startHelper" /\ ok = TRUE
  OBVIOUS
<1>11. Then(do, RoleOf(b), ok) /\ boundaries' = Append(Boundaries, b)
  BY <1>1, <1>5, <1>7, <1>8, <1>10 DEF RoleOf
<1>12. UNCHANGED <<current, allow, started, queue, found, begun, outcome>>
  BY <1>1 DEF threadVars
<1>13. /\ b.owner = current /\ b.stop = Len(cs) /\ (b.native => cs[b.stop] = "native")
       /\ (b.kind = "protected" => b.native /\ b.prevYield = allow[current])
       /\ b.parent = ActiveRole(Boundaries, GcFrames, current) /\ b.stop < MaxDepth
       /\ do = IF b.kind = "protected" THEN "startProtected" ELSE "startHelper"
  BY <1>6, <1>7, <1>8, <1>10
<1> QED BY <1>1, <1>3, <1>6, <1>9, <1>11, <1>12, <1>13, NestOpened

\* The finalizers of the queue q, of f found ones, wait once and were not begun.
Unbegun(q, f) ==
    /\ \A i, j \in 1 .. Len(q) : q[i] = q[j] => i = j
    /\ \A i \in 1 .. Len(q) : q[i] <= f
    /\ \A x \in 1 .. MaxFinalizers :
          /\ begun[x] <= 1
          /\ begun[x] = 1 => x <= f /\ \A i \in 1 .. Len(q) : q[i] # x

\* Outside of a drain this holds, also of the queue with what a collection finds.
LEMMA FoundWaits ==
    ASSUME Grounds, GcFrames = <<>>, NEW n \in found .. MaxFinalizers, Finds(n)
    PROVE  Unbegun(queue', found')
<1>1. queue \in Seq(1 .. MaxFinalizers) /\ found \in Nat /\ MaxFinalizers \in Nat
  BY BoundsAssumption DEF Grounds, Types
<1>2. PICK m \in Nat, k \in Nat : m = Len(queue) /\ k = n - found
  BY <1>1
<1>3. /\ found' = n /\ Len(queue') = m + k /\ (\A i \in 1 .. m : queue'[i] = queue[i])
      /\ \A i \in 1 .. m + k : i > m => queue'[i] = found + (i - m)
  BY <1>2, FindsIs DEF Grounds
<1>4. /\ \A i, j \in 1 .. m : queue[i] = queue[j] => i = j
      /\ \A i \in 1 .. m : queue[i] <= found /\ queue[i] \in Nat
      /\ \A x \in 1 .. MaxFinalizers :
            begun[x] <= 1 /\ (begun[x] = 1 => x <= found /\ \A i \in 1 .. m : queue[i] # x)
  <2>1. \A i \in 1 .. m : queue[i] \in 1 .. MaxFinalizers
    BY <1>1, <1>2
  <2> QED BY <1>1, <1>2, <2>1 DEF Grounds, NestInv, QueueInv
<1>5. \A i \in 1 .. m + k : i \in 1 .. m \/ i > m
  OBVIOUS
<1>6. \A i \in 1 .. m + k : i > m => found < found + (i - m) /\ found + (i - m) <= n
  BY <1>1, <1>2
<1>7. \A i \in 1 .. m + k : queue'[i] <= n
  <2>1. \A i \in 1 .. m : queue'[i] <= n
    BY <1>1, <1>3, <1>4
  <2> QED BY <1>3, <1>5, <1>6, <2>1
<1>8. ASSUME NEW i \in 1 .. m + k, NEW j \in 1 .. m + k, queue'[i] = queue'[j] PROVE i = j
  <2>1. CASE i \in 1 .. m /\ j \in 1 .. m
    BY <1>3, <1>4, <1>8, <2>1
  <2>2. CASE i \in 1 .. m /\ j > m
    BY <1>1, <1>3, <1>4, <1>6, <1>8, <2>2
  <2>3. CASE i > m /\ j \in 1 .. m
    BY <1>1, <1>3, <1>4, <1>6, <1>8, <2>3
  <2>4. CASE i > m /\ j > m
    BY <1>1, <1>3, <1>8, <2>4
  <2> QED BY <1>5, <2>1, <2>2, <2>3, <2>4
<1>9. ASSUME NEW x \in 1 .. MaxFinalizers, begun[x] = 1
      PROVE  x <= n /\ \A i \in 1 .. m + k : queue'[i] # x
  <2>1. x <= found /\ \A i \in 1 .. m : queue[i] # x
    BY <1>4, <1>9
  <2>2. \A i \in 1 .. m + k : i > m => queue'[i] # x
    BY <1>1, <1>3, <1>6, <2>1
  <2> QED BY <1>1, <1>3, <1>5, <2>1, <2>2
<1> QED BY <1>3, <1>4, <1>7, <1>8, <1>9 DEF Unbegun

\* A finalizer that waits was not begun.
LEMMA WaitsUnbegun ==
    ASSUME begun \in [1 .. MaxFinalizers -> Nat], NEW q \in Seq(1 .. MaxFinalizers), NEW f, Unbegun(q, f),
           NEW x \in Range(q)
    PROVE  begun[x] = 0
<1>1. PICK m \in Nat : m = Len(q)
  OBVIOUS
<1>2. PICK i \in 1 .. m : q[i] = x
  BY <1>1 DEF Range
<1>3. x \in 1 .. MaxFinalizers
  <2>1. q[i] \in 1 .. MaxFinalizers
    <3>1. PICK S : S = 1 .. MaxFinalizers
      OBVIOUS
    <3>2. q \in Seq(S) /\ i \in 1 .. Len(q)
      BY <1>1, <3>1
    <3>3. q[i] \in S
      BY <3>2, ElementOfSeq
    <3> QED BY <3>1, <3>3
  <2> QED BY <1>2, <2>1
<1>4. PICK n \in Nat : n = begun[x]
  BY <1>3
<1>5. n <= 1 /\ n # 1
  BY <1>1, <1>2, <1>3, <1>4 DEF Unbegun
<1>6. n = 0
  BY <1>5
<1> QED BY <1>4, <1>6

\* A finalizer is begun.
LEMMA NestDrains ==
    ASSUME Grounds, mode # "action", NEW cs \in Seq(CallKinds), Local(cs), NEW h \in Drain,
           Len(gcFrames') = 1, gcFrames'[1] = h, h.draining, h.owner = current,
           1 <= h.stop, h.stop = Len(cs), h.stop < MaxDepth, h.explicit => cs[h.stop] = "native",
           h.resume.stop < h.stop, RoleAt(Boundaries, Len(Boundaries), current, h.resume),
           h.running \in 1 .. MaxFinalizers, h.running \in Range(queue'),
           queue' \in Seq(1 .. MaxFinalizers), found' \in Nat, Unbegun(queue', found'),
           begun' = [begun EXCEPT ![h.running] = @ + 1],
           NEW ok, Then("startFinalizer", Role("finalizer", h.stop), ok),
           frames' = Frames, boundaries' = Boundaries, UNCHANGED <<current, allow, started, outcome>>
    PROVE  NestInv'
<1>1. /\ mode' = "action" /\ turn'.do = "startFinalizer" /\ turn'.role = Role("finalizer", h.stop)
      /\ Frames' = Frames /\ Boundaries' = boundaries' /\ GcFrames' = gcFrames'
  <2>1. PICK do, role : do = "startFinalizer" /\ role = Role("finalizer", h.stop)
    OBVIOUS
  <2>2. Then(do, role, ok)
    BY <2>1
  <2>3. /\ mode' = "action" /\ turn'.do = do /\ turn'.role = role
        /\ do # "deliver" => Frames' = frames'
        /\ do \notin {"finishProtected", "finishHelper"} => Boundaries' = boundaries'
        /\ do # "deliverCollection" => GcFrames' = gcFrames'
    BY <2>2, AfterEnd
  <2> QED BY <2>1, <2>3
<1>2. /\ boundaries' \in Seq(Boundary) /\ Like(boundaries', Boundaries) /\ Len(boundaries') = Len(Boundaries)
  BY LikeItself
<1>3. /\ IdleInv' /\ Waiting(Frames, calls, started)' /\ CallsInv' /\ StackInv' /\ AllowInv'
      /\ calls'[current] = cs
      /\ \A role : RoleAt(Boundaries, Len(Boundaries), current, role)
                      => RoleAt(Boundaries', Len(Boundaries'), current', role)
  BY <1>1, <1>2, NestLike
<1>4. GcFrames'[1] = h /\ GcFrames' # <<>> /\ gcFrames'[1] = h
  <2>1. PICK gs : gs = gcFrames'
    OBVIOUS
  <2>2. Len(gs) = 1 /\ gs[1] = h /\ GcFrames' = gs
    BY <1>1, <2>1
  <2>3. gs # <<>>
    <3>1. Len(<<>>) = 0
      BY EmptySeq
    <3>2. gs = <<>> => Len(gs) = 0
      BY <3>1
    <3> QED BY <2>2, <3>2
  <2> QED BY <2>1, <2>2, <2>3
<1>5. RoleInv'
  BY <1>1, <1>4 DEF RoleInv
<1>6. TurnInv'
  BY <1>1, <1>4 DEF TurnInv, DriverActions
<1>7. GcInv'
  <2>1. PICK t \in Nat : t = h.stop /\ t = Len(cs) /\ h.running # 0
    BY DEF Drain
  <2>2. RoleAt(Boundaries', Len(Boundaries'), current', h.resume) /\ current' = current
    BY <1>3
  <2>3. 1 <= t /\ t <= t /\ t < MaxDepth /\ (h.explicit => cs[t] = "native") /\ h.resume.stop < t
    BY <2>1
  <2> QED BY <1>1, <1>3, <1>4, <2>1, <2>2, <2>3 DEF GcInv
<1>8. QueueInv'
  <2>1. PICK m \in Nat, x \in 1 .. MaxFinalizers, f \in Nat : m = Len(queue') /\ x = h.running /\ f = found'
    OBVIOUS
  <2>2. /\ \A i, j \in 1 .. m : queue'[i] = queue'[j] => i = j
        /\ \A i \in 1 .. m : queue'[i] <= f
        /\ \A y \in 1 .. MaxFinalizers :
              begun[y] <= 1 /\ (begun[y] = 1 => y <= f /\ \A i \in 1 .. m : queue'[i] # y)
    BY <2>1 DEF Unbegun
  <2>3. PICK i \in 1 .. m : queue'[i] = x
    BY <2>1 DEF Range
  <2>4. begun \in [1 .. MaxFinalizers -> Nat]
    BY DEF Grounds, Types
  <2>5. begun[x] = 0
    <3>1. x \in Range(queue')
      BY <2>1
    <3> QED BY <2>4, <3>1, WaitsUnbegun
  <2>6. begun'[x] = 1 /\ \A y \in 1 .. MaxFinalizers : y # x => begun'[y] = begun[y]
    BY <2>1, <2>4, <2>5
  <2>7. x <= f
    BY <2>2, <2>3
  <2>8. ASSUME NEW y \in 1 .. MaxFinalizers
        PROVE  /\ begun'[y] <= 1 /\ (begun'[y] = 1 => y <= f)
               /\ begun'[y] = 1 /\ (\E j \in 1 .. m : queue'[j] = y) => x = y
    BY <2>2, <2>6, <2>7
  <2> QED BY <1>4, <2>1, <2>2, <2>8 DEF QueueInv
<1> QED BY <1>3, <1>5, <1>6, <1>7, <1>8 DEF NestInv

\* A collection ends, and the code goes on or is answered.
LEMMA NestConcludes ==
    ASSUME Grounds, mode # "action", NEW cs \in Seq(CallKinds), Local(cs), NEW h \in Drain, NEW ok,
           h.owner = current, RoleAt(Boundaries, Len(Boundaries), current, h.resume),
           gcFrames' \in Seq(Drain),
           Then(IF h.explicit THEN "deliverCollection" ELSE "resumeAutomatic", h.resume, ok),
           IF h.explicit
           THEN /\ Len(gcFrames') = 1 /\ gcFrames'[1] = h
                /\ Len(cs) = h.stop /\ cs[h.stop] = "native" /\ h.resume.stop < h.stop
           ELSE gcFrames' = <<>>,
           Unbegun(queue', found'), begun' = begun,
           frames' = Frames, boundaries' = Boundaries, UNCHANGED <<current, allow, started, outcome>>
    PROVE  NestInv'
<1>1. /\ mode' = "action" /\ turn'.role = h.resume
      /\ turn'.do = IF h.explicit THEN "deliverCollection" ELSE "resumeAutomatic"
      /\ Frames' = Frames /\ Boundaries' = boundaries'
      /\ GcFrames' = IF h.explicit THEN Front(gcFrames') ELSE gcFrames'
  <2>1. PICK do, role : do = (IF h.explicit THEN "deliverCollection" ELSE "resumeAutomatic") /\ role = h.resume
    OBVIOUS
  <2>2. Then(do, role, ok)
    BY <2>1
  <2>3. /\ mode' = "action" /\ turn'.do = do /\ turn'.role = role
        /\ do # "deliver" => Frames' = frames'
        /\ do \notin {"finishProtected", "finishHelper"} => Boundaries' = boundaries'
        /\ do # "deliverCollection" => GcFrames' = gcFrames'
        /\ do = "deliverCollection" => GcFrames' = Front(gcFrames')
    BY <2>2, AfterEnd
  <2> QED BY <2>1, <2>3
<1>2. /\ boundaries' \in Seq(Boundary) /\ Like(boundaries', Boundaries) /\ Len(boundaries') = Len(Boundaries)
  BY LikeItself
<1>3. /\ IdleInv' /\ Waiting(Frames, calls, started)' /\ CallsInv' /\ StackInv' /\ AllowInv'
      /\ calls'[current] = cs
      /\ \A role : RoleAt(Boundaries, Len(Boundaries), current, role)
                      => RoleAt(Boundaries', Len(Boundaries'), current', role)
  BY <1>1, <1>2, NestLike
<1>4. GcFrames' = <<>>
  <2>1. CASE h.explicit
    <3>1. PICK gs \in Seq(Drain) : gs = gcFrames' /\ Len(gs) = 1
      BY <2>1
    <3>2. gs # <<>>
      <4>1. Len(<<>>) = 0
        BY EmptySeq
      <4> QED BY <3>1, <4>1
    <3>3. Front(gs) \in Seq(Drain) /\ Len(Front(gs)) = 1 - 1
      BY <3>1, <3>2, FrontIs
    <3>4. Front(gs) = <<>>
      BY <3>3, EmptySeq
    <3> QED BY <1>1, <2>1, <3>1, <3>4
  <2>2. CASE ~h.explicit
    BY <1>1, <2>2
  <2> QED BY <2>1, <2>2
<1>5. RoleInv'
  BY <1>1, <1>3, <1>4 DEF RoleInv
<1>6. h.explicit => Delivers(h.stop)'
  <2>1. ASSUME h.explicit PROVE Len(cs) = h.stop /\ Last(cs) = "native" /\ h.resume.stop < h.stop
    BY <2>1 DEF Last
  <2>2. calls'[current'] = cs
    BY <1>3
  <2> QED BY <1>1, <2>1, <2>2 DEF Delivers, Matches, Top
<1>7. TurnInv'
  BY <1>1, <1>6 DEF TurnInv, DriverActions
<1>8. GcInv'
  <2>1. Len(<<>>) = 0
    BY EmptySeq
  <2>2. PICK gs : gs = gcFrames'
    OBVIOUS
  <2>6. Len(gcFrames') <= 1
    <3>1. CASE h.explicit
      <4>1. Len(gs) = 1
        BY <2>2, <3>1
      <4>2. Len(gs) <= 1
        BY <4>1
      <4> QED BY <2>2, <4>2
    <3>2. CASE ~h.explicit
      <4>1. Len(gs) = 0
        BY <2>1, <2>2, <3>2
      <4>2. Len(gs) <= 1
        BY <4>1
      <4> QED BY <2>2, <4>2
    <3> QED BY <3>1, <3>2
  <2>3. turn'.do = "deliverCollection" => gcFrames'[1].owner = current' /\ gcFrames'[1].resume = turn'.role
    BY <1>1
  <2> QED BY <1>4, <2>6, <2>3 DEF GcInv
<1>9. QueueInv'
  BY DEF Unbegun, QueueInv
<1> QED BY <1>3, <1>5, <1>7, <1>8, <1>9 DEF NestInv

\* The collection g begins the first of the finalizers that wait.
LEMMA NestStartsNext ==
    ASSUME Grounds, mode # "action", NEW cs \in Seq(CallKinds), Local(cs), NEW gs \in Seq(Drain),
           Len(gs) = 0, NEW g \in Drain, NEW waiting \in Seq(1 .. MaxFinalizers), waiting # <<>>,
           StartsNext(gs, g, waiting), queue' = waiting, found' \in Nat, Unbegun(waiting, found'),
           g.owner = current, 1 <= g.stop, g.stop = Len(cs), g.stop < MaxDepth,
           g.explicit => cs[g.stop] = "native",
           g.resume.stop < g.stop, RoleAt(Boundaries, Len(Boundaries), current, g.resume),
           frames' = Frames, boundaries' = Boundaries, UNCHANGED <<current, allow, started, outcome>>
    PROVE  NestInv'
<1>1. PICK x : x = Head(waiting)
  OBVIOUS
<1>2. x \in 1 .. MaxFinalizers /\ x \in Range(waiting)
  BY <1>1, HeadInRange, HeadTailProperties
<1>3. PICK h : h = [g EXCEPT !.draining = TRUE, !.running = x]
  OBVIOUS
<1>4. /\ h \in Drain /\ h.draining /\ h.running = x /\ h.owner = g.owner /\ h.stop = g.stop
      /\ h.explicit = g.explicit /\ h.resume = g.resume
  <2>1. x \in Nat
    BY <1>2, BoundsAssumption
  <2> QED BY <1>3, <2>1 DEF Drain
<1>5. /\ gcFrames' = Append(gs, h) /\ begun' = [begun EXCEPT ![x] = @ + 1]
      /\ Then("startFinalizer", Role("finalizer", g.stop), TRUE)
  BY <1>1, <1>3 DEF StartsNext
<1>6. Len(gcFrames') = 1 /\ gcFrames'[1] = h
  <2>1. PICK hs : hs = Append(gs, h)
    OBVIOUS
  <2>2. Len(hs) = Len(gs) + 1 /\ hs[Len(gs) + 1] = h
    BY <1>4, <2>1, AppendedIs
  <2>3. Len(gs) + 1 = 1
    OBVIOUS
  <2>4. Len(hs) = 1 /\ hs[1] = h
    BY <2>2, <2>3
  <2> QED BY <1>5, <2>1, <2>4
<1>7. PICK ok : ok = TRUE
  OBVIOUS
<1>8. Then("startFinalizer", Role("finalizer", h.stop), ok)
  BY <1>4, <1>5, <1>7
<1>9. /\ h.owner = current /\ 1 <= h.stop /\ h.stop = Len(cs) /\ h.stop < MaxDepth
      /\ (h.explicit => cs[h.stop] = "native") /\ h.resume.stop < h.stop
      /\ RoleAt(Boundaries, Len(Boundaries), current, h.resume)
      /\ h.running \in 1 .. MaxFinalizers /\ h.running \in Range(queue')
      /\ queue' \in Seq(1 .. MaxFinalizers) /\ Unbegun(queue', found')
      /\ begun' = [begun EXCEPT ![h.running] = @ + 1]
  BY <1>2, <1>4, <1>5
<1> QED BY <1>4, <1>6, <1>8, <1>9, NestDrains

\* The collection g ends.
LEMMA NestConcluded ==
    ASSUME Grounds, mode # "action", NEW cs \in Seq(CallKinds), Local(cs), NEW gs \in Seq(Drain),
           Len(gs) = 0, NEW g \in Drain, NEW good \in BOOLEAN, Concludes(gs, g, good),
           Unbegun(queue', found'), begun' = begun, g.owner = current,
           g.explicit => Len(cs) = g.stop /\ cs[g.stop] = "native" /\ g.resume.stop < g.stop,
           RoleAt(Boundaries, Len(Boundaries), current, g.resume),
           frames' = Frames, boundaries' = Boundaries, UNCHANGED <<current, allow, started, outcome>>
    PROVE  NestInv'
<1>1. PICK h : h = [g EXCEPT !.draining = FALSE, !.running = 0]
  OBVIOUS
<1>2. /\ h \in Drain /\ h.owner = g.owner /\ h.stop = g.stop
      /\ h.explicit = g.explicit /\ h.resume = g.resume
  BY <1>1 DEF Drain
<1>3. /\ gcFrames' = IF g.explicit THEN Append(gs, h) ELSE gs
      /\ Then(IF g.explicit THEN "deliverCollection" ELSE "resumeAutomatic", g.resume, good)
  BY <1>1 DEF Concludes
<1>4. /\ gcFrames' \in Seq(Drain)
      /\ IF h.explicit
         THEN /\ Len(gcFrames') = 1 /\ gcFrames'[1] = h
              /\ Len(cs) = h.stop /\ cs[h.stop] = "native" /\ h.resume.stop < h.stop
         ELSE gcFrames' = <<>>
  <2>1. CASE g.explicit
    <3>1. PICK hs : hs = Append(gs, h)
      OBVIOUS
    <3>2. Len(hs) = Len(gs) + 1 /\ hs[Len(gs) + 1] = h /\ hs \in Seq(Drain)
      BY <1>2, <3>1, AppendedIs
    <3>3. Len(gs) + 1 = 1
      OBVIOUS
    <3>4. Len(hs) = 1 /\ hs[1] = h
      BY <3>2, <3>3
    <3> QED BY <1>2, <1>3, <2>1, <3>1, <3>2, <3>4
  <2>2. CASE ~g.explicit
    <3>1. gs = <<>>
      BY EmptySeq
    <3> QED BY <1>2, <1>3, <2>2, <3>1
  <2> QED BY <2>1, <2>2
<1>5. /\ h.owner = current /\ RoleAt(Boundaries, Len(Boundaries), current, h.resume)
      /\ Then(IF h.explicit THEN "deliverCollection" ELSE "resumeAutomatic", h.resume, good)
  BY <1>2, <1>3
<1> QED BY <1>2, <1>4, <1>5, NestConcludes

\* Collections that find nothing to run or run the first finalizer.
LEMMA NestCollection ==
    ASSUME Grounds, mode = "lua", GcFrames = <<>>, NEW cs \in Seq(CallKinds), Local(cs), NEW g \in Drain,
           g.owner = current, 1 <= g.stop, g.stop = Len(cs), g.stop < MaxDepth,
           g.explicit => cs[g.stop] = "native",
           g.resume.stop < g.stop, RoleAt(Boundaries, Len(Boundaries), current, g.resume),
           NEW n \in found .. MaxFinalizers, Finds(n),
           \/ StartsNext(GcFrames, g, queue') /\ queue' # <<>>
           \/ Concludes(GcFrames, g, TRUE) /\ begun' = begun,
           frames' = Frames, boundaries' = Boundaries, UNCHANGED <<current, allow, started, outcome>>
    PROVE  NestInv'
<1>1. PICK gs \in Seq(Drain) : gs = GcFrames /\ Len(gs) = 0
  BY EmptySeq
<1>2. Unbegun(queue', found') /\ queue' \in Seq(1 .. MaxFinalizers) /\ found' \in Nat
  BY FoundWaits, FindsIs DEF Grounds
<1>3. CASE StartsNext(GcFrames, g, queue') /\ queue' # <<>>
  <2>1. PICK waiting \in Seq(1 .. MaxFinalizers) : waiting = queue' /\ waiting # <<>>
    BY <1>2, <1>3
  <2>2. StartsNext(gs, g, waiting) /\ Unbegun(waiting, found')
    BY <1>1, <1>2, <1>3, <2>1
  <2> QED BY <1>1, <1>2, <2>1, <2>2, NestStartsNext
<1>4. CASE Concludes(GcFrames, g, TRUE) /\ begun' = begun
  <2>1. PICK good \in BOOLEAN : good = TRUE
    OBVIOUS
  <2>2. Concludes(gs, g, good)
    BY <1>1, <1>4, <2>1
  <2> QED BY <1>1, <1>2, <1>4, <2>1, <2>2, NestConcluded
<1> QED BY <1>3, <1>4

\* collectgarbage.
LEMMA NestCollect == ASSUME Grounds, Nestable, RequestCollect PROVE NestInv'
<1>1. May("collect") /\ CanNest(2) /\ Suspends
  BY DEF RequestCollect
<1>2. mode = "lua" /\ GcFrames = <<>>
  <2>1. PICK op : op = "collect"
    OBVIOUS
  <2>2. May(op) /\ op \notin {"call", "error", "resume", "upvalue", "yield"}
    BY <1>1, <2>1
  <2> QED BY <2>2, OutsideDrain
<1>3. PICK bs \in Seq(Boundary), ds \in Seq(Drain) : bs = Boundaries /\ ds = GcFrames
  BY YieldsLeft, GcFramesIs DEF Grounds
<1>4. PICK cs : cs = Suspended
  OBVIOUS
<1>5. PICK l \in Nat : l = Len(calls[current]) /\ l + 2 <= MaxDepth /\ MaxDepth \in Nat
  <2>1. calls[current] \in Seq(CallKinds)
    BY LocalSteps
  <2>2. PICK l \in Nat : l = Len(calls[current])
    BY <2>1
  <2>3. l + 2 <= MaxDepth /\ MaxDepth \in Nat
    BY <1>1, <2>2, BoundsAssumption DEF CanNest
  <2> QED BY <2>2, <2>3
<1>6. /\ cs \in Seq(CallKinds) /\ Local(cs) /\ Len(cs) = l + 1 /\ cs[l + 1] = "native"
      /\ \A j \in 1 .. Len(bs) : bs[j].owner = current => bs[j].stop < l + 1
  <2>1. l < MaxDepth
    BY <1>5
  <2>2. /\ Suspended \in Seq(CallKinds) /\ Local(Suspended) /\ Suspended[Len(Suspended)] = "native"
        /\ Len(Suspended) = l + 1
        /\ \A j \in 1 .. Len(bs) : bs[j].owner = current => bs[j].stop < Len(Suspended)
    BY <1>1, <1>3, <1>5, <2>1, SuspendsIs
  <2> QED BY <1>4, <2>2
<1>7. PICK role : role = ActiveRole(bs, ds, current)
  OBVIOUS
<1>8. RoleAt(bs, Len(bs), current, role) /\ role \in RoleSet
  BY <1>2, <1>3, <1>7, ActiveIsInner, ActiveRoleIs
<1>9. role.stop < l + 1
  <2>1. StopsGrow(bs)
    BY <1>3 DEF Grounds, NestInv, StackInv
  <2>2. CASE role.kind = "program"
    BY <1>8, <2>1, <2>2, RoleIsInner DEF ProgramRole, Role
  <2>3. CASE role.kind # "program"
    <3>1. PICK i \in 1 .. Len(bs) : bs[i].owner = current /\ role = RoleOf(bs[i])
      BY <1>8, <2>1, <2>3, RoleIsInner
    <3> QED BY <1>6, <3>1 DEF RoleOf, Role
  <2> QED BY <2>2, <2>3
<1>10. PICK d \in Nat : d = l + 1
  BY <1>5
<1>11. PICK g : g = [owner |-> current, stop |-> Len(Suspended), draining |-> FALSE, running |-> 0,
                     explicit |-> TRUE, resume |-> ActiveRole(Boundaries, GcFrames, current)]
  OBVIOUS
<1>12. g = [owner |-> current, stop |-> d, draining |-> FALSE, running |-> 0,
            explicit |-> TRUE, resume |-> role]
  BY <1>3, <1>4, <1>6, <1>7, <1>10, <1>11
<1>13. g \in Drain
  <2>1. 0 \in Nat /\ current \in States
    BY DEF Grounds, Types
  <2> QED BY <1>8, <1>12, <2>1 DEF Drain
<1>14. PICK n \in found .. MaxFinalizers :
          /\ Finds(n)
          /\ \/ StartsNext(GcFrames, g, queue') /\ queue' # <<>>
             \/ Concludes(GcFrames, g, TRUE) /\ begun' = begun
  BY <1>11 DEF RequestCollect
<1>15. /\ frames' = Frames /\ boundaries' = Boundaries /\ UNCHANGED <<current, allow, started, outcome>>
  BY DEF RequestCollect, threadVars
<1>16. /\ g.owner = current /\ g.stop = d /\ g.explicit /\ g.resume = role
       /\ 1 <= d /\ d = Len(cs) /\ d < MaxDepth /\ cs[d] = "native" /\ role.stop < d
  <2>1. g.owner = current /\ g.stop = d /\ g.explicit /\ g.resume = role
    BY <1>12
  <2>2. 1 <= d /\ d < MaxDepth
    BY <1>5, <1>10
  <2>3. d = Len(cs) /\ cs[d] = "native" /\ role.stop < d
    BY <1>6, <1>9, <1>10
  <2> QED BY <2>1, <2>2, <2>3
<1>17. /\ g.owner = current /\ 1 <= g.stop /\ g.stop = Len(cs) /\ g.stop < MaxDepth
       /\ (g.explicit => cs[g.stop] = "native") /\ g.resume.stop < g.stop
       /\ RoleAt(Boundaries, Len(Boundaries), current, g.resume)
  BY <1>3, <1>8, <1>16
<1> QED BY <1>2, <1>6, <1>13, <1>14, <1>15, <1>17, NestCollection

\* The automatic checkpoint.
LEMMA NestAutomatic == ASSUME Grounds, Nestable, AutomaticGc PROVE NestInv'
<1>1. May("automatic") /\ LuaRuns /\ CanNest(1)
  BY DEF AutomaticGc
<1>2. mode = "lua" /\ GcFrames = <<>> /\ ~InFinalizerNow
  <2>1. PICK op : op = "automatic"
    OBVIOUS
  <2>2. May(op) /\ op \notin {"call", "error", "resume", "upvalue", "yield"}
    BY <1>1, <2>1
  <2> QED BY <2>2, OutsideDrain
<1>3. PICK g : g = [owner |-> current, stop |-> Len(calls[current]), draining |-> FALSE,
                    running |-> 0, explicit |-> FALSE, resume |-> turn.role]
  OBVIOUS
<1>4. /\ \E n \in found .. MaxFinalizers :
            /\ Finds(n)
            /\ \/ StartsNext(GcFrames, g, queue') /\ queue' # <<>>
               \/ Concludes(GcFrames, g, TRUE) /\ begun' = begun
      /\ frames' = Frames /\ boundaries' = Boundaries
      /\ UNCHANGED <<current, calls, allow, started, outcome>>
  BY <1>2, <1>3 DEF AutomaticGc, threadVars
<1>5. PICK n \in found .. MaxFinalizers :
            /\ Finds(n)
            /\ \/ StartsNext(GcFrames, g, queue') /\ queue' # <<>>
               \/ Concludes(GcFrames, g, TRUE) /\ begun' = begun
  BY <1>4
<1>6. PICK cs : cs = calls[current]
  OBVIOUS
<1>7. cs \in Seq(CallKinds) /\ Local(cs)
  BY <1>4, <1>6, LocalSteps
<1>8. PICK l \in Nat : l = Len(cs) /\ 1 <= l /\ l < MaxDepth
  <2>1. PICK l \in Nat : l = Len(cs)
    BY <1>7
  <2>2. 1 <= l
    BY <1>6, <2>1, LocalSteps
  <2>3. l + 1 <= MaxDepth /\ MaxDepth \in Nat
    BY <1>1, <1>6, <2>1, BoundsAssumption DEF CanNest
  <2>4. l < MaxDepth
    BY <2>3
  <2> QED BY <2>1, <2>2, <2>4
<1>9. PICK r \in Nat : r = turn.role.stop /\ r <= l /\ turn.role \in RoleSet
  BY <1>6, <1>8, Innermost DEF Grounds, Types
<1>10. r < l
  <2>1. CASE turn.role.kind = "program"
    BY <1>8, <1>9, <2>1, Innermost DEF ProgramRole, Role
  <2>2. CASE turn.role.kind # "program"
    <3>1. r # l
      BY <1>1, <1>6, <1>8, <1>9, <2>2 DEF LuaRuns, InTarget
    <3> QED BY <1>9, <3>1
  <2> QED BY <2>1, <2>2
<1>11. g \in Drain
  <2>1. 0 \in Nat /\ current \in States
    BY DEF Grounds, Types
  <2> QED BY <1>3, <1>6, <1>8, <1>9, <2>1 DEF Drain
<1>12. RoleAt(Boundaries, Len(Boundaries), current, turn.role)
  BY <1>2 DEF Grounds, NestInv, RoleInv
<1>13. /\ g.owner = current /\ 1 <= g.stop /\ g.stop = Len(cs) /\ g.stop < MaxDepth
       /\ (g.explicit => cs[g.stop] = "native") /\ g.resume.stop < g.stop
       /\ RoleAt(Boundaries, Len(Boundaries), current, g.resume)
  BY <1>3, <1>6, <1>8, <1>9, <1>10, <1>12
<1> QED BY <1>2, <1>4, <1>5, <1>7, <1>11, <1>13, NestCollection

\* A fault ends the session.
LEMMA NestFault == ASSUME Grounds, Nestable, Fault PROVE NestInv'
<1>1. May("fault") /\ CanNest(1) /\ Suspends
  BY DEF Fault
<1>2. mode = "lua" /\ GcFrames = <<>>
  <2>1. PICK op : op = "fault"
    OBVIOUS
  <2>2. May(op) /\ op \notin {"call", "error", "resume", "upvalue", "yield"}
    BY <1>1, <2>1
  <2> QED BY <2>2, OutsideDrain
<1>3. Local(Suspended)
  <2>1. calls[current] \in Seq(CallKinds)
    BY LocalSteps
  <2>2. PICK l \in Nat : l = Len(calls[current])
    BY <2>1
  <2>3. l + 1 <= MaxDepth /\ MaxDepth \in Nat
    BY <1>1, <2>2, BoundsAssumption DEF CanNest
  <2>4. l < MaxDepth
    BY <2>3
  <2> QED BY <1>1, <2>2, <2>4, SuspendsIs
<1>4. /\ CloseSession("fault", frames, boundaries, status, link, allow)
      /\ UNCHANGED <<started, queue, found, begun>>
  BY DEF Fault
<1>5. Bottoms(calls', started)
  <2>1. started \subseteq started' /\ current \in started' \cup {Main} /\ started' = started
    BY <1>2, <1>4, RunningIsStarted
  <2>2. PICK cs : cs = Suspended
    OBVIOUS
  <2>3. Bottoms(calls', started')
    BY <1>3, <2>1, <2>2, LocalStep
  <2> QED BY <2>1, <2>3
<1>6. PICK result : result = "fault"
  OBVIOUS
<1>7. CloseSession(result, frames, boundaries, status, link, allow) /\ result # "protocol"
  BY <1>4, <1>6
<1> QED BY <1>2, <1>4, <1>5, <1>7, NestEnds

\* A coroutine stopped, and its resume is answered.
LEMMA NestStopCoroutine == ASSUME Grounds, StopCoroutine PROVE NestInv'
<1>1. mode \in {"returned", "yielded", "raised"} /\ turn.role.kind = "program" /\ current # Main
  BY DEF StopCoroutine
<1>2. PICK bs \in Seq(Boundary), fs \in Seq(Activation) : bs = Boundaries /\ fs = Frames
  BY YieldsLeft, EndOfChain DEF Grounds
<1>3. GcFrames = <<>> /\ turn.role = ProgramRole /\ \A j \in 1 .. Len(bs) : bs[j].owner # current
  BY <1>1, <1>2, Innermost
<1>4. fs # <<>> /\ Last(fs).target = current
  BY <1>1, <1>2, EndOfChain DEF Grounds, ChainInv
<1>5. CASE allow[current] = 0
  <2>1. /\ CloseSession("vm", frames, boundaries, status, link, allow)
        /\ UNCHANGED <<calls, started, queue, found, begun>>
    BY <1>5 DEF StopCoroutine
  <2>2. PICK result : result = "vm"
    OBVIOUS
  <2>3. CloseSession(result, frames, boundaries, status, link, allow) /\ result # "protocol"
    BY <2>1, <2>2
  <2>4. Bottoms(calls', started)
    BY <2>1 DEF Grounds, NestInv, CallsInv
  <2> QED BY <1>3, <2>1, <2>3, <2>4, NestEnds
<1>6. CASE allow[current] # 0
  <2>1. PICK n \in Nat : /\ Len(fs) = n + 1 /\ Len(Front(fs)) = n /\ Last(fs) = fs[n + 1]
                         /\ Front(fs) \in Seq(Activation)
                         /\ \A i \in 1 .. n : Front(fs)[i] = fs[i]
    BY <1>4, FramesSplit
  <2>2. PICK f \in Activation, gs \in Seq(Activation) : f = fs[n + 1] /\ f = Last(fs) /\ gs = Front(fs)
    <3>1. fs[n + 1] \in Activation
      <4>1. n + 1 \in 1 .. Len(fs)
        BY <2>1
      <4> QED BY <4>1, ElementOfSeq
    <3> QED BY <2>1, <3>1
  <2>3. /\ f.caller \in started \cup {Main} /\ Len(calls[f.caller]) = Len(f.saved)
        /\ calls[f.caller][Len(f.saved)] = "native"
        /\ f.caller # current /\ f.caller \in States /\ f.caller = Chain(fs, n)
    <3>1. n + 1 \in 1 .. n + 1 /\ (n + 1) - 1 = n
      OBVIOUS
    <3>2. Waiting(fs, calls, started)
      BY <1>2 DEF Grounds, NestInv
    <3>3. /\ f.caller \in started \cup {Main} /\ Len(calls[f.caller]) = Len(f.saved)
          /\ calls[f.caller][Len(f.saved)] = "native"
      BY <2>1, <2>2, <3>1, <3>2 DEF Waiting
    <3>4. f.caller # current /\ f.caller \in States /\ f.caller = Chain(fs, n)
      BY <1>2, <2>1, <2>2, <3>1, EndOfChain DEF Grounds
    <3> QED BY <3>3, <3>4
  <2>4. PICK stopped : stopped = [status EXCEPT ![current] =
                                      IF mode = "yielded" THEN "Suspended" ELSE "Dead"]
    OBVIOUS
  <2>5. f.caller # Main => stopped[f.caller] = "Normal"
    <3>1. ASSUME f.caller # Main PROVE stopped[f.caller] = "Normal"
      <4>1. n # 0 /\ f.caller = fs[n].target
        BY <2>3, <3>1 DEF Chain
      <4>2. n \in 1 .. Len(fs)
        BY <2>1, <4>1
      <4>3. f.caller \in Targets(fs) /\ f.caller \in Coroutines
        BY <2>3, <3>1, <4>1, <4>2 DEF Targets, States
      <4>4. status[f.caller] = "Normal" /\ status \in [Coroutines -> Statuses]
        BY <1>2, <2>3, <4>3 DEF Grounds, ThreadInv, Types
      <4> QED BY <2>3, <2>4, <4>3, <4>4
    <3> QED BY <3>1
  <2>6. PICK h : h = [f EXCEPT !.replay = FALSE]
    OBVIOUS
  <2>7. h \in Activation /\ h.caller = f.caller /\ h.saved = f.saved /\ ~h.replay
    BY <2>6 DEF Activation
  <2>8. PICK role \in RoleSet : role = ActiveRole(bs, GcFrames, f.caller)
    BY <1>2, ActiveRoleIs, GcFramesIs DEF Grounds
  <2>9. /\ allow' = [allow EXCEPT ![current] = @ - 1]
        /\ frames' = Append(gs, h) /\ boundaries' = bs /\ gcFrames' = <<>>
        /\ current' = f.caller /\ Then("deliver", role, TRUE)
        /\ UNCHANGED <<calls, started, queue, draining, found, begun, outcome>>
    <3>1. ~(Frames = <<>> \/ (Frames # <<>> /\ Last(Frames).target # current))
      BY <1>2, <1>4
    <3>2. PICK dead \in BOOLEAN : dead = (f.caller # Main /\ stopped[f.caller] = "Dead")
      OBVIOUS
    <3>3. dead = FALSE
      BY <2>5, <3>2
    <3>4. /\ allow' = [allow EXCEPT ![current] = @ - 1]
          /\ frames' = Append(Front(Frames), [f EXCEPT !.replay = dead])
          /\ boundaries' = Boundaries /\ gcFrames' = GcFrames
          /\ current' = f.caller
          /\ Then("deliver", ActiveRole(Boundaries, GcFrames, f.caller), TRUE)
          /\ UNCHANGED <<calls, started, queue, draining, found, begun, outcome>>
      BY <1>2, <1>6, <2>2, <2>4, <3>1, <3>2 DEF StopCoroutine
    <3> QED BY <1>2, <1>3, <2>2, <2>6, <2>8, <3>3, <3>4
  <2>10. /\ mode' = "action" /\ turn'.do = "deliver" /\ turn'.role = role
         /\ Frames' = gs /\ Boundaries' = bs /\ GcFrames' = gcFrames'
    <3>1. PICK do, ok : do = "deliver" /\ ok = TRUE
      OBVIOUS
    <3>2. Then(do, role, ok)
      BY <2>9, <3>1
    <3>3. /\ mode' = "action" /\ turn'.do = do /\ turn'.role = role
          /\ do = "deliver" => Frames' = Front(frames')
          /\ do \notin {"finishProtected", "finishHelper"} => Boundaries' = boundaries'
          /\ do # "deliverCollection" => GcFrames' = gcFrames'
      BY <3>2, AfterEnd
    <3>4. Front(Append(gs, h)) = gs
      BY <2>7, AppendedIs
    <3> QED BY <2>9, <3>1, <3>3, <3>4
  <2>11. Last(frames') = h /\ ~Last(frames').replay
    <3>1. Last(Append(gs, h)) = h
      BY <2>7, AppendedIs
    <3> QED BY <2>7, <2>9, <3>1
  <2>12. IdleInv'
    BY <2>9, <2>10 DEF IdleInv, Grounds, NestInv
  <2>13. StackInv'
    <3>1. Owned(bs, fs) /\ StopsGrow(bs) /\ Parents(bs) /\ Standing(bs, calls, current)
      BY <1>2 DEF Grounds, NestInv, StackInv
    <3>2. Owned(bs, gs)
      BY <1>3, <1>4, <2>2, <3>1, OwnedShrunk
    <3>3. \A cur : Standing(bs, calls, cur)
      BY <1>3, <3>1 DEF Standing
    <3> QED BY <2>9, <2>10, <3>1, <3>2, <3>3 DEF StackInv
  <2>14. RoleAt(bs, Len(bs), f.caller, role)
    <3>1. PICK ds \in Seq(Drain) : ds = GcFrames
      BY GcFramesIs DEF Grounds
    <3> QED BY <1>3, <2>8, <3>1, ActiveIsInner
  <2>15. RoleInv'
    BY <2>9, <2>10, <2>14 DEF RoleInv
  <2>16. GcInv'
    BY <2>9, <2>10, EmptySeq DEF GcInv
  <2>17. Waiting(Frames, calls, started)'
    <3>1. Waiting(fs, calls, started)
      BY <1>2 DEF Grounds, NestInv
    <3>2. \A i \in 1 .. n : i \in 1 .. Len(fs) /\ gs[i] = fs[i]
      BY <2>1, <2>2
    <3>3. Waiting(gs, calls, started)
      BY <2>1, <2>2, <3>1, <3>2 DEF Waiting
    <3> QED BY <2>9, <2>10, <3>3
  <2>18. CallsInv'
    BY <2>3, <2>9, <2>10 DEF CallsInv, Grounds, NestInv
  <2>19. TurnInv'
    <3>1. PICK cs \in Seq(CallKinds) : cs = calls[f.caller]
      BY <2>3 DEF Grounds, Types
    <3>2. PICK d \in Nat : d = Len(cs) /\ d = Len(f.saved)
      BY <2>3, <3>1
    <3>3. d >= 1
      BY <2>3, <3>1, <3>2 DEF Grounds, NestInv, CallsInv, Bottoms
    <3>4. role.stop < d
      <4>1. StopsGrow(bs) /\ Standing(bs, calls, current)
        BY <1>2 DEF Grounds, NestInv, StackInv
      <4>2. CASE role.kind = "program"
        BY <2>14, <3>3, <4>1, <4>2, RoleIsInner DEF ProgramRole, Role
      <4>3. CASE role.kind # "program"
        <5>1. PICK i \in 1 .. Len(bs) : bs[i].owner = f.caller /\ role = RoleOf(bs[i])
          BY <2>14, <4>1, <4>3, RoleIsInner
        <5>2. bs[i].stop < Len(calls[f.caller])
          BY <2>3, <4>1, <5>1 DEF Standing
        <5> QED BY <3>1, <3>2, <5>1, <5>2 DEF RoleOf, Role
      <4> QED BY <4>2, <4>3
    <3>5. Last(cs) = "native" /\ Len(cs) = d
      BY <2>3, <3>1, <3>2 DEF Last
    <3>6. calls'[current'] = cs /\ Last(frames').saved = f.saved
      BY <2>7, <2>9, <2>11, <3>1
    <3>7. Delivers(Len(Last(frames).saved))'
      <4>1. Len(calls'[current']) = d /\ Last(calls'[current']) = "native" /\ turn'.role.stop < d
        BY <2>10, <3>4, <3>5, <3>6
      <4>2. Len(Last(frames').saved) = d
        BY <3>2, <3>6
      <4> QED BY <4>1, <4>2 DEF Delivers, Matches, Top
    <3> QED BY <2>10, <2>11, <3>7 DEF TurnInv, DriverActions
  <2>20. AllowInv'
    <3>1. /\ allow[Main] = 0 /\ \A s \in States : allow[s] <= MaxAllow
          /\ \A s \in States : HasBarrier(bs, s) => allow[s] = 0
          /\ \A i \in 1 .. Len(fs) : allow[fs[i].target] > 0 \/ HasBarrier(bs, fs[i].target)
      BY <1>1, <1>2, PermitsNow DEF Permits
    <3>2. \A s \in States \ {current} : allow'[s] = allow[s]
      BY <2>9 DEF Grounds, Types
    <3>3. ~HasBarrier(bs, current)
      BY <1>3 DEF HasBarrier
    <3>4. allow'[current] <= MaxAllow
      <4>1. allow[current] \in Nat /\ allow \in [States -> Nat] /\ current \in States /\ MaxAllow \in Nat
        BY BoundsAssumption DEF Grounds, Types
      <4>2. PICK x \in Nat : x = allow[current] /\ x <= MaxAllow
        BY <3>1, <4>1
      <4>3. allow'[current] = x - 1
        BY <2>9, <4>1, <4>2
      <4> QED BY <4>1, <4>2, <4>3
    <3>5. allow'[Main] = 0
      BY <1>1, <3>1, <3>2 DEF States
    <3>6. \A s \in States : allow'[s] <= MaxAllow
      BY <3>1, <3>2, <3>4
    <3>7. \A s \in States : HasBarrier(bs, s) => allow'[s] = 0
      BY <3>1, <3>2, <3>3
    <3>8. \A i \in 1 .. n : allow'[gs[i].target] > 0 \/ HasBarrier(bs, gs[i].target)
      <4>1. ASSUME NEW i \in 1 .. n PROVE allow'[gs[i].target] > 0 \/ HasBarrier(bs, gs[i].target)
        <5>1. i \in 1 .. Len(fs) /\ n + 1 \in 1 .. Len(fs) /\ i # n + 1 /\ gs[i] = fs[i]
          BY <2>1, <2>2
        <5>2. fs[i].target # current
          BY <1>2, <1>4, <2>1, <5>1 DEF Grounds, ThreadInv
        <5>3. fs[i] \in Activation
          BY <5>1, ElementOfSeq
        <5>4. fs[i].target \in States \ {current}
          BY <5>2, <5>3 DEF Activation, States
        <5> QED BY <3>1, <3>2, <5>1, <5>4
      <4> QED BY <4>1
    <3>9. Yields(boundaries')
      BY <1>2, <2>9, YieldsLeft
    <3> QED BY <2>1, <2>2, <2>10, <3>5, <3>6, <3>7, <3>8, <3>9 DEF AllowInv
  <2>21. QueueInv'
    BY <1>3, <2>9, QueueKept
  <2> QED BY <2>12, <2>13, <2>15, <2>16, <2>17, <2>18, <2>19, <2>20, <2>21 DEF NestInv
<1> QED BY <1>5, <1>6

\* The main chunk ends, and nothing is left to be answered.
LEMMA NestStopMain == ASSUME Grounds, StopMain PROVE NestInv'
<1>1. mode \in {"returned", "yielded", "raised"} /\ turn.role.kind = "program" /\ current = Main
  BY DEF StopMain
<1>2. PICK bs \in Seq(Boundary), fs \in Seq(Activation) : bs = Boundaries /\ fs = Frames
  BY YieldsLeft, EndOfChain DEF Grounds
<1>3. GcFrames = <<>> /\ \A j \in 1 .. Len(bs) : bs[j].owner # Main
  BY <1>1, <1>2, Innermost
<1>4. fs = <<>> /\ Len(fs) = 0
  BY <1>1, <1>2, EndOfChain, EmptySeq DEF Grounds
<1>5. \A j \in 1 .. Len(bs) : FALSE
  <2>1. ASSUME NEW j \in 1 .. Len(bs) PROVE bs[j].owner = Main
    <3>1. Owned(bs, fs)
      BY <1>2 DEF Grounds, NestInv, StackInv
    <3>2. PICK p \in 0 .. Len(fs) : bs[j].owner = Chain(fs, p)
      BY <3>1 DEF Owned
    <3>3. p = 0
      BY <1>4
    <3> QED BY <3>2, <3>3 DEF Chain
  <2> QED BY <1>3, <2>1
<1>6. IndexOfKind("protected", bs) = 0
  <2>1. PICK i : i = IndexOfKind("protected", bs)
    OBVIOUS
  <2>2. i # 0 => i \in 1 .. Len(bs)
    BY <2>1, IndexOfKindIs
  <2> QED BY <1>5, <2>1, <2>2
<1>7. /\ CloseSession("done", Frames, Boundaries, status, link, allow)
      /\ UNCHANGED <<calls, started, queue, found, begun>>
  BY <1>2, <1>3, <1>4, <1>6 DEF StopMain
<1>8. PICK result : result = "done"
  OBVIOUS
<1>9. CloseSession(result, Frames, Boundaries, status, link, allow) /\ result # "protocol"
  BY <1>7, <1>8
<1>10. Bottoms(calls', started)
  BY <1>7 DEF Grounds, NestInv, CallsInv
<1> QED BY <1>3, <1>7, <1>9, <1>10, NestEnds

\* The innermost boundary of the running state ends, with an answer or an error.
LEMMA NestLeft ==
    ASSUME Grounds, mode # "action", turn.role.kind \in {"protected", "helper"},
           NEW cs \in Seq(CallKinds), Local(cs), Len(cs) = turn.role.stop,
           NEW do, do = IF turn.role.kind = "protected" THEN "finishProtected" ELSE "finishHelper",
           NEW ok, Then(do, Boundaries[Len(Boundaries)].parent, ok),
           boundaries' = Boundaries, frames' = Frames, gcFrames' = GcFrames,
           UNCHANGED <<current, allow, started, queue, found, begun, outcome>>
    PROVE  NestInv'
<1>1. PICK bs \in Seq(Boundary), fs \in Seq(Activation), m \in Nat :
          bs = Boundaries /\ fs = Frames /\ m = Len(bs)
  <2>1. PICK bs \in Seq(Boundary), fs \in Seq(Activation) : bs = Boundaries /\ fs = Frames
    BY YieldsLeft, EndOfChain DEF Grounds
  <2>2. Len(bs) \in Nat
    OBVIOUS
  <2> QED BY <2>1, <2>2
<1>2. PICK b \in Boundary : /\ b = bs[m] /\ m \in 1 .. m /\ b.owner = current /\ turn.role = RoleOf(b)
                            /\ b.kind = turn.role.kind /\ IndexOfKind(b.kind, bs) = m
  BY <1>1, Innermost
<1>3. GcFrames = <<>>
  BY Innermost
<1>4. b.stop = turn.role.stop /\ b.stop \in Nat /\ b.parent \in RoleSet
  BY <1>2 DEF RoleOf, Role, Boundary
<1>5. do \in {"finishProtected", "finishHelper"} /\ (do = "finishProtected" <=> b.kind = "protected")
      /\ (do = "finishHelper" <=> b.kind = "helper")
  BY <1>2
<1>6. /\ mode' = "action" /\ turn'.do = do /\ turn'.role = b.parent
      /\ Frames' = fs /\ GcFrames' = <<>> /\ PopsBoundary' = m
  <2>1. PICK role : role = b.parent
    OBVIOUS
  <2>2. Then(do, role, ok)
    BY <1>1, <1>2, <2>1
  <2>3. /\ mode' = "action" /\ turn'.do = do /\ turn'.role = role
        /\ do # "deliver" => Frames' = frames'
        /\ do = "finishProtected" => PopsBoundary' = IndexOfKind("protected", boundaries')
        /\ do = "finishHelper" => PopsBoundary' = IndexOfKind("helper", boundaries')
        /\ do # "deliverCollection" => GcFrames' = gcFrames'
    BY <2>2, AfterEnd
  <2>4. PopsBoundary' = m
    BY <1>1, <1>2, <1>5, <2>3
  <2> QED BY <1>1, <1>3, <1>5, <2>1, <2>3, <2>4
<1>7. PICK us \in Seq(Boundary) : us = RemoveAt(bs, m)
  BY <1>1, <1>2, RemoveAtIs
<1>8. Len(us) = m - 1 /\ \A i \in 1 .. m - 1 : us[i] = bs[i]
  <2>1. /\ Len(us) = m - 1
        /\ \A i \in 1 .. m - 1 : us[i] = IF i < m THEN bs[i] ELSE bs[i + 1]
    <3>1. m \in 1 .. Len(bs)
      BY <1>1, <1>2
    <3>2. /\ Len(RemoveAt(bs, m)) = Len(bs) - 1
          /\ \A i \in 1 .. Len(bs) - 1 : RemoveAt(bs, m)[i] = IF i < m THEN bs[i] ELSE bs[i + 1]
      BY <3>1, RemoveAtIs
    <3> QED BY <1>1, <1>7, <3>2
  <2>2. \A i \in 1 .. m - 1 : i < m
    OBVIOUS
  <2> QED BY <2>1, <2>2
<1>9. Boundaries' = us
  <2>1. m # 0
    BY <1>2
  <2> QED BY <1>1, <1>6, <1>7, <2>1 DEF Boundaries
<1>10. Like(us, bs)
  <2>1. \A i \in 1 .. m - 1 : i \in 1 .. m
    OBVIOUS
  <2>2. m - 1 <= m
    OBVIOUS
  <2> QED BY <1>1, <1>8, <2>2 DEF Like
<1>11. /\ IdleInv' /\ Waiting(Frames, calls, started)' /\ CallsInv'
       /\ Standing(Boundaries, calls', current) /\ calls'[current] = cs
  BY <1>1, <1>6, NestTurn
<1>12. Owned(bs, fs) /\ StopsGrow(bs) /\ Parents(bs) /\ Yields(bs) /\ Standing(bs, calls', current)
  BY <1>1, <1>11, YieldsLeft DEF Grounds, NestInv, StackInv
<1>13. StackInv'
  BY <1>6, <1>9, <1>10, <1>12, StackOfPrefix DEF StackInv
<1>14. RoleAt(us, m - 1, current, b.parent)
  <2>1. RoleAt(bs, m - 1, current, b.parent)
    BY <1>1, <1>2, <1>12 DEF Parents
  <2>2. m - 1 \in 0 .. Len(us)
    BY <1>2, <1>8
  <2> QED BY <1>10, <2>1, <2>2, RoleOfLike
<1>15. RoleInv'
  BY <1>6, <1>8, <1>9, <1>14 DEF RoleInv
<1>16. GcInv'
  <2>1. gcFrames' = <<>> /\ turn'.do # "deliverCollection" /\ Len(<<>>) = 0
    BY <1>3, <1>5, <1>6, EmptySeq
  <2> QED BY <1>6, <2>1 DEF GcInv
<1>17. QueueInv'
  BY <1>3, QueueKept
<1>18. /\ 1 <= b.stop /\ (b.native => cs[b.stop] = "native") /\ (b.kind = "protected" => b.native)
  BY <1>1, <1>2, <1>11, <1>12 DEF Standing
<1>19. b.parent.stop < b.stop
  <2>1. RoleAt(us, Len(us), current, b.parent) /\ StopsGrow(us)
    BY <1>8, <1>10, <1>12, <1>14, StackOfPrefix
  <2>2. CASE b.parent.kind = "program"
    BY <1>4, <1>18, <2>1, <2>2, RoleIsInner DEF ProgramRole, Role
  <2>3. CASE b.parent.kind # "program"
    <3>1. PICK i \in 1 .. Len(us) : us[i].owner = current /\ b.parent = RoleOf(us[i])
      <4>1. PICK role, s : role = b.parent /\ s = current
        OBVIOUS
      <4>2. RoleAt(us, Len(us), s, role) /\ StopsGrow(us) /\ role.kind # "program"
        BY <2>1, <2>3, <4>1
      <4>3. \E i \in 1 .. Len(us) : us[i].owner = s /\ role = RoleOf(us[i])
        BY <4>2, RoleIsInner
      <4> QED BY <4>1, <4>3
    <3>2. i \in 1 .. m - 1 /\ i \in 1 .. m /\ i < m
      BY <1>8, <3>1
    <3>3. us[i].stop < b.stop
      BY <1>1, <1>2, <1>8, <1>12, <3>1, <3>2 DEF StopsGrow
    <3> QED BY <3>1, <3>3 DEF RoleOf, Role
  <2> QED BY <2>2, <2>3
<1>20. TurnInv'
  <2>1. boundaries' = bs /\ Len(boundaries') = m /\ boundaries'[Len(boundaries')] = b
    BY <1>1, <1>2
  <2>2. Len(cs) = b.stop /\ b.parent.stop < b.stop /\ (b.native => Last(cs) = "native")
        /\ calls'[current'] = cs /\ current' = current
    BY <1>4, <1>11, <1>18, <1>19 DEF Last
  <2>3. turn'.do \in {"finishProtected", "finishHelper"} =>
          /\ PopsBoundary' = Len(boundaries') /\ boundaries'[Len(boundaries')].owner = current'
          /\ boundaries'[Len(boundaries')].parent = turn'.role
    BY <1>2, <1>6, <2>1, <2>2
  <2>4. /\ Len(calls'[current']) = b.stop /\ turn'.role.stop < b.stop
        /\ (b.native => Matches(current, b.stop)')
        /\ (b.kind = "protected" => b.native)
    BY <1>6, <1>18, <2>2 DEF Matches, Top
  <2> QED BY <1>5, <1>6, <2>1, <2>3, <2>4 DEF TurnInv, DriverActions
<1>21. AllowInv'
  <2>1. /\ allow[Main] = 0 /\ \A s \in States : allow[s] <= MaxAllow
        /\ \A s \in States : HasBarrier(bs, s) => allow[s] = 0
        /\ \A i \in 1 .. Len(fs) : allow[fs[i].target] > 0 \/ HasBarrier(bs, fs[i].target)
    BY <1>1, PermitsNow DEF Permits
  <2>2. \A s : HasBarrier(us, s) => HasBarrier(bs, s)
    <3>1. \A i \in 1 .. m - 1 : i \in 1 .. m
      OBVIOUS
    <3> QED BY <1>1, <1>8, <3>1 DEF HasBarrier
  <2>3. ASSUME NEW s, HasBarrier(bs, s), ~HasBarrier(us, s) PROVE s = current /\ do = "finishProtected"
    <3>1. PICK j \in 1 .. m : bs[j].kind = "protected" /\ bs[j].owner = s
      BY <1>1, <2>3 DEF HasBarrier
    <3>2. CASE j = m
      BY <1>2, <1>5, <3>1, <3>2
    <3>3. CASE j # m
      <4>1. j \in 1 .. m - 1
        BY <3>3
      <4> QED BY <1>8, <2>3, <3>1, <4>1 DEF HasBarrier
    <3> QED BY <3>2, <3>3
  <2>4. \A i \in 1 .. Len(fs) : \/ allow[fs[i].target] > 0 \/ HasBarrier(us, fs[i].target)
                                \/ fs[i].target = current /\ do = "finishProtected"
    BY <2>1, <2>3
  <2>5. Yields(boundaries') /\ allow' = allow /\ current' = current
    BY <1>1, <1>12
  <2> QED BY <1>6, <1>9, <2>1, <2>2, <2>4, <2>5 DEF AllowInv
<1> QED BY <1>11, <1>13, <1>15, <1>16, <1>17, <1>20, <1>21 DEF NestInv

\* The innermost boundary of the running state calls once more.
LEMMA NestAgain ==
    ASSUME Grounds, mode # "action", turn.role.kind \in {"protected", "helper"},
           NEW cs \in Seq(CallKinds), Local(cs), Len(cs) = turn.role.stop,
           NEW do, do = IF turn.role.kind = "protected" THEN "startProtected" ELSE "startHelper",
           NEW ok, Then(do, turn.role, ok),
           boundaries' \in Seq(Boundary), Like(boundaries', Boundaries),
           Len(boundaries') = Len(Boundaries), frames' = Frames, gcFrames' = GcFrames,
           UNCHANGED <<current, allow, started, queue, found, begun, outcome>>
    PROVE  NestInv'
<1>1. GcFrames = <<>>
  BY Innermost
<1>2. do \in {"startProtected", "startHelper"}
  OBVIOUS
<1>3. /\ mode' = "action" /\ turn'.do = do /\ turn'.role = turn.role
      /\ Frames' = Frames /\ Boundaries' = boundaries' /\ GcFrames' = <<>>
  <2>1. PICK role : role = turn.role
    OBVIOUS
  <2>2. Then(do, role, ok)
    BY <2>1
  <2>3. /\ mode' = "action" /\ turn'.do = do /\ turn'.role = role
        /\ do # "deliver" => Frames' = frames'
        /\ do \notin {"finishProtected", "finishHelper"} => Boundaries' = boundaries'
        /\ do # "deliverCollection" => GcFrames' = gcFrames'
    BY <2>2, AfterEnd
  <2> QED BY <1>1, <1>2, <2>1, <2>3
<1>4. /\ IdleInv' /\ Waiting(Frames, calls, started)' /\ CallsInv' /\ StackInv' /\ AllowInv'
      /\ calls'[current] = cs
      /\ \A role : RoleAt(Boundaries, Len(Boundaries), current, role)
                      => RoleAt(Boundaries', Len(Boundaries'), current', role)
  BY <1>3, NestLike
<1>5. RoleInv'
  <2>1. RoleAt(Boundaries, Len(Boundaries), current, turn.role)
    BY <1>1 DEF Grounds, NestInv, RoleInv
  <2> QED BY <1>3, <1>4, <2>1 DEF RoleInv
<1>6. GcInv'
  <2>1. gcFrames' = <<>> /\ turn'.do # "deliverCollection" /\ Len(<<>>) = 0
    BY <1>1, <1>2, <1>3, EmptySeq
  <2> QED BY <1>3, <2>1 DEF GcInv
<1>7. QueueInv'
  BY <1>1, QueueKept
<1>8. TurnInv'
  <2>1. /\ calls'[current'] = cs /\ current' = current
        /\ turn'.do = "startProtected" => turn'.role.kind = "protected"
        /\ turn'.do = "startHelper" => turn'.role.kind = "helper"
        /\ turn'.role.stop = Len(cs)
    BY <1>3, <1>4
  <2> QED BY <1>2, <1>3, <2>1 DEF TurnInv, DriverActions
<1> QED BY <1>4, <1>5, <1>6, <1>7, <1>8 DEF NestInv

\* A pcall, or its handler, ends.
LEMMA NestStopProtected == ASSUME Grounds, StopProtected PROVE NestInv'
<1>1. mode # "action" /\ turn.role.kind = "protected" /\ Unwind(turn.role)
  BY DEF StopProtected
<1>2. PICK bs \in Seq(Boundary), m \in Nat : bs = Boundaries /\ m = Len(bs)
  <2>1. PICK bs \in Seq(Boundary) : bs = Boundaries
    BY YieldsLeft
  <2>2. Len(bs) \in Nat
    OBVIOUS
  <2> QED BY <2>1, <2>2
<1>3. /\ m \in 1 .. m /\ bs[m].owner = current /\ turn.role = RoleOf(bs[m])
      /\ IndexOfKind("protected", bs) = m
  BY <1>1, <1>2, Innermost
<1>4. PICK cs \in Seq(CallKinds) : Local(cs) /\ Len(cs) = turn.role.stop
  BY <1>1, LocalSteps DEF Unwind
<1>5. /\ \/ /\ boundaries' = [bs EXCEPT ![m].handler = "used"]
            /\ Then("startProtected", RoleOf(bs[m]), TRUE)
         \/ /\ boundaries' = bs
            /\ Then("finishProtected", bs[m].parent, mode = "returned")
      /\ frames' = Frames /\ gcFrames' = GcFrames
      /\ UNCHANGED <<current, allow, started, queue, found, begun, outcome>>
  <2>1. PICK i : i = IndexOfKind("protected", Boundaries)
    OBVIOUS
  <2>2. i = m /\ ~(i = 0 \/ (i # 0 /\ Boundaries[i].owner # current))
    BY <1>2, <1>3, <2>1
  <2>3. /\ \/ /\ boundaries' = [Boundaries EXCEPT ![i].handler = "used"]
              /\ Then("startProtected", RoleOf(Boundaries[i]), TRUE)
           \/ /\ boundaries' = Boundaries
              /\ Then("finishProtected", Boundaries[i].parent, mode = "returned")
        /\ frames' = Frames /\ gcFrames' = GcFrames
        /\ UNCHANGED <<current, allow, started, queue, found, begun, outcome>>
    BY <2>1, <2>2 DEF StopProtected, threadVars
  <2> QED BY <1>2, <2>2, <2>3
<1>6. CASE boundaries' = [bs EXCEPT ![m].handler = "used"] /\ Then("startProtected", RoleOf(bs[m]), TRUE)
  <2>1. PICK do, ok : do = "startProtected" /\ ok = TRUE
    OBVIOUS
  <2>2. PICK us : us = [bs EXCEPT ![m].handler = "used"]
    OBVIOUS
  <2>3. m \in 1 .. Len(bs)
    BY <1>2, <1>3
  <2>4. us \in Seq(Boundary) /\ Len(us) = Len(bs) /\ us[m] = [bs[m] EXCEPT !.handler = "used"]
        /\ \A j \in 1 .. Len(bs) : j # m => us[j] = bs[j]
    BY <2>2, <2>3, HandlerUsed
  <2>5. bs[m] \in Boundary
    BY <2>3, ElementOfSeq
  <2>6. /\ us[m].kind = bs[m].kind /\ us[m].owner = bs[m].owner /\ us[m].stop = bs[m].stop
        /\ us[m].native = bs[m].native /\ us[m].parent = bs[m].parent
        /\ us[m].prevYield = bs[m].prevYield
    BY <2>4, <2>5 DEF Boundary
  <2>7. Like(us, bs)
    <3>1. ASSUME NEW i \in 1 .. m
          PROVE  /\ us[i].kind = bs[i].kind /\ us[i].owner = bs[i].owner /\ us[i].stop = bs[i].stop
                 /\ us[i].native = bs[i].native /\ us[i].parent = bs[i].parent
                 /\ us[i].prevYield = bs[i].prevYield
      <4>1. i # m => us[i] = bs[i]
        BY <1>2, <2>4
      <4> QED BY <2>6, <4>1
    <3>2. Len(us) = m /\ m <= m
      BY <1>2, <2>4
    <3> QED BY <1>2, <3>1, <3>2 DEF Like
  <2>8. Then(do, turn.role, ok) /\ boundaries' = us
    BY <1>3, <1>6, <2>1, <2>2
  <2> QED BY <1>1, <1>2, <1>4, <1>5, <2>1, <2>4, <2>7, <2>8, NestAgain
<1>7. CASE boundaries' = bs /\ Then("finishProtected", bs[m].parent, mode = "returned")
  <2>1. PICK do, ok : do = "finishProtected" /\ ok = (mode = "returned")
    OBVIOUS
  <2>2. Then(do, Boundaries[Len(Boundaries)].parent, ok) /\ boundaries' = Boundaries
    BY <1>2, <1>7, <2>1
  <2> QED BY <1>1, <1>4, <1>5, <2>1, <2>2, NestLeft
<1> QED BY <1>5, <1>6, <1>7

\* A callback of a library function or of a metamethod ends.
LEMMA NestStopHelper == ASSUME Grounds, StopHelper PROVE NestInv'
<1>1. mode # "action" /\ turn.role.kind = "helper" /\ Unwind(turn.role)
  BY DEF StopHelper
<1>2. PICK bs \in Seq(Boundary), m \in Nat : bs = Boundaries /\ m = Len(bs)
  <2>1. PICK bs \in Seq(Boundary) : bs = Boundaries
    BY YieldsLeft
  <2>2. Len(bs) \in Nat
    OBVIOUS
  <2> QED BY <2>1, <2>2
<1>3. /\ m \in 1 .. m /\ bs[m].owner = current /\ turn.role = RoleOf(bs[m])
      /\ IndexOfKind("helper", bs) = m
  BY <1>1, <1>2, Innermost
<1>4. PICK cs \in Seq(CallKinds) : Local(cs) /\ Len(cs) = turn.role.stop
  BY <1>1, LocalSteps DEF Unwind
<1>5. /\ \/ Then("startHelper", RoleOf(bs[m]), TRUE)
         \/ \E good : Then("finishHelper", bs[m].parent, good)
      /\ boundaries' = Boundaries /\ frames' = Frames /\ gcFrames' = GcFrames
      /\ UNCHANGED <<current, allow, started, queue, found, begun, outcome>>
  <2>1. PICK i : i = IndexOfKind("helper", Boundaries)
    OBVIOUS
  <2>2. i = m /\ ~(i = 0 \/ (i # 0 /\ Boundaries[i].owner # current))
    BY <1>2, <1>3, <2>1
  <2>3. /\ \/ Then("startHelper", RoleOf(Boundaries[i]), TRUE)
           \/ \E good : Then("finishHelper", Boundaries[i].parent, good)
        /\ boundaries' = Boundaries /\ frames' = Frames /\ gcFrames' = GcFrames
        /\ UNCHANGED <<current, allow, started, queue, found, begun, outcome>>
    BY <2>1, <2>2 DEF StopHelper, threadVars
  <2> QED BY <1>2, <2>2, <2>3
<1>6. CASE Then("startHelper", RoleOf(bs[m]), TRUE)
  <2>1. PICK do, ok : do = "startHelper" /\ ok = TRUE
    OBVIOUS
  <2>2. Then(do, turn.role, ok)
    BY <1>3, <1>6, <2>1
  <2>3. boundaries' \in Seq(Boundary) /\ Like(boundaries', Boundaries) /\ Len(boundaries') = Len(Boundaries)
    BY <1>5, LikeItself
  <2> QED BY <1>1, <1>4, <1>5, <2>1, <2>2, <2>3, NestAgain
<1>7. ASSUME NEW good, Then("finishHelper", bs[m].parent, good) PROVE NestInv'
  <2>1. PICK do : do = "finishHelper"
    OBVIOUS
  <2>2. Then(do, Boundaries[Len(Boundaries)].parent, good)
    BY <1>2, <1>7, <2>1
  <2> QED BY <1>1, <1>4, <1>5, <2>1, <2>2, NestLeft
<1> QED BY <1>5, <1>6, <1>7

\* What is left of the queue when a finalizer is acknowledged was not begun.
LEMMA AcknowledgedWaits ==
    ASSUME Grounds, GcFrames # <<>>, NEW g \in Drain, g = GcFrames[1]
    PROVE  Unbegun(Acknowledged(g), found)
<1> DEFINE I == {i \in 1 .. Len(queue) : queue[i] = g.running}
<1>1. queue \in Seq(1 .. MaxFinalizers) /\ found \in Nat /\ begun \in [1 .. MaxFinalizers -> Nat]
  BY BoundsAssumption DEF Grounds, Types
<1>2. PICK n \in Nat, q \in Seq(1 .. MaxFinalizers), x \in Nat, f \in Nat :
          n = Len(queue) /\ q = queue /\ x = g.running /\ f = found
  BY <1>1 DEF Drain
<1>3. /\ \A i, j \in 1 .. n : q[i] = q[j] => i = j
      /\ \A i \in 1 .. n : q[i] <= f
      /\ \A y \in 1 .. MaxFinalizers :
            /\ begun[y] <= 1 /\ (begun[y] = 1 => y <= f)
            /\ begun[y] = 1 /\ (\E i \in 1 .. n : q[i] = y) => x = y
  BY <1>2 DEF Grounds, NestInv, QueueInv
<1>4. PICK index : index = IF I # {} THEN Min(I) ELSE 0
  OBVIOUS
<1>5. Acknowledged(g) = IF index = 0 THEN q ELSE RemoveAt(q, index)
  BY <1>2, <1>4 DEF Acknowledged, SelectInSeq
<1>6. /\ index = 0 \/ index \in 1 .. n
      /\ index = 0 => \A i \in 1 .. n : q[i] # x
      /\ index # 0 => q[index] = x
  <2>1. I \in SUBSET Nat
    BY <1>2
  <2>2. I # {} => Min(I) \in I
    BY <2>1, HasMin
  <2> QED BY <1>2, <1>4, <2>2
<1>7. CASE index = 0
  <2>1. Unbegun(q, f)
    BY <1>2, <1>3, <1>6, <1>7 DEF Unbegun
  <2> QED BY <1>2, <1>5, <1>7, <2>1
<1>8. CASE index # 0
  <2>1. PICK k \in 1 .. n : k = index
    BY <1>6, <1>8
  <2>2. PICK r : r = RemoveAt(q, k)
    OBVIOUS
  <2>3. /\ Len(r) = n - 1
        /\ \A i \in 1 .. n - 1 : r[i] = IF i < k THEN q[i] ELSE q[i + 1]
    <3>1. k \in 1 .. Len(q)
      BY <1>2
    <3>2. /\ Len(RemoveAt(q, k)) = Len(q) - 1
          /\ \A i \in 1 .. Len(q) - 1 : RemoveAt(q, k)[i] = IF i < k THEN q[i] ELSE q[i + 1]
      BY <3>1, RemoveAtIs
    <3> QED BY <1>2, <2>2, <3>2
  <2>4. \A i \in 1 .. n - 1 : i \in 1 .. n /\ i + 1 \in 1 .. n
    OBVIOUS
  <2>5. ASSUME NEW i \in 1 .. n - 1 PROVE r[i] <= f /\ r[i] # x
    <3>1. CASE i < k
      BY <1>3, <1>6, <1>8, <2>1, <2>3, <2>4, <2>5, <3>1, SMTT(30)
    <3>2. CASE ~(i < k)
      <4>1. i + 1 # k
        BY <3>2
      <4> QED BY <1>3, <1>6, <1>8, <2>1, <2>3, <2>4, <2>5, <3>2, <4>1
    <3> QED BY <3>1, <3>2
  <2>6. ASSUME NEW i \in 1 .. n - 1, NEW j \in 1 .. n - 1, r[i] = r[j] PROVE i = j
    <3>1. PICK a \in 1 .. n, b \in 1 .. n : /\ a = (IF i < k THEN i ELSE i + 1) /\ r[i] = q[a]
                                            /\ b = (IF j < k THEN j ELSE j + 1) /\ r[j] = q[b]
      BY <2>3, <2>4
    <3>2. a = b
      BY <1>3, <2>6, <3>1
    <3> QED BY <3>1, <3>2
  <2>7. \A i \in 1 .. n - 1 : \E a \in 1 .. n : r[i] = q[a]
    BY <2>3, <2>4
  <2>8. ASSUME NEW y \in 1 .. MaxFinalizers
        PROVE  begun[y] <= 1 /\ (begun[y] = 1 => y <= f /\ \A i \in 1 .. n - 1 : r[i] # y)
    <3>1. begun[y] <= 1 /\ (begun[y] = 1 => y <= f)
      BY <1>3
    <3>2. ASSUME begun[y] = 1, NEW i \in 1 .. n - 1, r[i] = y PROVE FALSE
      <4>1. PICK a \in 1 .. n : q[a] = y
        BY <2>7, <3>2
      <4>2. x = y
        BY <1>3, <3>2, <4>1
      <4> QED BY <2>5, <3>2, <4>2
    <3> QED BY <3>1, <3>2
  <2>9. Unbegun(r, f)
    BY <2>3, <2>5, <2>6, <2>8 DEF Unbegun
  <2> QED BY <1>2, <1>5, <1>8, <2>1, <2>2, <2>9
<1> QED BY <1>7, <1>8

\* The callback of a finalizer stopped.
LEMMA NestStopFinalizer == ASSUME Grounds, StopFinalizer PROVE NestInv'
<1>1. mode \in {"returned", "yielded", "raised"} /\ turn.role.kind = "finalizer"
  BY DEF StopFinalizer
<1>2. PICK gs \in Seq(Drain) : gs = GcFrames /\ gs # <<>> /\ Len(gs) = 1
  BY <1>1, Innermost, GcFramesIs DEF Grounds
<1>3. PICK g \in Drain, hs \in Seq(Drain) : g = gs[1] /\ g = Last(gs) /\ hs = Front(gs) /\ Len(hs) = 0
  <2>1. /\ Front(gs) \in Seq(Drain) /\ Len(Front(gs)) = 1 - 1 /\ Last(gs) \in Drain /\ Last(gs) = gs[1]
    BY <1>2, FrontIs
  <2>2. PICK g \in Drain : g = Last(gs)
    BY <2>1
  <2>3. PICK hs \in Seq(Drain) : hs = Front(gs)
    BY <2>1
  <2>4. Len(hs) = 0
    BY <2>1, <2>3
  <2> QED BY <2>1, <2>2, <2>3, <2>4
<1>4. /\ g.owner = current /\ g.draining /\ g.running # 0
      /\ 1 <= g.stop /\ g.stop < MaxDepth /\ (g.explicit => calls[current][g.stop] = "native")
      /\ g.resume.stop < g.stop /\ RoleAt(Boundaries, Len(Boundaries), current, g.resume)
      /\ Len(calls[current]) = g.stop
  BY <1>1, <1>2, <1>3 DEF Grounds, NestInv, GcInv
<1>5. PICK waiting : waiting = Acknowledged(g)
  OBVIOUS
<1>6. waiting \in Seq(1 .. MaxFinalizers) /\ Unbegun(waiting, found) /\ found \in Nat
  <2>1. waiting \in Seq(1 .. MaxFinalizers)
    BY <1>5, AcknowledgedIs DEF Grounds
  <2>2. Unbegun(waiting, found)
    BY <1>2, <1>3, <1>5, AcknowledgedWaits
  <2>3. found \in Nat
    BY BoundsAssumption DEF Grounds, Types
  <2> QED BY <2>1, <2>2, <2>3
<1>7. /\ queue' = waiting
      /\ IF mode # "returned" /\ ~g.explicit
         THEN /\ CloseSession("vm", Frames, Boundaries, status, link, allow)
              /\ UNCHANGED <<calls, started, found, begun>>
         ELSE /\ IF mode = "returned" /\ waiting # <<>>
                 THEN StartsNext(hs, g, waiting)
                 ELSE /\ Concludes(hs, g, mode = "returned")
                      /\ draining' = FALSE /\ begun' = begun
              /\ frames' = Frames /\ boundaries' = Boundaries
              /\ UNCHANGED <<current, calls, allow, found, outcome>>
              /\ UNCHANGED threadVars
  <2>1. ~(GcFrames = <<>> \/ (GcFrames # <<>> /\ ~(/\ Last(GcFrames).draining
                                                   /\ Last(GcFrames).owner = current
                                                   /\ Last(GcFrames).running # 0)))
    BY <1>2, <1>3, <1>4
  <2> QED BY <1>2, <1>3, <1>5, <2>1 DEF StopFinalizer
<1>8. PICK cs \in Seq(CallKinds) : cs = calls[current]
  BY LocalSteps
<1>9. CASE mode # "returned" /\ ~g.explicit
  <2>1. /\ CloseSession("vm", Frames, Boundaries, status, link, allow)
        /\ UNCHANGED <<calls, started, found, begun>>
    BY <1>7, <1>9
  <2>2. PICK result, al, bs : result = "vm" /\ al = allow /\ bs = Boundaries
    OBVIOUS
  <2>3. CloseSession(result, Frames, bs, status, link, al) /\ result # "protocol"
    BY <2>1, <2>2
  <2>4. Bottoms(calls', started')
    BY <2>1 DEF Grounds, NestInv, CallsInv
  <2>5. QueueInv'
    <3>1. queue' = waiting /\ found' = found /\ begun' = begun
      BY <1>7, <2>1
    <3> QED BY <1>6, <3>1 DEF QueueInv, Unbegun
  <2>6. bs \in Seq(Boundary) /\ Yields(bs) /\ al[Main] = 0 /\ \A s \in States : al[s] <= MaxAllow
    BY <2>2, YieldsLeft DEF Grounds, NestInv, AllowInv
  <2> QED BY <2>2, <2>3, <2>4, <2>5, <2>6, NestClosed
<1>10. CASE ~(mode # "returned" /\ ~g.explicit)
  <2>1. /\ IF mode = "returned" /\ waiting # <<>>
           THEN StartsNext(hs, g, waiting)
           ELSE Concludes(hs, g, mode = "returned") /\ begun' = begun
        /\ frames' = Frames /\ boundaries' = Boundaries
        /\ UNCHANGED <<current, calls, allow, started, outcome>> /\ found' = found
    BY <1>7, <1>10 DEF threadVars
  <2>2. Local(cs)
    BY <1>8, <2>1, LocalSteps
  <2>3. /\ g.owner = current /\ 1 <= g.stop /\ g.stop = Len(cs) /\ g.stop < MaxDepth
        /\ (g.explicit => cs[g.stop] = "native") /\ g.resume.stop < g.stop
    BY <1>4, <1>8
  <2>4. mode # "action" /\ queue' = waiting /\ Unbegun(waiting, found') /\ found' \in Nat
    BY <1>1, <1>6, <1>7, <2>1
  <2>5. CASE mode = "returned" /\ waiting # <<>>
    <3>1. StartsNext(hs, g, waiting)
      BY <2>1, <2>5
    <3> QED BY <1>3, <1>4, <1>6, <2>1, <2>2, <2>3, <2>4, <2>5, <3>1, NestStartsNext
  <2>6. CASE ~(mode = "returned" /\ waiting # <<>>)
    <3>1. PICK good \in BOOLEAN : good = (mode = "returned")
      OBVIOUS
    <3>2. Concludes(hs, g, good) /\ begun' = begun
      BY <2>1, <2>6, <3>1
    <3>3. Unbegun(queue', found')
      BY <2>4
    <3>4. g.explicit => Len(cs) = g.stop /\ cs[g.stop] = "native" /\ g.resume.stop < g.stop
      BY <2>3
    <3> QED BY <1>3, <1>4, <2>1, <2>2, <2>3, <2>4, <3>2, <3>3, <3>4, NestConcluded
  <2> QED BY <2>5, <2>6
<1> QED BY <1>9, <1>10

\* A session begins with nothing to be answered.
LEMMA NestBegins == ASSUME Grounds, BeginSession PROVE NestInv'
<1>1. /\ frames = <<>> /\ boundaries = <<>> /\ gcFrames = <<>> /\ turn = NoTurn /\ mode = "idle"
      /\ outcome # "protocol"
  BY DEF BeginSession, Grounds, NestInv, IdleInv
<1>2. owed = FALSE /\ current = Main /\ GcFrames = <<>>
  <2>1. ~owed
    BY <1>1 DEF Grounds, Types
  <2>2. owed = FALSE
    BY <2>1 DEF Grounds, Types
  <2>3. Frames = <<>>
    BY <1>1, <2>1 DEF Frames
  <2>4. turn.do = "none"
    BY <1>1 DEF NoTurn, Turn
  <2> QED BY <1>1, <2>2, <2>3, <2>4 DEF Grounds, ChainInv, GcFrames
<1>3. /\ mode' = "lua" /\ calls' = [calls EXCEPT ![Main] = <<"lua">>]
      /\ turn' = Turn("startProto", ProgramRole, TRUE) /\ outcome' = "none"
      /\ UNCHANGED <<owed, current, allow, frames, boundaries, status, link, started>>
      /\ UNCHANGED <<gcFrames, queue, draining, found, begun>>
  BY DEF BeginSession, threadVars, gcVars
<1>4. turn'.do = "startProto" /\ turn'.role = ProgramRole
  BY <1>3 DEF Turn
<1>5. Frames' = <<>> /\ GcFrames' = <<>> /\ boundaries' = <<>> /\ gcFrames' = <<>>
  BY <1>1, <1>2, <1>3, <1>4 DEF Frames, GcFrames
<1>6. Boundaries' = <<>>
  <2>1. PopsBoundary' = 0
    BY <1>4 DEF PopsBoundary
  <2> QED BY <1>5, <2>1 DEF Boundaries
<1>7. Len(<<>>) = 0 /\ 1 .. 0 = {} /\ 1 .. Len(<<>>) = {}
  BY EmptySeq
<1>8. IdleInv'
  BY <1>3 DEF IdleInv
<1>9. StackInv'
  BY <1>5, <1>6, <1>7 DEF StackInv, Owned, StopsGrow, Parents, Standing
<1>10. RoleInv'
  BY <1>4, <1>5, <1>6, <1>7 DEF RoleInv, RoleAt
<1>11. GcInv'
  BY <1>4, <1>5, <1>7 DEF GcInv
<1>12. Waiting(Frames, calls, started)'
  BY <1>5, <1>7 DEF Waiting
<1>13. CallsInv'
  <2>1. Bottoms(calls, started) /\ calls \in [States -> Seq(CallKinds)]
    BY DEF Grounds, NestInv, CallsInv, Types
  <2>2. Main \in States /\ Main \notin Coroutines /\ \A s \in States : s = Main \/ s \in Coroutines
    BY StatesAssumption DEF States
  <2>3. calls'[Main] = <<"lua">> /\ \A c \in Coroutines : calls'[c] = calls[c]
    BY <1>3, <2>1, <2>2 DEF States
  <2>4. PICK cs : cs = <<"lua">>
    OBVIOUS
  <2>5. Len(cs) = 1 /\ cs[1] = "lua"
    BY <2>4
  <2>6. \A s \in States : Len(calls'[s]) >= 1 /\ Len(calls'[s]) <= MaxDepth
    <3>1. 1 <= MaxDepth /\ 1 >= 1
      BY BoundsAssumption
    <3>2. Len(calls'[Main]) >= 1 /\ Len(calls'[Main]) <= MaxDepth
      BY <2>3, <2>4, <2>5, <3>1
    <3>3. \A c \in Coroutines : Len(calls[c]) >= 1 /\ Len(calls[c]) <= MaxDepth
      BY <2>1 DEF Bottoms, States
    <3> QED BY <2>2, <2>3, <3>2, <3>3
  <2>7. Bottoms(calls', started')
    BY <1>3, <2>1, <2>3, <2>4, <2>5, <2>6 DEF Bottoms
  <2> QED BY <1>2, <1>3, <2>7 DEF CallsInv
<1>14. TurnInv'
  BY <1>3, <1>4 DEF TurnInv
<1>15. AllowInv'
  <2>1. allow[Main] = 0 /\ \A s \in States : allow[s] <= MaxAllow
    BY DEF Grounds, NestInv, AllowInv
  <2>2. \A s \in States : ~HasBarrier(Boundaries', s)
    BY <1>6, <1>7 DEF HasBarrier
  <2>3. 1 .. Len(Frames') = {} /\ 1 .. Len(boundaries') = {}
    BY <1>5, <1>7
  <2>4. Yields(boundaries')
    BY <2>3 DEF Yields
  <2> QED BY <1>3, <2>1, <2>2, <2>3, <2>4 DEF AllowInv
<1>16. QueueInv'
  BY <1>2, <1>3, QueueKept
<1> QED BY <1>8, <1>9, <1>10, <1>11, <1>12, <1>13, <1>14, <1>15, <1>16 DEF NestInv

\* The initial state.
LEMMA NestInit == ASSUME Init PROVE NestInv
<1>1. /\ frames = <<>> /\ boundaries = <<>> /\ gcFrames = <<>> /\ turn = NoTurn /\ mode = "idle"
      /\ outcome = "none" /\ owed = FALSE /\ current = Main /\ queue = <<>> /\ found = 0
      /\ calls = [s \in States |-> IF s = Main THEN <<"lua">> ELSE <<"base">>]
      /\ allow = [s \in States |-> 0] /\ started = {} /\ begun = [i \in 1 .. MaxFinalizers |-> 0]
  BY DEF Init
<1>2. turn.do = "none" /\ turn.role = ProgramRole
  BY <1>1 DEF NoTurn, Turn
<1>3. Frames = <<>> /\ GcFrames = <<>>
  BY <1>1, <1>2 DEF Frames, GcFrames
<1>4. Boundaries = <<>>
  <2>1. PopsBoundary = 0
    BY <1>2 DEF PopsBoundary
  <2> QED BY <1>1, <2>1 DEF Boundaries
<1>5. Len(<<>>) = 0 /\ 1 .. 0 = {} /\ 1 .. Len(<<>>) = {}
  BY EmptySeq
<1>6. IdleInv
  BY <1>1 DEF IdleInv
<1>7. StackInv
  BY <1>3, <1>4, <1>5 DEF StackInv, Owned, StopsGrow, Parents, Standing
<1>8. RoleInv
  BY <1>2, <1>3, <1>4, <1>5 DEF RoleInv, RoleAt
<1>9. GcInv
  BY <1>1, <1>2, <1>3, <1>5 DEF GcInv
<1>10. Waiting(Frames, calls, started)
  BY <1>3, <1>5 DEF Waiting
<1>11. CallsInv
  <2>1. Main \in States /\ Main \notin Coroutines /\ \A s \in States : s = Main \/ s \in Coroutines
    BY StatesAssumption DEF States
  <2>2. PICK cs, ds : cs = <<"lua">> /\ ds = <<"base">>
    OBVIOUS
  <2>3. Len(cs) = 1 /\ cs[1] = "lua" /\ Len(ds) = 1 /\ ds[1] = "base"
    BY <2>2
  <2>4. calls[Main] = cs /\ \A c \in Coroutines : calls[c] = ds
    BY <1>1, <2>1, <2>2 DEF States
  <2>5. \A s \in States : Len(calls[s]) = 1
    BY <2>1, <2>3, <2>4
  <2>6. \A s \in States : Len(calls[s]) >= 1 /\ Len(calls[s]) <= MaxDepth
    <3>1. 1 <= MaxDepth /\ 1 >= 1
      BY BoundsAssumption
    <3> QED BY <2>5, <3>1
  <2>7. Bottoms(calls, started)
    BY <2>3, <2>4, <2>6 DEF Bottoms
  <2> QED BY <1>1, <2>7 DEF CallsInv
<1>12. TurnInv
  BY <1>1, <1>2 DEF TurnInv
<1>13. AllowInv
  <2>1. allow[Main] = 0 /\ \A s \in States : allow[s] <= MaxAllow
    BY <1>1, BoundsAssumption DEF States
  <2>2. \A s \in States : ~HasBarrier(Boundaries, s)
    BY <1>4, <1>5 DEF HasBarrier
  <2>3. 1 .. Len(Frames) = {} /\ 1 .. Len(boundaries) = {}
    BY <1>1, <1>3, <1>5
  <2>4. Yields(boundaries)
    BY <2>3 DEF Yields
  <2> QED BY <2>1, <2>2, <2>3, <2>4 DEF AllowInv
<1>14. QueueInv
  <2>1. \A x \in 1 .. MaxFinalizers : begun[x] = 0
    BY <1>1
  <2> QED BY <1>1, <1>5, <2>1 DEF QueueInv
<1> QED BY <1>6, <1>7, <1>8, <1>9, <1>10, <1>11, <1>12, <1>13, <1>14 DEF NestInv

\* Nothing changes when nothing changes.
LEMMA NestStays == ASSUME NestInv, UNCHANGED vars PROVE NestInv'
<1>1. /\ UNCHANGED <<mode, turn, owed, current, calls, allow, started, frames, boundaries>>
      /\ UNCHANGED <<gcFrames, queue, found, begun, outcome>>
  BY DEF vars
<1>2. Frames' = Frames
  BY <1>1 DEF Frames
<1>3. GcFrames' = GcFrames
  BY <1>1 DEF GcFrames
<1>4. PopsBoundary' = PopsBoundary
  BY <1>1 DEF PopsBoundary
<1>5. Boundaries' = Boundaries
  BY <1>1, <1>4 DEF Boundaries
<1>6. IdleInv'
  BY <1>1 DEF NestInv, IdleInv
<1>7. StackInv'
  BY <1>1, <1>2, <1>5 DEF NestInv, StackInv
<1>8. RoleInv'
  BY <1>1, <1>3, <1>5 DEF NestInv, RoleInv
<1>9. GcInv'
  BY <1>1, <1>3, <1>5 DEF NestInv, GcInv
<1>10. Waiting(Frames, calls, started)' /\ CallsInv'
  BY <1>1, <1>2 DEF NestInv, CallsInv
<1>11. TurnInv'
  BY <1>1, <1>3, <1>4 DEF NestInv, TurnInv, Delivers, Matches, Top
<1>12. AllowInv'
  BY <1>1, <1>2, <1>5 DEF NestInv, AllowInv
<1>13. QueueInv'
  BY <1>1, <1>3 DEF NestInv, QueueInv
<1> QED BY <1>6, <1>7, <1>8, <1>9, <1>10, <1>11, <1>12, <1>13 DEF NestInv

\* Every step keeps the nesting, when calls nest.
LEMMA NestNext == ASSUME Grounds, Nestable, [Next]_vars PROVE NestInv'
<1>1. CASE UNCHANGED vars
  BY <1>1, NestStays DEF Grounds
<1>2. CASE BeginSession
  BY <1>2, NestBegins
<1>3. CASE Runs
  BY <1>3, NestRuns
<1>4. CASE Requests
  BY <1>4, NestResume, NestProtected, NestHelper, NestCollect, NestAutomatic, NestUpvalue, NestFault
     DEF Requests
<1>5. CASE Drives
  BY <1>5, NestDrives
<1>6. CASE Stops
  BY <1>6, NestStopCoroutine, NestStopMain, NestStopProtected, NestStopHelper, NestStopFinalizer DEF Stops
<1> QED BY <1>1, <1>2, <1>3, <1>4, <1>5, <1>6 DEF Next

\* Everything that the proofs of this part start from holds at the beginning,
LEMMA GroundsInit == ASSUME Init PROVE Grounds
BY ThreadInit, DrainInit, NestInit DEF Grounds

\* and is kept by every step.
LEMMA GroundsNext == ASSUME Grounds, Nestable, [Next]_vars PROVE Grounds'
<1>1. Types' /\ ChainInv' /\ ThreadInv' /\ DrainInv'
  BY TypesNext, ChainNext, ThreadNext, DrainNext DEF Grounds, Nestable
<1>2. NestInv'
  BY NestNext
<1> QED BY <1>1, <1>2 DEF Grounds

\* What holds of every state with these invariants is invariant.
LEMMA GroundsAlways == ASSUME Nestable PROVE Spec => []Grounds
<1>1. Init => Grounds
  BY GroundsInit
<1>2. Grounds /\ [Next]_vars => Grounds'
  BY GroundsNext
<1> QED BY <1>1, <1>2, PTL DEF Spec

\* Code runs under the role of the innermost pcall, callback or finalizer that
\* encloses it on its state, whatever was resumed, answered or unwound before.
THEOREM CodeKnowsItsBoundary == ASSUME Nestable PROVE Spec => []RolesAreNested
<1>1. Grounds => RolesAreNested
  <2> SUFFICES ASSUME Grounds, mode = "lua"
               PROVE  /\ turn.role \in Enclosing(current) \cup {ProgramRole}
                      /\ \A r \in Enclosing(current) : r.stop <= turn.role.stop
    BY DEF RolesAreNested
  <2>1. PICK bs \in Seq(Boundary) : bs = Boundaries
    BY YieldsLeft
  <2>2. PICK gs \in Seq(Drain) : gs = GcFrames
    BY GcFramesIs DEF Grounds
  <2>3. PICK m \in Nat : m = Len(bs) /\ DOMAIN bs = 1 .. m
    OBVIOUS
  <2>4. PICK k \in Nat : k = Len(gs) /\ DOMAIN gs = 1 .. k
    OBVIOUS
  <2>5. PICK E : E = Enclosing(current)
    OBVIOUS
  <2>6. /\ \A i \in 1 .. m : bs[i].owner = current => RoleOf(bs[i]) \in E
        /\ \A i \in 1 .. k : gs[i].draining /\ gs[i].owner = current => Role("finalizer", gs[i].stop) \in E
        /\ \A r \in E : \/ \E i \in 1 .. m : bs[i].owner = current /\ r = RoleOf(bs[i])
                        \/ \E i \in 1 .. k : gs[i].draining /\ gs[i].owner = current
                                             /\ r = Role("finalizer", gs[i].stop)
    BY <2>1, <2>2, <2>3, <2>4, <2>5 DEF Enclosing
  <2>7. CASE gs = <<>>
    <3>1. turn.role = ProgramRole \/ turn.role \in E
      <4>1. turn.role.kind \in {"program", "protected", "helper"}
        <5>1. turn.role.kind # "finalizer" /\ turn.role \in RoleSet
          BY <2>2, <2>7, Innermost DEF Grounds, Types
        <5> QED BY <5>1 DEF RoleSet, RoleKinds
      <4>2. CASE turn.role.kind = "program"
        BY <4>2, Innermost
      <4>3. CASE turn.role.kind # "program"
        <5>1. m \in 1 .. m /\ bs[m].owner = current /\ turn.role = RoleOf(bs[m])
          BY <2>1, <2>3, <4>1, <4>3, Innermost
        <5> QED BY <2>6, <5>1
      <4> QED BY <4>2, <4>3
    <3>2. ASSUME NEW r \in E PROVE r.stop <= turn.role.stop
      <4>1. k = 0
        BY <2>4, <2>7, EmptySeq
      <4>2. PICK i \in 1 .. m : bs[i].owner = current /\ r = RoleOf(bs[i])
        BY <2>6, <3>2, <4>1
      <4>3. bs[i].stop <= turn.role.stop
        BY <2>1, <2>3, <4>2, Innermost
      <4> QED BY <4>2, <4>3 DEF RoleOf, Role
    <3> QED BY <2>5, <3>1, <3>2
  <2>8. CASE gs # <<>>
    <3>1. PICK g \in Drain : g = gs[1] /\ k = 1
      BY <2>2, <2>4, <2>8, Innermost
    <3>2. turn.role = Role("finalizer", g.stop) /\ g.draining /\ g.owner = current /\ g.stop \in Nat
      BY <2>2, <2>8, <3>1 DEF Grounds, NestInv, RoleInv, GcInv, Drain
    <3>3. turn.role \in E
      <4>1. 1 \in 1 .. k
        BY <3>1
      <4> QED BY <2>6, <3>1, <3>2, <4>1
    <3>4. ASSUME NEW r \in E PROVE r.stop <= turn.role.stop
      <4>1. CASE \E i \in 1 .. m : bs[i].owner = current /\ r = RoleOf(bs[i])
        <5>1. PICK i \in 1 .. m : bs[i].owner = current /\ r = RoleOf(bs[i])
          BY <4>1
        <5>2. bs[i].stop <= turn.role.stop
          BY <2>1, <2>3, <5>1, Innermost
        <5> QED BY <5>1, <5>2 DEF RoleOf, Role
      <4>2. CASE \E i \in 1 .. k : r = Role("finalizer", gs[i].stop)
        <5>1. PICK i \in 1 .. k : r = Role("finalizer", gs[i].stop)
          BY <4>2
        <5>2. i = 1
          BY <3>1
        <5>3. r = turn.role
          BY <3>1, <3>2, <5>1, <5>2
        <5>4. turn.role.stop = g.stop
          BY <3>2 DEF Role
        <5>5. g.stop <= g.stop
          BY <3>2
        <5> QED BY <5>3, <5>4, <5>5
      <4> QED BY <2>6, <3>4, <4>1, <4>2
    <3> QED BY <2>5, <3>3, <3>4
  <2> QED BY <2>7, <2>8
<1> QED BY <1>1, GroundsAlways, PTL

\* A coroutine that is suspended or dead has no pcall, callback, collection or
\* resume in progress: it never stops through a call that waits for an answer.
THEOREM NothingYieldsThrough == ASSUME Nestable PROVE Spec => []SuspendedOwnsNoBoundary
<1>1. Grounds => SuspendedOwnsNoBoundary
  <2> SUFFICES ASSUME Grounds, NEW c \in Coroutines, status[c] \in {"Suspended", "Dead"}
               PROVE  /\ \A i \in DOMAIN boundaries : boundaries[i].owner # c
                      /\ \A i \in DOMAIN gcFrames : gcFrames[i].owner # c
                      /\ \A i \in DOMAIN frames : frames[i].caller # c
    BY DEF SuspendedOwnsNoBoundary
  <2>1. c # current /\ c \notin Targets(Frames) /\ c # Main
    BY StatesAssumption DEF Grounds, ThreadInv
  <2>2. PICK bs \in Seq(Boundary), fs \in Seq(Activation) : bs = Boundaries /\ fs = Frames
    BY YieldsLeft, EndOfChain DEF Grounds
  <2>3. PICK m \in Nat, n \in Nat : m = Len(bs) /\ n = Len(fs)
    OBVIOUS
  <2>4. \A p \in 0 .. n : Chain(fs, p) # c
    <3>1. \A p \in 1 .. n : fs[p].target # c
      BY <2>1, <2>2, <2>3 DEF Targets
    <3>2. \A p \in 0 .. n : p = 0 \/ p \in 1 .. n
      OBVIOUS
    <3> QED BY <2>1, <3>1, <3>2 DEF Chain
  <2>5. \A i \in 1 .. m : bs[i].owner # c
    <3>1. Owned(bs, fs)
      BY <2>2 DEF Grounds, NestInv, StackInv
    <3> QED BY <2>3, <2>4, <3>1 DEF Owned
  <2>6. \A i \in DOMAIN boundaries : boundaries[i].owner # c
    <3>1. /\ boundaries \in Seq(Boundary)
          /\ \A i \in 1 .. m : bs[i] = boundaries[i]
          /\ turn.do \notin {"finishProtected", "finishHelper"} => bs = boundaries
          /\ turn.do \in {"finishProtected", "finishHelper"} =>
                Len(boundaries) = m + 1 /\ boundaries[Len(boundaries)].owner = current
      BY <2>2, <2>3, BoundariesLeft DEF Grounds, NestInv, TurnInv
    <3>2. PICK k \in Nat : k = Len(boundaries) /\ DOMAIN boundaries = 1 .. k
      BY <3>1
    <3>3. ASSUME NEW i \in 1 .. k PROVE boundaries[i].owner # c
      <4>1. CASE turn.do \in {"finishProtected", "finishHelper"}
        <5>1. i \in 1 .. m \/ i = k
          BY <3>1, <3>2, <4>1
        <5> QED BY <2>1, <2>5, <3>1, <3>2, <4>1, <5>1
      <4>2. CASE turn.do \notin {"finishProtected", "finishHelper"}
        BY <2>3, <2>5, <3>1, <3>2, <4>2
      <4> QED BY <4>1, <4>2
    <3> QED BY <3>2, <3>3
  <2>7. \A i \in DOMAIN gcFrames : gcFrames[i].owner # c
    <3>1. PICK k \in Nat : k = Len(gcFrames) /\ DOMAIN gcFrames = 1 .. k /\ k <= 1
      <4>1. gcFrames \in Seq(Drain)
        BY DEF Grounds, Types
      <4> QED BY <4>1 DEF Grounds, NestInv, GcInv
    <3>2. ASSUME NEW i \in 1 .. k PROVE gcFrames[i].owner = current
      <4>1. i = 1 /\ k = 1
        BY <3>1
      <4>2. CASE turn.do = "deliverCollection"
        BY <4>1, <4>2 DEF Grounds, NestInv, GcInv
      <4>3. CASE turn.do # "deliverCollection"
        <5>1. GcFrames = gcFrames
          BY <4>3 DEF GcFrames
        <5>2. GcFrames # <<>>
          <6>1. PICK gs : gs = gcFrames
            OBVIOUS
          <6>2. Len(gs) = 1
            BY <3>1, <4>1, <6>1
          <6>3. gs # <<>>
            <7>1. Len(<<>>) = 0
              BY EmptySeq
            <7>2. gs = <<>> => Len(gs) = 0
              BY <7>1
            <7> QED BY <6>2, <7>2
          <6> QED BY <5>1, <6>1, <6>3
        <5> QED BY <4>1, <5>1, <5>2 DEF Grounds, NestInv, GcInv
      <4> QED BY <4>2, <4>3
    <3> QED BY <2>1, <3>1, <3>2
  <2>8. \A i \in DOMAIN frames : frames[i].caller # c
    <3>1. /\ frames \in Seq(Activation) /\ Linked(frames)
          /\ \A i \in 1 .. n : fs[i] = frames[i]
          /\ n = Len(frames) \/ n = Len(frames) - 1
      BY <2>2, <2>3, FramesIs DEF Grounds, Types, ChainInv
    <3>2. PICK k \in Nat : k = Len(frames) /\ DOMAIN frames = 1 .. k
      BY <3>1
    <3>3. ASSUME NEW i \in 1 .. k PROVE frames[i].caller # c
      <4>1. frames[i].caller = IF i = 1 THEN Main ELSE frames[i - 1].target
        BY <3>1, <3>2 DEF Linked
      <4>2. CASE i = 1
        BY <2>1, <4>1, <4>2
      <4>3. CASE i # 1
        <5>1. i - 1 \in 1 .. n /\ i - 1 \in 0 .. n
          BY <3>1, <3>2, <4>3
        <5>2. frames[i - 1].target = Chain(fs, i - 1)
          BY <3>1, <5>1 DEF Chain
        <5> QED BY <2>4, <4>1, <4>3, <5>1, <5>2
      <4> QED BY <4>2, <4>3
    <3> QED BY <3>2, <3>3
  <2> QED BY <2>6, <2>7, <2>8
<1> QED BY <1>1, GroundsAlways, PTL

\* Each answer that was put off finds its native frame innermost in the state it
\* goes to: a resume, a pcall, a callback or a collection is never answered where
\* the code has moved on.
THEOREM AnswersFindTheirCall == ASSUME Nestable PROVE Spec => []DeliveriesMatch
<1>1. Grounds => DeliveriesMatch
  <2> SUFFICES ASSUME Grounds, mode = "action"
               PROVE  /\ turn.do = "deliver" =>
                            Last(frames).replay \/ Matches(current, Len(Last(frames).saved))
                      /\ turn.do \in {"finishProtected", "finishHelper"} =>
                            (boundaries[PopsBoundary].native => Matches(current, boundaries[PopsBoundary].stop))
                      /\ turn.do = "deliverCollection" => Matches(current, Last(gcFrames).stop)
    BY DEF DeliveriesMatch
  <2>1. TurnInv
    BY DEF Grounds, NestInv
  <2>2. turn.do = "deliver" => Matches(current, Len(Last(frames).saved))
    BY <2>1 DEF TurnInv, Delivers
  <2>3. turn.do \in {"finishProtected", "finishHelper"} =>
            (boundaries[PopsBoundary].native => Matches(current, boundaries[PopsBoundary].stop))
    BY <2>1 DEF TurnInv
  <2>4. ASSUME turn.do = "deliverCollection" PROVE Matches(current, Last(gcFrames).stop)
    <3>1. gcFrames \in Seq(Drain) /\ gcFrames # <<>> /\ Len(gcFrames) <= 1
      BY <2>4 DEF Grounds, Types, NestInv, GcInv
    <3>2. Len(gcFrames) = 1
      <4>1. PICK k \in Nat : k = Len(gcFrames) /\ k <= 1
        BY <3>1
      <4>2. k # 0
        BY <3>1, <4>1, EmptySeq
      <4>3. k = 1
        BY <4>1, <4>2
      <4> QED BY <4>1, <4>3
    <3>3. Last(gcFrames) = gcFrames[1]
      BY <3>2 DEF Last
    <3>4. Matches(current, gcFrames[1].stop)
      BY <2>1, <2>4 DEF TurnInv, Delivers
    <3> QED BY <3>3, <3>4
  <2> QED BY <2>2, <2>3, <2>4
<1> QED BY <1>1, GroundsAlways, PTL

\* The loop of execute_proto never ends a session with an error of its own.
THEOREM LoopNeverGivesUp == ASSUME Nestable PROVE Spec => []NoProtocolError
<1>1. Grounds => NoProtocolError
  BY DEF Grounds, NestInv, IdleInv, NoProtocolError
<1> QED BY <1>1, GroundsAlways, PTL

\* While code runs, its state may yield exactly when it is a coroutine in which no
\* pcall is open: each pcall takes the permission away, and gives it back.
THEOREM PcallsForbidYields == ASSUME Nestable PROVE Spec => []YieldBarrier
<1>1. Grounds => YieldBarrier
  <2> SUFFICES ASSUME Grounds, mode = "lua"
               PROVE  /\ allow[Main] = 0
                      /\ \A i \in DOMAIN Boundaries :
                            Boundaries[i].kind = "protected" => allow[Boundaries[i].owner] = 0
                      /\ current = Main \/ allow[current] > 0
                         \/ \E i \in DOMAIN Boundaries :
                               Boundaries[i].kind = "protected" /\ Boundaries[i].owner = current
    BY DEF YieldBarrier
  <2>1. PICK bs \in Seq(Boundary), fs \in Seq(Activation) : bs = Boundaries /\ fs = Frames
    BY YieldsLeft, EndOfChain DEF Grounds
  <2>2. PICK m \in Nat, n \in Nat : m = Len(bs) /\ DOMAIN bs = 1 .. m /\ n = Len(fs)
    OBVIOUS
  <2>3. /\ allow[Main] = 0
        /\ \A s \in States : HasBarrier(bs, s) => allow[s] = 0
        /\ \A i \in 1 .. n : allow[fs[i].target] > 0 \/ HasBarrier(bs, fs[i].target)
    BY <2>1, <2>2, PermitsNow DEF Permits
  <2>4. ASSUME NEW i \in 1 .. m, bs[i].kind = "protected" PROVE allow[bs[i].owner] = 0
    <3>1. bs[i] \in Boundary
      BY <2>2, ElementOfSeq
    <3>2. bs[i].owner \in States
      BY <3>1 DEF Boundary
    <3>3. HasBarrier(bs, bs[i].owner)
      BY <2>2, <2>4 DEF HasBarrier
    <3> QED BY <2>3, <3>2, <3>3
  <2>5. current = Main \/ allow[current] > 0 \/ HasBarrier(bs, current)
    <3>1. current = Chain(fs, n) /\ n \in 0 .. n
      BY <2>1, <2>2, EndOfChain DEF Grounds
    <3>2. n = 0 \/ n \in 1 .. n
      OBVIOUS
    <3> QED BY <2>3, <3>1, <3>2 DEF Chain
  <2> QED BY <2>1, <2>2, <2>3, <2>4, <2>5 DEF HasBarrier
<1> QED BY <1>1, GroundsAlways, PTL

\* No finalizer is begun twice: one that was begun leaves the queue before another
\* one begins, also when it fails, and the collector queues each userdata once.
THEOREM FinalizersBeginOnce == ASSUME Nestable PROVE Spec => []FinalizerBegunOnce
<1>1. Grounds => FinalizerBegunOnce
  <2> SUFFICES ASSUME Grounds PROVE \A i \in DOMAIN begun : begun[i] <= 1
    BY DEF FinalizerBegunOnce
  <2>1. DOMAIN begun = 1 .. MaxFinalizers
    BY DEF Grounds, Types
  <2> QED BY <2>1 DEF Grounds, NestInv, QueueInv
<1> QED BY <1>1, GroundsAlways, PTL

\* The roles of boundaries end within the frames of their states.
LEMMA RoleIsBounded ==
    ASSUME NEW bs \in Seq(Boundary), NEW cs, NEW cur, Standing(bs, cs, cur), NEW n \in 0 .. Len(bs),
           NEW s, NEW role, RoleAt(bs, n, s, role)
    PROVE  role \in Roles
<1>1. CASE role = ProgramRole
  <2>1. 0 \in 0 .. MaxDepth
    BY BoundsAssumption
  <2> QED BY <1>1, <2>1 DEF ProgramRole, Role, Roles, RoleKinds
<1>2. CASE role # ProgramRole
  <2>1. PICK m \in Nat : m = Len(bs) /\ n \in 0 .. m
    OBVIOUS
  <2>2. PICK i \in 1 .. n : role = RoleOf(bs[i])
    BY <1>2 DEF RoleAt
  <2>3. i \in 1 .. m
    BY <2>1
  <2>4. bs[i] \in Boundary
    BY <2>1, <2>3, ElementOfSeq
  <2>5. bs[i].stop \in Nat /\ bs[i].kind \in {"protected", "helper"} /\ bs[i].stop < MaxDepth
    BY <2>1, <2>3, <2>4 DEF Boundary, Standing
  <2>6. bs[i].stop \in 0 .. MaxDepth
    BY <2>5, BoundsAssumption
  <2> QED BY <2>2, <2>5, <2>6 DEF RoleOf, Role, Roles, RoleKinds
<1> QED BY <1>1, <1>2

\* Every variable has its type: no state has more frames than its limit, no turn
\* and no suspended call ends outside of them, and no permission is released that
\* was not given.
THEOREM SchedulerIsBounded == ASSUME Nestable PROVE Spec => []TypeOK
<1>1. Grounds => TypeOK
  <2> SUFFICES ASSUME Grounds PROVE TypeOK
    OBVIOUS
  <2>1. PICK bs \in Seq(Boundary), m \in Nat : bs = Boundaries /\ m = Len(bs)
    <3>1. PICK bs \in Seq(Boundary) : bs = Boundaries
      BY YieldsLeft
    <3>2. Len(bs) \in Nat
      OBVIOUS
    <3> QED BY <3>1, <3>2
  <2>2. Standing(bs, calls, current) /\ Parents(bs)
    BY <2>1 DEF Grounds, NestInv, StackInv
  <2>3. turn.role \in Roles
    <3>1. turn.role \in RoleSet /\ turn.role.stop \in Nat /\ turn.role.stop < MaxDepth
      BY Innermost DEF Grounds, Types
    <3>2. turn.role.stop \in 0 .. MaxDepth
      BY <3>1, BoundsAssumption
    <3> QED BY <3>1, <3>2 DEF RoleSet, Roles
  <2>4. \A s \in States : calls[s] \in Seq({"lua", "native", "base"}) /\ Len(calls[s]) \in 1 .. MaxDepth
    <3>1. ASSUME NEW s \in States
          PROVE  calls[s] \in Seq({"lua", "native", "base"}) /\ Len(calls[s]) \in 1 .. MaxDepth
      <4>1. calls[s] \in Seq({"lua", "native", "base"})
        BY DEF Grounds, Types, CallKinds
      <4>2. PICK n \in Nat : n = Len(calls[s])
        BY <4>1
      <4>3. 1 <= n /\ n <= MaxDepth
        BY <4>2 DEF Grounds, NestInv, CallsInv, Bottoms
      <4>4. n \in 1 .. MaxDepth
        BY <4>3, BoundsAssumption
      <4> QED BY <4>1, <4>2, <4>4
    <3> QED BY <3>1
  <2>5. allow \in [States -> 0 .. MaxAllow]
    <3>1. allow \in [States -> Nat] /\ \A s \in States : allow[s] <= MaxAllow
      BY DEF Grounds, Types, NestInv, AllowInv
    <3>2. \A s \in States : allow[s] \in 0 .. MaxAllow
      BY <3>1, BoundsAssumption
    <3> QED BY <3>1, <3>2
  <2>6. \A i \in DOMAIN frames : frames[i].caller \in States /\ frames[i].target \in Coroutines
    <3>1. PICK fs \in Seq(Activation) : fs = frames
      BY DEF Grounds, Types
    <3>2. ASSUME NEW i \in DOMAIN fs PROVE fs[i].caller \in States /\ fs[i].target \in Coroutines
      <4>1. i \in 1 .. Len(fs)
        BY <3>2
      <4>2. fs[i] \in Activation
        BY <4>1, ElementOfSeq
      <4> QED BY <4>2 DEF Activation
    <3> QED BY <3>1, <3>2
  <2>7. \A i \in DOMAIN boundaries : boundaries[i].owner \in States /\ boundaries[i].parent \in Roles
    <3>1. /\ boundaries \in Seq(Boundary)
          /\ \A i \in 1 .. m : bs[i] = boundaries[i]
          /\ turn.do \notin {"finishProtected", "finishHelper"} => bs = boundaries
          /\ turn.do \in {"finishProtected", "finishHelper"} =>
                Len(boundaries) = m + 1 /\ boundaries[Len(boundaries)].parent = turn.role
      BY <2>1, BoundariesLeft DEF Grounds, NestInv, TurnInv
    <3>2. PICK us \in Seq(Boundary), k \in Nat : us = boundaries /\ k = Len(us) /\ DOMAIN us = 1 .. k
      <4>1. PICK us \in Seq(Boundary) : us = boundaries
        BY <3>1
      <4>2. Len(us) \in Nat /\ DOMAIN us = 1 .. Len(us)
        OBVIOUS
      <4> QED BY <4>1, <4>2
    <3>3. ASSUME NEW i \in 1 .. m PROVE bs[i].parent \in Roles
      <4>1. RoleAt(bs, i - 1, bs[i].owner, bs[i].parent)
        BY <2>1, <2>2 DEF Parents
      <4>2. i - 1 \in 0 .. Len(bs)
        BY <2>1
      <4> QED BY <2>2, <4>1, <4>2, RoleIsBounded
    <3>4. ASSUME NEW i \in 1 .. k PROVE us[i].owner \in States /\ us[i].parent \in Roles
      <4>1. us[i] \in Boundary
        BY <3>2, ElementOfSeq
      <4>2. us[i].parent \in Roles
        <5>1. CASE turn.do \in {"finishProtected", "finishHelper"}
          <6>1. i \in 1 .. m \/ i = k
            BY <3>1, <3>2, <5>1
          <6>2. us[k].parent = turn.role
            BY <3>1, <3>2, <5>1
          <6>3. i \in 1 .. m => us[i] = bs[i]
            BY <3>1, <3>2
          <6> QED BY <2>3, <3>3, <6>1, <6>2, <6>3
        <5>2. CASE turn.do \notin {"finishProtected", "finishHelper"}
          <6>1. i \in 1 .. m /\ us[i] = bs[i]
            BY <2>1, <3>1, <3>2, <5>2
          <6> QED BY <3>3, <6>1
        <5> QED BY <5>1, <5>2
      <4> QED BY <4>1, <4>2 DEF Boundary
    <3> QED BY <3>2, <3>4
  <2>8. \A i \in DOMAIN gcFrames : gcFrames[i].owner \in States /\ gcFrames[i].resume \in Roles
    <3>1. PICK gs \in Seq(Drain) : gs = gcFrames /\ Len(gs) <= 1
      BY DEF Grounds, Types, NestInv, GcInv
    <3>2. PICK k \in Nat : k = Len(gs) /\ DOMAIN gs = 1 .. k /\ k <= 1
      BY <3>1
    <3>3. ASSUME NEW i \in 1 .. k PROVE gs[i].owner \in States /\ gs[i].resume \in Roles
      <4>1. i = 1 /\ k = 1
        BY <3>2
      <4>2. gs[i] \in Drain
        BY <3>2, ElementOfSeq
      <4>3. CASE turn.do = "deliverCollection"
        <5>1. gs[1].resume = turn.role
          BY <3>1, <4>3 DEF Grounds, NestInv, GcInv
        <5> QED BY <2>3, <4>1, <4>2, <5>1 DEF Drain
      <4>4. CASE turn.do # "deliverCollection"
        <5>1. GcFrames = gs
          BY <3>1, <4>4 DEF GcFrames
        <5>2. gs # <<>>
          <6>1. Len(<<>>) = 0
            BY EmptySeq
          <6>2. gs = <<>> => Len(gs) = 0
            BY <6>1
          <6> QED BY <3>2, <4>1, <6>2
        <5>3. RoleAt(bs, m, current, gs[1].resume)
          BY <2>1, <5>1, <5>2 DEF Grounds, NestInv, GcInv
        <5>4. m \in 0 .. Len(bs)
          BY <2>1
        <5> QED BY <2>2, <4>1, <4>2, <5>3, <5>4, RoleIsBounded DEF Drain
      <4> QED BY <4>3, <4>4
    <3> QED BY <3>1, <3>2, <3>3
  <2>9. DOMAIN begun = 1 .. MaxFinalizers
    BY DEF Grounds, Types
  <2> HIDE DEF Roles
  <2> QED BY <2>3, <2>4, <2>5, <2>6, <2>7, <2>8, <2>9 DEF TypeOK, Grounds, Types, Statuses
<1> QED BY <1>1, GroundsAlways, PTL

=============================================================================
