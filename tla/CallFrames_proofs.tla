------------------------- MODULE CallFrames_proofs -------------------------
(***************************************************************************)
(* Proofs about CallFrames, for every program: the open upvalues of a      *)
(* thread stay sorted, the list holds each of them once, and the register  *)
(* windows lie on the stack, each above what its caller still reads.       *)
(*                                                                         *)
(* The first part is about the list alone.  The second part is about the   *)
(* frames: a new upvalue takes the slot that the frame's base says, so the *)
(* frames must be those of calls that wait.  The third goes through the    *)
(* instructions.  The rest does the same for what lies on the stack.       *)
(***************************************************************************)
EXTENDS CallFrames, TLAPS, SequenceTheorems, FiniteSetTheorems, WellFoundedInduction

-----------------------------------------------------------------------------
(* The list of open upvalues. *)

\* The storage of upvalues: a record of a sequence and of a function.
UpsShape(us) ==
    /\ us = [open |-> us.open, var |-> us.var]
    /\ us.open \in Seq(Upvalues)
    /\ us.var = [u \in Upvalues |-> us.var[u]]
    /\ \A u \in Upvalues :
          /\ us.var[u] = [state |-> us.var[u].state, slot |-> us.var[u].slot,
                          val |-> us.var[u].val]
          /\ us.var[u].slot \in Int

\* OpenListDescends of the storage us.
Descending(us) ==
    \A i, j \in DOMAIN us.open :
        i < j => us.var[us.open[i]].slot > us.var[us.open[j]].slot
HoldsOpen(us) ==
    \A u \in Upvalues :
        us.var[u].state = "open" <=> \E i \in DOMAIN us.open : us.open[i] = u

UpsOK(us) == UpsShape(us) /\ Descending(us) /\ HoldsOpen(us)

LEMMA HasMin ==
    ASSUME NEW S \in SUBSET Nat, S # {}
    PROVE  Min(S) \in S /\ \A j \in S : Min(S) <= j
<1>1. PICK x \in S : \A y \in S : ~ (<<y, x>> \in OpToRel(<, Nat))
  BY WFMin, NatLessThanWellFounded
<1>2. \A y \in S : ~ (y < x)
  BY <1>1, Zenon DEF OpToRel
<1>3. \A y \in S : x <= y
  BY <1>2
<1>4. QED
  BY <1>3 DEF Min

\* Where a search of the list that ends at the first slot below a level stops.
Cut(us, level) ==
    LET low == {i \in DOMAIN us.open : us.var[us.open[i]].slot < level}
    IN  IF low = {} THEN Len(us.open) ELSE Min(low) - 1

LEMMA OpenFields ==
    ASSUME NEW us, UpsShape(us)
    PROVE  \E m \in Nat : /\ m = Len(us.open)
                          /\ \A i : i \in DOMAIN us.open <=> i \in 1..m
                          /\ \A i \in 1..m : /\ us.open[i] \in Upvalues
                                             /\ us.var[us.open[i]].slot \in Int
<1>1. PICK m \in Nat : m = Len(us.open) /\ us.open \in [1..m -> Upvalues]
  BY LenProperties, ElementOfSeq DEF UpsShape
<1>2. QED
  BY <1>1 DEF UpsShape

LEMMA CutStops ==
    ASSUME NEW us, UpsShape(us), NEW level \in Int
    PROVE  /\ Cut(us, level) \in 0..Len(us.open)
           /\ \A i \in 1..Cut(us, level) : us.var[us.open[i]].slot >= level
           /\ Cut(us, level) < Len(us.open) =>
                 us.var[us.open[Cut(us, level) + 1]].slot < level
<1>m. PICK m \in Nat : /\ m = Len(us.open)
                       /\ \A i : i \in DOMAIN us.open <=> i \in 1..m
                       /\ \A i \in 1..m : /\ us.open[i] \in Upvalues
                                          /\ us.var[us.open[i]].slot \in Int
  BY OpenFields
<1>l. PICK low : low = {i \in DOMAIN us.open : us.var[us.open[i]].slot < level}
  OBVIOUS
<1>1. \A i : i \in low <=> i \in 1..m /\ us.var[us.open[i]].slot < level
  BY <1>m, <1>l
<1>2. CASE low = {}
  <2>1. Cut(us, level) = m
    BY <1>l, <1>m, <1>2 DEF Cut
  <2>2. \A i \in 1..m : us.var[us.open[i]].slot >= level
    BY <1>1, <1>2, <1>m
  <2>3. QED
    BY <1>m, <2>1, <2>2
<1>3. CASE low # {}
  <2>m. PICK l : l = Min(low)
    OBVIOUS
  <2>1. low \in SUBSET Nat
    BY <1>1
  <2>2. l \in low /\ \A i \in low : l <= i
    BY <1>3, <2>m, <2>1, HasMin
  <2>3. Cut(us, level) = l - 1
    BY <1>l, <1>3, <2>m DEF Cut
  <2>4. l \in 1..m /\ us.var[us.open[l]].slot < level
    BY <1>1, <2>2
  <2>5. \A i \in 1..l - 1 : us.var[us.open[i]].slot >= level
    <3> SUFFICES ASSUME NEW i \in 1..l - 1
                 PROVE  us.var[us.open[i]].slot >= level
      OBVIOUS
    <3>1. i \in 1..m /\ i \notin low
      BY <2>2, <2>4
    <3>2. QED
      BY <1>1, <1>m, <3>1
  <2>6. QED
    BY <1>m, <2>3, <2>4, <2>5
<1>4. QED
  BY <1>2, <1>3

\* No upvalue is in the list twice.
LEMMA OpenOnce ==
    ASSUME NEW us, UpsOK(us), NEW i \in DOMAIN us.open, NEW j \in DOMAIN us.open,
           us.open[i] = us.open[j]
    PROVE  i = j
<1>m. PICK m \in Nat : /\ \A k : k \in DOMAIN us.open <=> k \in 1..m
                       /\ \A k \in 1..m : us.var[us.open[k]].slot \in Int
  BY OpenFields DEF UpsOK
<1>1. i \in Nat /\ j \in Nat /\ us.var[us.open[i]].slot \in Int
  BY <1>m
<1>2. ~ (i < j) /\ ~ (j < i)
  BY <1>1 DEF UpsOK, Descending
<1>3. QED
  BY <1>1, <1>2

\* close_upvalues keeps the rest of the list.
LEMMA ClosedKeeps ==
    ASSUME NEW us, UpsOK(us), NEW s, NEW level \in Int
    PROVE  UpsOK(Closed(us, s, level))
<1>m. PICK m \in Nat : /\ m = Len(us.open)
                       /\ \A i : i \in DOMAIN us.open <=> i \in 1..m
                       /\ \A i \in 1..m : /\ us.open[i] \in Upvalues
                                          /\ us.var[us.open[i]].slot \in Int
  BY OpenFields DEF UpsOK
<1>n. PICK n : n = Cut(us, level)
  OBVIOUS
<1>1. n \in 0..m
  BY <1>m, <1>n, CutStops DEF UpsOK
<1>o. PICK o : o = SubSeq(us.open, n + 1, m)
  OBVIOUS
<1>2. o \in Seq(Upvalues) /\ Len(o) = m - n /\ \A i \in 1..m - n : o[i] = us.open[n + i]
  <2>1. us.open \in Seq(Upvalues) /\ n + 1 \in 1..m + 1 /\ m \in n..m
    BY <1>1, <1>m DEF UpsOK, UpsShape
  <2>2. QED
    BY <1>1, <1>m, <1>o, <2>1, SubSeqProperties
<1>3. \A i : i \in DOMAIN o <=> i \in 1..m - n
  BY <1>1, <1>2, LenProperties
<1>v. PICK v : v = [u \in Upvalues |->
                      IF \E i \in 1..n : us.open[i] = u
                      THEN [state |-> "closed", slot |-> 0,
                            val |-> Slot(s, us.var[u].slot)]
                      ELSE us.var[u]]
  OBVIOUS
<1>c. PICK c : c = [open |-> o, var |-> v]
  OBVIOUS
<1>4. Closed(us, s, level) = c
  BY <1>m, <1>n, <1>o, <1>v, <1>c DEF Closed, Cut, From
<1>5. c.open = o /\ c.var = v
  BY <1>c
<1>6. ASSUME NEW i \in 1..m - n, NEW j \in 1..n
      PROVE  us.open[n + i] # us.open[j]
  <2>1. n + i \in 1..m /\ j \in 1..m /\ n + i # j
    BY <1>1
  <2>2. QED
    BY <1>m, <2>1, OpenOnce
<1>7. ASSUME NEW i \in 1..m - n
      PROVE  o[i] \in Upvalues /\ v[o[i]] = us.var[us.open[n + i]]
  <2>1. n + i \in 1..m
    BY <1>1
  <2>2. QED
    BY <1>2, <1>6, <1>m, <1>v, <2>1
<1>8. UpsShape(c)
  <2>1. \A u \in Upvalues : /\ v[u] = [state |-> v[u].state, slot |-> v[u].slot,
                                       val |-> v[u].val]
                            /\ v[u].slot \in Int
    BY <1>v DEF UpsOK, UpsShape
  <2>2. v = [u \in Upvalues |-> v[u]]
    BY <1>v
  <2>3. QED
    BY <1>2, <1>5, <1>c, <2>1, <2>2 DEF UpsShape
<1>9. Descending(c)
  <2> SUFFICES ASSUME NEW i \in 1..m - n, NEW j \in 1..m - n, i < j
               PROVE  v[o[i]].slot > v[o[j]].slot
    BY <1>3, <1>5 DEF Descending
  <2>1. n + i \in DOMAIN us.open /\ n + j \in DOMAIN us.open /\ n + i < n + j
    BY <1>1, <1>m
  <2>2. us.var[us.open[n + i]].slot > us.var[us.open[n + j]].slot
    BY <2>1 DEF UpsOK, Descending
  <2>3. QED
    BY <1>7, <2>2
<1>10. HoldsOpen(c)
  <2> SUFFICES ASSUME NEW u \in Upvalues
               PROVE  v[u].state = "open" <=> \E i \in 1..m - n : o[i] = u
    BY <1>3, <1>5 DEF HoldsOpen
  <2>1. CASE \E i \in 1..n : us.open[i] = u
    <3>1. v[u].state = "closed"
      BY <1>v, <2>1
    <3>2. \A i \in 1..m - n : o[i] # u
      BY <1>2, <1>6, <2>1
    <3>3. QED
      BY <3>1, <3>2
  <2>2. CASE ~ \E i \in 1..n : us.open[i] = u
    <3>1. v[u] = us.var[u]
      BY <1>v, <2>2
    <3>2. us.var[u].state = "open" <=> \E k \in 1..m : us.open[k] = u
      BY <1>m DEF UpsOK, HoldsOpen
    <3>3. ASSUME NEW k \in 1..m, us.open[k] = u PROVE \E i \in 1..m - n : o[i] = u
      <4>1. k - n \in 1..m - n /\ n + (k - n) = k
        BY <1>1, <2>2, <3>3
      <4>2. QED
        BY <1>2, <3>3, <4>1
    <3>4. ASSUME NEW i \in 1..m - n, o[i] = u PROVE \E k \in 1..m : us.open[k] = u
      <4>1. n + i \in 1..m
        BY <1>1
      <4>2. QED
        BY <1>2, <3>4, <4>1
    <3>5. QED
      BY <3>1, <3>2, <3>3, <3>4
  <2>3. QED
    BY <2>1, <2>2
<1>11. QED
  BY <1>4, <1>8, <1>9, <1>10 DEF UpsOK

\* find_or_create_upvalue puts a new upvalue between the higher and the lower slots.
LEMMA OpenedKeeps ==
    ASSUME NEW us, UpsOK(us), NEW k \in Int, NEW u \in Upvalues,
           us.var[u].state # "open", ~ Shared(us, k)
    PROVE  UpsOK(Opened(us, k, u))
<1>m. PICK m \in Nat : /\ m = Len(us.open)
                       /\ \A i : i \in DOMAIN us.open <=> i \in 1..m
                       /\ \A i \in 1..m : /\ us.open[i] \in Upvalues
                                          /\ us.var[us.open[i]].slot \in Int
  BY OpenFields DEF UpsOK
<1>n. PICK n : n = Cut(us, k)
  OBVIOUS
<1>1. /\ n \in 0..m
      /\ \A i \in 1..n : us.var[us.open[i]].slot >= k
      /\ n < m => us.var[us.open[n + 1]].slot < k
  BY <1>m, <1>n, CutStops DEF UpsOK
<1>d. \A i, j \in 1..m : i < j => us.var[us.open[i]].slot > us.var[us.open[j]].slot
  BY <1>m DEF UpsOK, Descending
<1>2. \A i \in 1..n : us.var[us.open[i]].slot > k
  <2> SUFFICES ASSUME NEW i \in 1..n, us.var[us.open[i]].slot = k PROVE FALSE
    BY <1>1, <1>m
  <2>1. i \in 1..m
    BY <1>1
  <2>2. \A j \in 1..i - 1 : us.var[us.open[j]].slot > k
    BY <1>d, <2>1
  <2>3. QED
    BY <1>m, <2>1, <2>2 DEF Shared
<1>3. \A i \in n + 1..m : us.var[us.open[i]].slot < k
  <2> SUFFICES ASSUME NEW i \in n + 1..m PROVE us.var[us.open[i]].slot < k
    OBVIOUS
  <2>1. i \in 1..m /\ n + 1 \in 1..m /\ n < m
    BY <1>1
  <2>2. CASE i = n + 1
    BY <1>1, <2>1, <2>2
  <2>3. CASE i # n + 1
    <3>1. us.var[us.open[n + 1]].slot > us.var[us.open[i]].slot
      BY <1>d, <2>1, <2>3
    <3>2. QED
      BY <1>1, <1>m, <2>1, <3>1, SMTT(30)
  <2>4. QED
    BY <2>2, <2>3
<1>4. \A i \in 1..m : us.open[i] # u
  BY <1>m DEF UpsOK, HoldsOpen
<1>a. PICK a : a = SubSeq(us.open, 1, n)
  OBVIOUS
<1>b. PICK b : b = SubSeq(us.open, n + 1, m)
  OBVIOUS
<1>5. a \in Seq(Upvalues) /\ Len(a) = n /\ \A i \in 1..n : a[i] = us.open[i]
  <2>1. \A i \in 1..n : us.open[i] \in Upvalues
    BY <1>1, <1>m
  <2>2. QED
    BY <1>1, <1>a, <2>1, SubSeqProperties
<1>6. b \in Seq(Upvalues) /\ Len(b) = m - n /\ \A i \in 1..m - n : b[i] = us.open[n + i]
  <2>1. \A i \in n + 1..m : us.open[i] \in Upvalues
    BY <1>1, <1>m
  <2>2. QED
    BY <1>1, <1>b, <2>1, SubSeqProperties
<1>e. PICK e : e = <<u>>
  OBVIOUS
<1>7. e \in Seq(Upvalues) /\ Len(e) = 1 /\ e[1] = u
  BY <1>e
<1>h. PICK h : h = a \o e
  OBVIOUS
<1>8. h \in Seq(Upvalues) /\ Len(h) = n + 1 /\ h[n + 1] = u
      /\ \A i \in 1..n : h[i] = us.open[i]
  <2>1. /\ h \in Seq(Upvalues) /\ Len(h) = n + 1
        /\ \A i \in 1..n + 1 : h[i] = IF i <= n THEN a[i] ELSE e[i - n]
    <3>1. a \in Seq(Upvalues) /\ e \in Seq(Upvalues)
      BY <1>5, <1>7
    <3>2. /\ a \o e \in Seq(Upvalues) /\ Len(a \o e) = Len(a) + Len(e)
          /\ \A i \in 1..Len(a) + Len(e) :
                (a \o e)[i] = IF i <= Len(a) THEN a[i] ELSE e[i - Len(a)]
      BY <3>1, ConcatProperties
    <3>3. Len(a) = n /\ Len(e) = 1
      BY <1>5, <1>7
    <3>4. QED
      BY <1>h, <3>2, <3>3
  <2>2. QED
    BY <1>1, <1>5, <1>7, <2>1
<1>o. PICK o : o = h \o b
  OBVIOUS
<1>9. /\ o \in Seq(Upvalues) /\ Len(o) = m + 1
      /\ \A i \in 1..n : o[i] = us.open[i]
      /\ o[n + 1] = u
      /\ \A i \in n + 2..m + 1 : o[i] = us.open[i - 1]
  <2>1. /\ o \in Seq(Upvalues) /\ Len(o) = n + 1 + (m - n)
        /\ \A i \in 1..n + 1 + (m - n) : o[i] = IF i <= n + 1 THEN h[i] ELSE b[i - (n + 1)]
    BY <1>o, <1>6, <1>8, ConcatProperties
  <2>2. ASSUME NEW i \in n + 2..m + 1 PROVE o[i] = us.open[i - 1]
    <3>1. i - (n + 1) \in 1..m - n /\ n + (i - (n + 1)) = i - 1
      BY <1>1
    <3>2. o[i] = b[i - (n + 1)]
      BY <1>1, <2>1
    <3>3. QED
      BY <1>6, <3>1, <3>2
  <2>3. QED
    BY <1>1, <1>8, <2>1, <2>2
<1>10. \A i : i \in DOMAIN o <=> i \in 1..m + 1
  BY <1>1, <1>9, LenProperties
<1>v. PICK v : v = [us.var EXCEPT ![u] = [state |-> "open", slot |-> k, val |-> Nil]]
  OBVIOUS
<1>11. /\ v = [w \in Upvalues |-> v[w]]
       /\ v[u] = [state |-> "open", slot |-> k, val |-> Nil]
       /\ \A w \in Upvalues \ {u} : v[w] = us.var[w]
  BY <1>v DEF UpsOK, UpsShape
<1>c. PICK c : c = [open |-> o, var |-> v]
  OBVIOUS
<1>12. Opened(us, k, u) = c
  BY <1>m, <1>n, <1>a, <1>b, <1>e, <1>h, <1>o, <1>v, <1>c DEF Opened, Cut, From
<1>13. c.open = o /\ c.var = v
  BY <1>c
<1>14. UpsShape(c)
  <2>1. \A w \in Upvalues : /\ v[w] = [state |-> v[w].state, slot |-> v[w].slot,
                                       val |-> v[w].val]
                            /\ v[w].slot \in Int
    <3> SUFFICES ASSUME NEW w \in Upvalues
                 PROVE  /\ v[w] = [state |-> v[w].state, slot |-> v[w].slot,
                                   val |-> v[w].val]
                        /\ v[w].slot \in Int
      OBVIOUS
    <3>1. CASE w = u
      BY <1>11, <3>1
    <3>2. CASE w # u
      BY <1>11, <3>2 DEF UpsOK, UpsShape
    <3>3. QED
      BY <3>1, <3>2
  <2>2. QED
    BY <1>9, <1>11, <1>13, <1>c, <2>1 DEF UpsShape
\* the slots of the new list, from its head
<1>15. /\ \A i \in 1..n : v[o[i]].slot = us.var[us.open[i]].slot
       /\ v[o[n + 1]].slot = k
       /\ \A i \in n + 2..m + 1 : v[o[i]].slot = us.var[us.open[i - 1]].slot
  <2>1. ASSUME NEW i \in 1..n PROVE v[o[i]].slot = us.var[us.open[i]].slot
    <3>1. i \in 1..m
      BY <1>1
    <3>2. QED
      BY <1>4, <1>9, <1>11, <1>m, <3>1
  <2>2. ASSUME NEW i \in n + 2..m + 1 PROVE v[o[i]].slot = us.var[us.open[i - 1]].slot
    <3>1. i - 1 \in 1..m
      BY <1>1
    <3>2. QED
      BY <1>4, <1>9, <1>11, <1>m, <3>1
  <2>3. v[o[n + 1]].slot = k
    BY <1>9, <1>11
  <2>4. QED
    BY <2>1, <2>2, <2>3
<1>16. Descending(c)
  <2> SUFFICES ASSUME NEW i \in 1..m + 1, NEW j \in 1..m + 1, i < j
               PROVE  v[o[i]].slot > v[o[j]].slot
    BY <1>10, <1>13 DEF Descending
  <2>1. CASE i <= n /\ j <= n
    BY <1>1, <1>d, <1>15, <2>1
  <2>2. CASE i <= n /\ j = n + 1
    BY <1>1, <1>2, <1>15, <2>2
  <2>3. CASE i <= n /\ j > n + 1
    <3>1. i \in 1..m /\ j - 1 \in 1..m /\ i < j - 1
      BY <1>1, <2>3
    <3>2. us.var[us.open[i]].slot > us.var[us.open[j - 1]].slot
      BY <1>d, <3>1
    <3>3. QED
      BY <1>1, <1>15, <2>3, <3>2
  <2>4. CASE i = n + 1
    <3>1. j - 1 \in n + 1..m
      BY <1>1, <2>4
    <3>2. us.var[us.open[j - 1]].slot < k
      BY <1>3, <3>1
    <3>3. us.var[us.open[j - 1]].slot \in Int
      BY <1>1, <1>m, <3>1
    <3>4. QED
      BY <1>1, <1>15, <2>4, <3>2, <3>3
  <2>5. CASE i > n + 1
    <3>1. i - 1 \in 1..m /\ j - 1 \in 1..m /\ i - 1 < j - 1
      BY <1>1, <2>5
    <3>2. us.var[us.open[i - 1]].slot > us.var[us.open[j - 1]].slot
      BY <1>d, <3>1
    <3>3. QED
      BY <1>1, <1>15, <2>5, <3>2
  <2>6. QED
    BY <1>1, <2>1, <2>2, <2>3, <2>4, <2>5
<1>17. HoldsOpen(c)
  <2> SUFFICES ASSUME NEW w \in Upvalues
               PROVE  v[w].state = "open" <=> \E i \in 1..m + 1 : o[i] = w
    BY <1>10, <1>13 DEF HoldsOpen
  <2>1. CASE w = u
    <3>1. n + 1 \in 1..m + 1
      BY <1>1
    <3>2. QED
      BY <1>9, <1>11, <2>1, <3>1
  <2>2. CASE w # u
    <3>1. v[w].state = "open" <=> \E i \in 1..m : us.open[i] = w
      BY <1>11, <1>m, <2>2 DEF UpsOK, HoldsOpen
    <3>2. ASSUME NEW i \in 1..m, us.open[i] = w PROVE \E j \in 1..m + 1 : o[j] = w
      <4>1. CASE i <= n
        BY <1>1, <1>9, <3>2, <4>1
      <4>2. CASE i > n
        <5>1. i + 1 \in n + 2..m + 1 /\ (i + 1) - 1 = i
          BY <1>1, <4>2
        <5>2. i + 1 \in 1..m + 1 /\ o[i + 1] = w
          BY <1>1, <1>9, <3>2, <5>1
        <5>3. QED
          BY <5>2
      <4>3. QED
        BY <1>1, <4>1, <4>2
    <3>3. ASSUME NEW j \in 1..m + 1, o[j] = w PROVE \E i \in 1..m : us.open[i] = w
      <4>1. CASE j <= n
        BY <1>1, <1>9, <3>3, <4>1
      <4>2. j # n + 1
        BY <1>9, <2>2, <3>3
      <4>3. CASE j > n + 1
        <5>1. j - 1 \in 1..m /\ us.open[j - 1] = w
          BY <1>1, <1>9, <3>3, <4>3
        <5>2. QED
          BY <5>1
      <4>4. QED
        BY <1>1, <4>1, <4>2, <4>3
    <3>4. QED
      BY <3>1, <3>2, <3>3
  <2>3. QED
    BY <2>1, <2>2
<1>18. QED
  BY <1>12, <1>14, <1>16, <1>17 DEF UpsOK

\* A value written into a closed upvalue does not touch the list.
LEMMA ValueKeeps ==
    ASSUME NEW us, UpsOK(us), NEW u \in Upvalues, NEW x
    PROVE  UpsOK([us EXCEPT !.var[u].val = x])
<1>e. PICK e : e = [state |-> us.var[u].state, slot |-> us.var[u].slot, val |-> x]
  OBVIOUS
<1>v. PICK v : v = [us.var EXCEPT ![u] = e]
  OBVIOUS
<1>c. PICK c : c = [open |-> us.open, var |-> v]
  OBVIOUS
<1>1. us.var[u] = [state |-> us.var[u].state, slot |-> us.var[u].slot,
                   val |-> us.var[u].val]
  BY DEF UpsOK, UpsShape
<1>2. [us.var[u] EXCEPT !.val = x] = e
  BY <1>1, <1>e
<1>5. [us EXCEPT !.var[u].val = x] = c
  BY <1>2, <1>v, <1>c DEF UpsOK, UpsShape
<1>6. c.open = us.open /\ c.var = v
  BY <1>c
<1>7. /\ v = [w \in Upvalues |-> v[w]]
      /\ \A w \in Upvalues : /\ v[w].state = us.var[w].state /\ v[w].slot = us.var[w].slot
                             /\ v[w] = [state |-> v[w].state, slot |-> v[w].slot,
                                        val |-> v[w].val]
  BY <1>v, <1>e DEF UpsOK, UpsShape
<1>8. UpsShape(c)
  BY <1>6, <1>7, <1>c DEF UpsOK, UpsShape
<1>m. PICK m \in Nat : \A i : i \in DOMAIN us.open <=> i \in 1..m /\ us.open[i] \in Upvalues
  BY OpenFields DEF UpsOK
<1>9. Descending(c)
  BY <1>6, <1>7, <1>m DEF UpsOK, Descending
<1>10. HoldsOpen(c)
  BY <1>6, <1>7 DEF UpsOK, HoldsOpen
<1>11. QED
  BY <1>5, <1>8, <1>9, <1>10 DEF UpsOK

-----------------------------------------------------------------------------
(* The frames. *)

\* What the proof needs of a frame: its slots are numbers.
FrameOK(fr) ==
    /\ {"proto", "func", "base"} \subseteq DOMAIN fr
    /\ fr.proto \in Protos \cup {Nil}
    /\ fr.func \in Int
    /\ fr.base \in Int

FramesOK(fs) ==
    /\ \E T : fs \in Seq(T)
    /\ Len(fs) >= 1
    /\ \A k \in 1..Len(fs) : FrameOK(fs[k])

\* The function that the thread t was started with is not over.  (A coroutine
\* runs above the root frame of its state.)
Bottom(t) == IF t = "main" THEN 1 ELSE 2
Founded(fs, t) == Len(fs) >= Bottom(t) /\ fs[Bottom(t)].proto # Nil

LEMMA FramesList ==
    ASSUME NEW fs, FramesOK(fs)
    PROVE  \E m \in Nat : /\ m = Len(fs) /\ m >= 1
                          /\ \E T : fs \in Seq(T) /\ fs \in [1..m -> T]
<1>1. PICK T : fs \in Seq(T)
  BY DEF FramesOK
<1>2. Len(fs) \in Nat /\ fs \in [1..Len(fs) -> T]
  BY <1>1, LenProperties, ElementOfSeq
<1>3. Len(fs) >= 1
  BY DEF FramesOK
<1>m. PICK m \in Nat : m = Len(fs)
  BY <1>2
<1>4. m >= 1 /\ \E U : fs \in Seq(U) /\ fs \in [1..m -> U]
  BY <1>1, <1>2, <1>3, <1>m
<1>5. QED
  BY <1>m, <1>4

LEMMA ListOf ==
    ASSUME NEW T, NEW m \in Nat, NEW g, g \in [1..m -> T]
    PROVE  g \in Seq(T) /\ Len(g) = m
OBVIOUS

\* A frame takes the place of another.
LEMMA ExchangeKeeps ==
    ASSUME NEW fs, FramesOK(fs), NEW k \in 1..Len(fs), NEW c, FrameOK(c)
    PROVE  /\ FramesOK([fs EXCEPT ![k] = c])
           /\ Len([fs EXCEPT ![k] = c]) = Len(fs)
           /\ \A t : Founded(fs, t) /\ (fs[k].proto # Nil => c.proto # Nil)
                        => Founded([fs EXCEPT ![k] = c], t)
<1>m. PICK m \in Nat : /\ m = Len(fs) /\ m >= 1
                       /\ \E T : fs \in Seq(T) /\ fs \in [1..m -> T]
  BY FramesList
<1>1. PICK T : fs \in Seq(T) /\ m = Len(fs) /\ m >= 1 /\ fs \in [1..m -> T]
  BY <1>m
<1>g. PICK g : g = [fs EXCEPT ![k] = c]
  OBVIOUS
<1>2. g \in [1..m -> T \cup {c}] /\ g[k] = c /\ \A j \in 1..m : j # k => g[j] = fs[j]
  BY <1>1, <1>g
<1>3. g \in Seq(T \cup {c}) /\ Len(g) = m
  BY <1>2, ListOf
<1>4. FramesOK(g)
  <2>1. \A j \in 1..m : FrameOK(g[j])
    BY <1>1, <1>2 DEF FramesOK
  <2>2. QED
    BY <1>1, <1>3, <2>1 DEF FramesOK
<1>5. ASSUME NEW t, Founded(fs, t), fs[k].proto # Nil => c.proto # Nil
      PROVE  Founded(g, t)
  <2>1. Bottom(t) \in 1..m /\ fs[Bottom(t)].proto # Nil
    BY <1>1, <1>5 DEF Bottom, Founded
  <2>2. CASE Bottom(t) = k
    BY <1>2, <1>3, <1>5, <2>1, <2>2 DEF Founded
  <2>3. CASE Bottom(t) # k
    BY <1>2, <1>3, <2>1, <2>3 DEF Founded
  <2>4. QED
    BY <2>2, <2>3
<1>6. QED
  BY <1>1, <1>3, <1>4, <1>5, <1>g

\* A frame is pushed.
LEMMA AppendKeeps ==
    ASSUME NEW fs, FramesOK(fs), NEW c, FrameOK(c)
    PROVE  /\ FramesOK(Append(fs, c))
           /\ \A t : Founded(fs, t) => Founded(Append(fs, c), t)
<1>m. PICK m \in Nat : /\ m = Len(fs) /\ m >= 1
                       /\ \E T : fs \in Seq(T) /\ fs \in [1..m -> T]
  BY FramesList
<1>1. PICK T : fs \in Seq(T) /\ m = Len(fs) /\ m >= 1 /\ fs \in [1..m -> T]
  BY <1>m
<1>g. PICK g : g = Append(fs, c)
  OBVIOUS
<1>2. fs \in [1..m -> T \cup {c}]
  BY <1>1
<1>3. fs \in Seq(T \cup {c})
  BY <1>2, ListOf
<1>4. /\ g \in Seq(T \cup {c}) /\ Len(g) = m + 1
      /\ g[m + 1] = c /\ \A j \in 1..m : g[j] = fs[j]
  BY <1>1, <1>3, <1>g, AppendProperties
<1>5. FramesOK(g)
  <2>1. ASSUME NEW j \in 1..m + 1 PROVE FrameOK(g[j])
    <3>1. CASE j = m + 1
      BY <1>4, <3>1
    <3>2. CASE j # m + 1
      BY <1>1, <1>4, <3>2 DEF FramesOK
    <3>3. QED
      BY <3>1, <3>2
  <2>2. QED
    BY <1>1, <1>4, <2>1 DEF FramesOK
<1>6. ASSUME NEW t, Founded(fs, t) PROVE Founded(g, t)
  <2>1. Bottom(t) \in 1..m /\ fs[Bottom(t)].proto # Nil
    BY <1>1, <1>6 DEF Bottom, Founded
  <2>2. QED
    BY <1>1, <1>4, <2>1 DEF Founded
<1>7. QED
  BY <1>5, <1>6, <1>g

\* The frames above the first n are dropped.
LEMMA UptoKeeps ==
    ASSUME NEW fs, FramesOK(fs), NEW n \in 1..Len(fs)
    PROVE  /\ FramesOK(SubSeq(fs, 1, n))
           /\ Len(SubSeq(fs, 1, n)) = n
           /\ \A t : Founded(fs, t) /\ Bottom(t) <= n => Founded(SubSeq(fs, 1, n), t)
<1>m. PICK m \in Nat : /\ m = Len(fs) /\ m >= 1
                       /\ \E T : fs \in Seq(T) /\ fs \in [1..m -> T]
  BY FramesList
<1>1. PICK T : fs \in Seq(T) /\ m = Len(fs) /\ m >= 1 /\ fs \in [1..m -> T]
  BY <1>m
<1>g. PICK g : g = SubSeq(fs, 1, n)
  OBVIOUS
<1>2. n \in Nat /\ n >= 1 /\ n <= m
  BY <1>1
<1>3. g \in Seq(T) /\ Len(g) = n /\ \A j \in 1..n : g[j] = fs[j]
  <2>1. \A j \in 1..n : fs[j] \in T
    BY <1>1, <1>2
  <2>2. QED
    BY <1>2, <1>g, <2>1, SubSeqProperties
<1>4. FramesOK(g)
  <2>1. \A j \in 1..n : FrameOK(g[j])
    BY <1>1, <1>2, <1>3 DEF FramesOK
  <2>2. QED
    BY <1>2, <1>3, <2>1 DEF FramesOK
<1>5. ASSUME NEW t, Founded(fs, t), Bottom(t) <= n PROVE Founded(g, t)
  <2>1. Bottom(t) \in 1..n
    BY <1>2, <1>5 DEF Bottom
  <2>2. QED
    BY <1>2, <1>3, <1>5, <2>1 DEF Founded
<1>6. QED
  BY <1>3, <1>4, <1>5, <1>g

LEMMA CallInfoOK ==
    ASSUME NEW p \in Protos \cup {Nil}, NEW f \in Int, NEW n, NEW ctop, NEW want,
           NEW xs, NEW cont
    PROVE  /\ FrameOK(CallInfo(p, f, n, ctop, want, xs, cont))
           /\ CallInfo(p, f, n, ctop, want, xs, cont).proto = p
BY DEF FrameOK, CallInfo

\* A frame goes on: its program counter and its free register change.
LEMMA GoneOn ==
    ASSUME NEW fr, FrameOK(fr), NEW pc, NEW free
    PROVE  /\ FrameOK([fr EXCEPT !.pc = pc, !.free = free])
           /\ [fr EXCEPT !.pc = pc, !.free = free].proto = fr.proto
BY DEF FrameOK

LEMMA HasMax ==
    ASSUME NEW m \in Nat, NEW S \in SUBSET (1..m), S # {}
    PROVE  Max(S) \in S /\ \A j \in S : j <= Max(S)
<1>d. PICK D : D = {m - x : x \in S}
  OBVIOUS
<1>1. D \in SUBSET Nat /\ D # {}
  <2>1. \A x \in S : x \in 1..m
    OBVIOUS
  <2>2. \A x \in S : m - x \in Nat
    BY <2>1
  <2>3. QED
    BY <1>d, <2>2
<1>2. PICK d \in D : \A y \in D : d <= y
  BY <1>1, HasMin
<1>3. PICK x \in S : d = m - x
  BY <1>2, <1>d
<1>4. ASSUME NEW j \in S PROVE j <= x
  <2>1. m - j \in D
    BY <1>d
  <2>2. QED
    BY <1>2, <1>3, <2>1
<1>5. \E y \in S : \A j \in S : y >= j
  BY <1>4
<1>6. QED
  BY <1>5 DEF Max

-----------------------------------------------------------------------------
(* Answers, errors and calls.  us and fs are what Answer, Throw and Enter get *)
(* as the upvalues and the frames at that point of the instruction.          *)

Over(st) == st \in {"done", "dead"}

Ready(us, fs) ==
    /\ UpsOK(us) /\ FramesOK(fs) /\ Founded(fs, thread)
    /\ thread \in {"main", "coroutine"}

\* What holds after the instruction.
Kept == UpsOK(ups') /\ FramesOK(frames') /\ (~ Over(status') => Founded(frames', thread))

LEMMA LastFrame ==
    ASSUME NEW fs, FramesOK(fs)
    PROVE  Len(fs) \in Nat /\ Len(fs) \in 1..Len(fs) /\ FrameOK(fs[Len(fs)])
<1>m. PICK m \in Nat : m = Len(fs) /\ m >= 1
  BY FramesList
<1>1. m \in 1..m
  BY <1>m
<1>2. QED
  BY <1>m, <1>1 DEF FramesOK

\* The root frame of a state at rest.
LEMMA IdleFrame == FrameOK(Idle)
<1>1. FrameOK(CallInfo(Nil, 1, 0, 1, 0, <<>>, 0))
  BY CallInfoOK
<1>2. QED
  BY <1>1 DEF Idle, FrameOK

LEMMA IdleOK == FramesOK(<<Idle>>)
<1>i. PICK c : c = Idle
  OBVIOUS
<1>1. FrameOK(c)
  BY <1>i, IdleFrame
<1>e. PICK e : e = <<c>>
  OBVIOUS
<1>2. e \in Seq({c}) /\ Len(e) = 1 /\ e[1] = c
  BY <1>e
<1>3. \A k \in 1..1 : FrameOK(e[k])
  BY <1>1, <1>2
<1>4. FramesOK(e)
  BY <1>2, <1>3 DEF FramesOK
<1>5. QED
  BY <1>i, <1>e, <1>4

LEMMA AnswerKeeps ==
    ASSUME NEW s, NEW us, NEW fs, NEW t, NEW want, NEW cont, FramesOK(fs),
           Answer(s, us, fs, t, want, cont)
    PROVE  /\ ups' = us /\ FramesOK(frames')
           /\ Founded(fs, thread) => Founded(frames', thread)
<1>k. PICK k : k = Len(fs)
  OBVIOUS
<1>1. k \in 1..Len(fs) /\ FrameOK(fs[k])
  BY <1>k, LastFrame
<1>2. CASE fs[k].proto = Nil
  BY <1>k, <1>2 DEF Answer
<1>3. CASE fs[k].proto # Nil
  <2>1. PICK pc, free : frames' = [fs EXCEPT ![k] = [fs[k] EXCEPT !.pc = pc, !.free = free]]
    BY <1>k, <1>3 DEF Answer
  <2>c. PICK c : c = [fs[k] EXCEPT !.pc = pc, !.free = free]
    OBVIOUS
  <2>2. FrameOK(c) /\ c.proto = fs[k].proto
    BY <1>1, <2>c, GoneOn
  <2>3. /\ FramesOK([fs EXCEPT ![k] = c])
        /\ Founded(fs, thread) => Founded([fs EXCEPT ![k] = c], thread)
    BY <1>1, <2>2, ExchangeKeeps
  <2>4. ups' = us
    BY DEF Answer
  <2>5. QED
    BY <2>1, <2>c, <2>3, <2>4
<1>4. QED
  BY <1>2, <1>3

LEMMA DeliverKeeps ==
    ASSUME NEW s, NEW us, NEW fs, NEW t, NEW vs, NEW f, NEW want, NEW cont, FramesOK(fs),
           Deliver(s, us, fs, t, vs, f, want, cont)
    PROVE  /\ ups' = us /\ FramesOK(frames')
           /\ Founded(fs, thread) => Founded(frames', thread)
BY AnswerKeeps DEF Deliver

\* An error ends at a protected call, which is above the thread's function.
LEMMA ThrowKeeps ==
    ASSUME NEW s, NEW us, NEW fs, Ready(us, fs), Throw(s, us, fs)
    PROVE  Kept
<1>m. PICK m \in Nat : m = Len(fs) /\ m >= 1
  BY FramesList DEF Ready
<1>1. CASE Guards(fs) # {}
  <2>k. PICK k : k = Max(Guards(fs))
    OBVIOUS
  <2>1. Guards(fs) \in SUBSET (1..m)
    BY <1>m DEF Guards
  <2>2. k \in Guards(fs)
    BY <1>1, <2>k, <2>1, HasMax
  <2>3. k \in 2..m /\ fs[k].proto = Nil
    BY <1>m, <2>2 DEF Guards
  <2>4. Bottom(thread) <= k
    BY <2>3 DEF Ready, Founded, Bottom
  <2>5. k \in 1..Len(fs)
    BY <1>m, <2>3
  <2>6. FramesOK(SubSeq(fs, 1, k)) /\ Founded(SubSeq(fs, 1, k), thread)
    BY <2>4, <2>5, UptoKeeps DEF Ready
  <2>7. /\ frames' = SubSeq(fs, 1, k)
        /\ ups' = IF m = k THEN us ELSE Closed(us, s, fs[k + 1].base)
        /\ status' = "error"
    BY <1>1, <1>m, <2>k DEF Throw
  <2>8. UpsOK(ups')
    <3>1. CASE m = k
      BY <2>7, <3>1 DEF Ready
    <3>2. CASE m # k
      <4>1. k + 1 \in 1..Len(fs)
        BY <1>m, <2>3, <3>2
      <4>2. fs[k + 1].base \in Int
        BY <4>1 DEF Ready, FramesOK, FrameOK
      <4>3. QED
        BY <2>7, <3>2, <4>2, ClosedKeeps DEF Ready
    <3>3. QED
      BY <3>1, <3>2
  <2>9. QED
    BY <2>6, <2>7, <2>8 DEF Kept
<1>2. CASE Guards(fs) = {}
  <2>1. /\ status' = "dead"
        /\ \/ frames' = <<Idle>> /\ ups' = Closed(us, s, 1)
           \/ frames' = fs /\ ups' = us
    BY <1>2 DEF Throw
  <2>2. FramesOK(<<Idle>>)
    BY IdleOK
  <2>3. UpsOK(Closed(us, s, 1))
    BY ClosedKeeps DEF Ready
  <2>4. QED
    BY <2>1, <2>2, <2>3 DEF Kept, Ready, Over
<1>3. QED
  BY <1>1, <1>2

LEMMA EnterLuaKeeps ==
    ASSUME NEW s, NEW us, NEW fs, NEW f \in Int, NEW n, NEW want, NEW cont,
           Ready(us, fs), EnterLua(s, us, fs, f, n, want, cont)
    PROVE  Kept
<1>1. CASE Cardinality(LuaFrames(fs)) >= MaxCalls
  BY <1>1, ThrowKeeps DEF EnterLua
<1>2. CASE ~ (Cardinality(LuaFrames(fs)) >= MaxCalls)
  <2>1. PICK p \in Functions :
          /\ frames' = Append(fs, CallInfo(p, f, n, f + 1 + Room[p], want,
                                           Extra(s, f + 1, n, p), cont))
          /\ ups' = us
    BY <1>2 DEF EnterLua
  <2>c. PICK c : c = CallInfo(p, f, n, f + 1 + Room[p], want, Extra(s, f + 1, n, p), cont)
    OBVIOUS
  <2>2. FrameOK(c)
    BY <2>c, CallInfoOK DEF Protos
  <2>3. QED
    BY <2>1, <2>2, <2>c, AppendKeeps DEF Ready, Kept
<1>3. QED
  BY <1>1, <1>2

LEMMA EnterNativeKeeps ==
    ASSUME NEW s, NEW us, NEW fs, NEW f, NEW n, NEW want, NEW cont,
           Ready(us, fs), EnterNative(s, us, fs, f, n, want, cont)
    PROVE  Kept
<1>w. PICK w : w = NativeWindow(s, f, n)
  OBVIOUS
<1>1. CASE \E vs \in Lists : Deliver(w, us, fs, f + 1 + n, vs, f, want, cont)
  BY <1>1, DeliverKeeps DEF Ready, Kept
<1>2. CASE Throw(w, us, fs)
  BY <1>2, ThrowKeeps
<1>3. QED
  BY <1>w, <1>1, <1>2 DEF EnterNative

LEMMA EnterYieldKeeps ==
    ASSUME NEW s, NEW us, NEW fs, NEW f, NEW n, NEW want, NEW cont,
           Ready(us, fs), EnterYield(s, us, fs, f, n, want, cont)
    PROVE  Kept
BY DEF EnterYield, Ready, Kept

LEMMA EnterPcallKeeps ==
    ASSUME NEW s, NEW us, NEW fs, NEW f \in Int, NEW n, NEW want, NEW cont,
           Ready(us, fs), EnterPcall(s, us, fs, f, n, want, cont)
    PROVE  Kept
<1>w. PICK w : w = NativeWindow(s, f, n)
  OBVIOUS
<1>c. PICK c : c = CallInfo(Nil, f, n, f + 1 + n + Spare, want, <<>>, cont)
  OBVIOUS
<1>g. PICK gs : gs = Append(fs, c)
  OBVIOUS
<1>1. FrameOK(c)
  BY <1>c, CallInfoOK
<1>2. Ready(us, gs)
  BY <1>g, <1>1, AppendKeeps DEF Ready
<1>3. CASE EnterLua(w, us, gs, f + 1, n - 1, MultRet, 0)
  <2>1. f + 1 \in Int
    OBVIOUS
  <2>2. QED
    BY <1>2, <1>3, <2>1, EnterLuaKeeps
<1>v. PICK v : v = NativeWindow(w, f + 1, n - 1)
  OBVIOUS
<1>4. CASE \E vs \in Lists : Deliver(v, us, gs, f + 1 + n, vs, f + 1, MultRet, 0)
  BY <1>2, <1>4, DeliverKeeps DEF Ready, Kept
<1>5. CASE Throw(w, us, gs)
  BY <1>2, <1>5, ThrowKeeps
<1>6. QED
  BY <1>3, <1>4, <1>5, <1>w, <1>c, <1>g, <1>v DEF EnterPcall

LEMMA EnterKeeps ==
    ASSUME NEW s, NEW us, NEW fs, NEW f \in Int, NEW n, NEW want, NEW cont,
           Ready(us, fs), Enter(s, us, fs, f, n, want, cont)
    PROVE  Kept
<1>1. CASE EnterLua(s, us, fs, f, n, want, cont)
  BY <1>1, EnterLuaKeeps
<1>2. CASE EnterNative(s, us, fs, f, n, want, cont)
  BY <1>2, EnterNativeKeeps
<1>3. CASE EnterYield(s, us, fs, f, n, want, cont)
  BY <1>3, EnterYieldKeeps
<1>4. CASE EnterPcall(s, us, fs, f, n, want, cont)
  BY <1>4, EnterPcallKeeps
<1>5. QED
  BY <1>1, <1>2, <1>3, <1>4 DEF Enter

-----------------------------------------------------------------------------
(* The instructions. *)

\* The open upvalues are sorted, slots are numbers, and the function that the
\* thread was started with is there until the thread is over.
FramesInvariant ==
    /\ UpsOK(ups) /\ FramesOK(frames)
    /\ ~ Over(status) => Founded(frames, thread)
    /\ thread \in {"main", "coroutine"}

\* What an instruction finds.
LEMMA Here ==
    ASSUME FramesInvariant, NEW op, At(op)
    PROVE  /\ Ready(ups, frames) /\ status = "run" /\ ins.op = op
           /\ cur.base \in Int /\ cur.func \in Int /\ cur.proto # Nil
           /\ ins.a \in Nat
           /\ op # "LOADK" => ins.b \in Nat
           /\ \A r \in Nat : Reg(r) \in Int
<1>1. Ready(ups, frames) /\ status = "run" /\ ins.op = op /\ cur.proto # Nil
  BY DEF FramesInvariant, At, Ready, Over
<1>2. FrameOK(cur)
  BY <1>1, LastFrame DEF Ready, cur
<1>3. ins.a \in Nat /\ (op # "LOADK" => ins.b \in Nat)
  <2>1. cur.proto \in Protos
    BY <1>1, <1>2 DEF FrameOK
  <2>2. CASE cur.pc \in DOMAIN Code[cur.proto]
    <3>1. ins = Code[cur.proto][cur.pc]
      BY <2>2 DEF ins, InstructionAt
    <3>2. QED
      BY <1>1, <2>1, <2>2, <3>1, CodeAssumption
  <2>3. CASE cur.pc \notin DOMAIN Code[cur.proto]
    <3>1. ins = [op |-> "RETURN", a |-> 1, b |-> 1, c |-> 0]
      BY <2>3 DEF ins, InstructionAt, Instruction
    <3>2. QED
      BY <3>1
  <2>4. QED
    BY <2>2, <2>3
<1>4. \A r \in Nat : Reg(r) \in Int
  BY <1>2 DEF Reg, FrameOK
<1>5. QED
  BY <1>1, <1>2, <1>3, <1>4 DEF FrameOK

\* The running frame goes on to another instruction.
LEMMA GotoKeeps ==
    ASSUME NEW us, Ready(us, frames), NEW pc, NEW free
    PROVE  Ready(us, Goto(pc, free))
<1>k. PICK k : k = Len(frames)
  OBVIOUS
<1>1. k \in 1..Len(frames) /\ FrameOK(frames[k])
  BY <1>k, LastFrame DEF Ready
<1>c. PICK c : c = [frames[k] EXCEPT !.pc = pc, !.free = free]
  OBVIOUS
<1>2. FrameOK(c) /\ c.proto = frames[k].proto
  BY <1>1, <1>c, GoneOn
<1>3. Goto(pc, free) = [frames EXCEPT ![k] = c]
  BY <1>k, <1>c DEF Goto
<1>4. /\ FramesOK([frames EXCEPT ![k] = c])
      /\ Founded(frames, thread) => Founded([frames EXCEPT ![k] = c], thread)
  BY <1>1, <1>2, ExchangeKeeps DEF Ready
<1>5. QED
  BY <1>3, <1>4 DEF Ready
LEMMA StillReady ==
    ASSUME NEW us, NEW fs, Ready(us, fs), frames' = fs, ups' = us
    PROVE  Kept
BY DEF Ready, Kept

LEMMA AssignKeeps ==
    ASSUME NEW us, Ready(us, frames), NEW r, NEW v, Assign(r, v), ups' = us
    PROVE  Kept
<1>1. PICK pc, free : frames' = Goto(pc, free)
  BY DEF Assign
<1>2. QED
  BY <1>1, GotoKeeps, StillReady

LEMMA StepGoes ==
    ASSUME FramesInvariant, NEW op, At(op), ups' = ups,
           \E pc, free : frames' = Goto(pc, free)
    PROVE  Kept
BY Here, GotoKeeps, StillReady

LEMMA ClosureKeeps == ASSUME FramesInvariant, Closure PROVE Kept
<1>1. Ready(ups, frames) /\ ins.b \in Nat /\ Reg(ins.b) \in Int
  BY Here DEF Closure
<1>2. Assign(ins.a, Fun)
  BY DEF Closure
<1>3. UpsOK(ups')
  <2>1. CASE ups' = ups
    BY <1>1, <2>1 DEF Ready
  <2>2. CASE ups' # ups
    <3>1. PICK u \in Upvalues : /\ ~ Shared(ups, Reg(ins.b))
                                /\ ups.var[u].state # "open"
                                /\ ups' = Opened(ups, Reg(ins.b), u)
      BY <2>2 DEF Closure
    <3>2. UpsOK(Opened(ups, Reg(ins.b), u))
      BY <1>1, <3>1, OpenedKeeps DEF Ready
    <3>3. QED
      BY <3>1, <3>2
  <2>3. QED
    BY <2>1, <2>2
<1>4. PICK us : us = ups'
  OBVIOUS
<1>5. Ready(us, frames)
  BY <1>1, <1>3, <1>4 DEF Ready
<1>6. QED
  BY <1>2, <1>4, <1>5, AssignKeeps

LEMMA StoreKeeps ==
    ASSUME UpsOK(ups), NEW u \in Upvalues, NEW v, Store(u, v)
    PROVE  UpsOK(ups')
<1>1. CASE ups' = ups
  BY <1>1
<1>2. CASE ups' = [ups EXCEPT !.var[u].val = v]
  BY <1>2, ValueKeeps
<1>3. QED
  BY <1>1, <1>2 DEF Store

LEMMA SetUpvalueKeeps == ASSUME FramesInvariant, SetUpvalue PROVE Kept
<1>1. Ready(ups, frames)
  BY Here DEF SetUpvalue
<1>2. UpsOK(ups')
  BY <1>1, StoreKeeps DEF SetUpvalue, Used, Ready
<1>3. PICK us : us = ups'
  OBVIOUS
<1>4. Ready(us, frames)
  BY <1>1, <1>2, <1>3 DEF Ready
<1>5. frames' = Goto(cur.pc + 1, cur.free)
  BY DEF SetUpvalue
<1>6. QED
  BY <1>3, <1>4, <1>5, GotoKeeps, StillReady

LEMMA OtherSetsKeeps == ASSUME FramesInvariant, OtherSets PROVE Kept
<1>1. UpsOK(ups')
  BY StoreKeeps DEF OtherSets, Used, FramesInvariant
<1>2. QED
  BY <1>1 DEF OtherSets, FramesInvariant, Kept

LEMMA CloseKeeps == ASSUME FramesInvariant, Close PROVE Kept
<1>1. Ready(ups, frames) /\ Reg(ins.a) \in Int
  BY Here DEF Close
<1>2. ups' = Closed(ups, stack, Reg(ins.a)) /\ frames' = Goto(cur.pc + 1, ins.a - 1)
  BY DEF Close
<1>3. PICK us : us = Closed(ups, stack, Reg(ins.a))
  OBVIOUS
<1>4. Ready(us, frames)
  BY <1>1, <1>3, ClosedKeeps DEF Ready
<1>5. QED
  BY <1>2, <1>3, <1>4, GotoKeeps, StillReady

LEMMA VarargKeeps == ASSUME FramesInvariant, Vararg PROVE Kept
<1>1. \E pc, free : frames' = Goto(pc, free)
  BY DEF Vararg
<1>2. At("VARARG") /\ ups' = ups
  BY DEF Vararg
<1>3. QED
  BY <1>1, <1>2, StepGoes

LEMMA CallKeeps == ASSUME FramesInvariant, Call PROVE Kept
<1>f. PICK fs : fs = Goto(cur.pc, ins.a - 1)
  OBVIOUS
<1>1. Ready(ups, fs) /\ Reg(ins.a) \in Int
  BY <1>f, Here, GotoKeeps DEF Call
<1>2. CASE Throw(stack, ups, fs)
  BY <1>1, <1>2, ThrowKeeps
<1>3. CASE Enter(WithHandler, ups, fs, Reg(ins.a), Arity, ins.c - 1, 0)
  BY <1>1, <1>3, EnterKeeps
<1>4. QED
  BY <1>f, <1>2, <1>3 DEF Call

LEMMA ReplaceKeeps ==
    ASSUME FramesInvariant, At("TAILCALL"), NEW s, NEW us, UpsOK(us), NEW f, NEW n,
           Replace(s, us, f, n)
    PROVE  Kept
<1>1. Ready(us, frames) /\ cur.func \in Int
  BY Here DEF Ready
<1>p. PICK p \in Functions :
        /\ frames' = [frames EXCEPT ![Len(frames)] =
                        CallInfo(p, cur.func, n, cur.base + Room[p], cur.nres,
                                 Extra(Put(s, cur.base, Window(s, f + 1, n)), cur.base, n, p),
                                 cur.cont)]
        /\ ups' = us
  BY DEF Replace
<1>2. PICK ctop, want, xs, cont :
        /\ frames' = [frames EXCEPT ![Len(frames)] =
                        CallInfo(p, cur.func, n, ctop, want, xs, cont)]
        /\ ups' = us
  BY <1>p
<1>c. PICK c : c = CallInfo(p, cur.func, n, ctop, want, xs, cont)
  OBVIOUS
<1>3. FrameOK(c) /\ c.proto = p
  BY <1>1, <1>c, CallInfoOK DEF Protos
<1>4. c.proto # Nil
  BY <1>3, ProtoAssumption DEF Protos
<1>5. Len(frames) \in 1..Len(frames)
  BY <1>1, LastFrame DEF Ready
<1>6. QED
  BY <1>1, <1>2, <1>c, <1>3, <1>4, <1>5, ExchangeKeeps DEF Ready, Kept

LEMMA TailCallKeeps == ASSUME FramesInvariant, TailCall PROVE Kept
<1>f. PICK fs : fs = Goto(cur.pc, ins.a - 1)
  OBVIOUS
<1>s. PICK s : s = WithHandler
  OBVIOUS
<1>u. PICK us : us = Closed(ups, s, cur.base)
  OBVIOUS
<1>0. At("TAILCALL")
  BY DEF TailCall
<1>1. Ready(ups, frames) /\ Reg(ins.a) \in Int /\ cur.base \in Int
  BY <1>0, Here
<1>2. UpsOK(us)
  BY <1>1, <1>u, ClosedKeeps DEF Ready
<1>3. Ready(ups, fs) /\ Ready(us, fs)
  BY <1>1, <1>2, <1>f, GotoKeeps DEF Ready
<1>4. CASE Throw(stack, ups, fs)
  BY <1>3, <1>4, ThrowKeeps
<1>5. CASE Replace(s, us, Reg(ins.a), Arity)
  BY <1>0, <1>2, <1>5, ReplaceKeeps
<1>6. CASE EnterLua(s, us, fs, Reg(ins.a), Arity, MultRet, 0)
  BY <1>1, <1>3, <1>6, EnterLuaKeeps
<1>7. CASE EnterNative(s, us, fs, Reg(ins.a), Arity, MultRet, 0)
  BY <1>3, <1>7, EnterNativeKeeps
<1>8. CASE EnterYield(s, us, fs, Reg(ins.a), Arity, MultRet, 0)
  BY <1>3, <1>8, EnterYieldKeeps
<1>9. CASE EnterPcall(s, us, fs, Reg(ins.a), Arity, MultRet, 0)
  BY <1>1, <1>3, <1>9, EnterPcallKeeps
<1>10. QED
  BY <1>f, <1>s, <1>u, <1>4, <1>5, <1>6, <1>7, <1>8, <1>9 DEF TailCall

LEMMA ForCallKeeps == ASSUME FramesInvariant, ForCall PROVE Kept
<1>f. PICK fs : fs = Goto(cur.pc, ins.a + 2)
  OBVIOUS
<1>1. Ready(ups, fs) /\ Reg(ins.a) + 3 \in Int
  BY <1>f, Here, GotoKeeps DEF ForCall
<1>2. CASE Throw(stack, ups, fs)
  BY <1>1, <1>2, ThrowKeeps
<1>3. CASE ~ Throw(stack, ups, fs)
  <2>1. PICK s : Enter(s, ups, fs, Reg(ins.a) + 3, 2, ins.c, Reg(ins.a))
    BY <1>f, <1>3 DEF ForCall
  <2>2. QED
    BY <1>1, <2>1, EnterKeeps
<1>4. QED
  BY <1>2, <1>3

LEMMA ResumeKeeps == ASSUME FramesInvariant, Resume PROVE Kept
<1>1. Ready(ups, frames)
  BY DEF FramesInvariant, Resume, Ready, Over
<1>2. PICK s, t, want : Answer(s, ups, frames, t, want, 0)
  BY DEF Resume
<1>3. QED
  BY <1>1, <1>2, AnswerKeeps DEF Ready, Kept

\* Only the thread's last function ends the thread.
LEMMA ReturnKeeps == ASSUME FramesInvariant, Return PROVE Kept
<1>0. At("RETURN")
  BY DEF Return
<1>1. Ready(ups, frames) /\ cur.base \in Int
  BY <1>0, Here
<1>m. PICK m \in Nat : m = Len(frames) /\ m >= 1
  BY <1>1, FramesList DEF Ready
<1>u. PICK us : us = Closed(ups, stack, cur.base)
  OBVIOUS
<1>2. UpsOK(us)
  BY <1>1, <1>u, ClosedKeeps DEF Ready
<1>3. CASE m = 1
  <2>1. ups' = us /\ frames' = <<Idle>> /\ status' = "done"
    BY <1>3, <1>m, <1>u DEF Return
  <2>2. QED
    BY <1>2, <2>1, IdleOK DEF Kept, Over
<1>4. CASE m # 1
  <2>g. PICK gs : gs = SubSeq(frames, 1, m - 1)
    OBVIOUS
  <2>1. m - 1 \in 1..Len(frames)
    BY <1>4, <1>m
  <2>2. /\ FramesOK(gs)
        /\ Bottom(thread) <= m - 1 => Founded(gs, thread)
    BY <1>1, <2>1, <2>g, UptoKeeps DEF Ready
  <2>3. PICK s, t, want, cont : Answer(s, us, gs, t, want, cont)
    BY <1>4, <1>m, <1>u, <2>g DEF Return, Upto
  <2>4. /\ ups' = us /\ FramesOK(frames')
        /\ Founded(gs, thread) => Founded(frames', thread)
    BY <2>2, <2>3, AnswerKeeps
  <2>5. ASSUME ~ Over(status') PROVE Bottom(thread) <= m - 1
    <3>1. ~ (m = 2 /\ thread = "coroutine")
      BY <1>4, <1>m, <2>5 DEF Return, Over
    <3>2. QED
      BY <1>1, <1>4, <1>m, <3>1 DEF Ready, Bottom
  <2>6. QED
    BY <1>2, <2>2, <2>4, <2>5 DEF Kept
<1>5. QED
  BY <1>3, <1>4

LEMMA FailKeeps == ASSUME FramesInvariant, Fail PROVE Kept
BY Here, ThrowKeeps DEF Fail

\* The frame of a pcall is above the thread's function.
LEMMA FinishPcallKeeps == ASSUME FramesInvariant, FinishPcall PROVE Kept
<1>1. Ready(ups, frames)
  BY DEF FramesInvariant, FinishPcall, Ready, Over
<1>m. PICK m \in Nat : m = Len(frames) /\ m >= 1
  BY <1>1, FramesList DEF Ready
<1>2. frames[m].proto = Nil
  BY <1>m DEF FinishPcall, cur
<1>3. Bottom(thread) \in Nat /\ Bottom(thread) >= 1 /\ Bottom(thread) <= m - 1
  BY <1>1, <1>m, <1>2 DEF Ready, Founded, Bottom
<1>g. PICK gs : gs = SubSeq(frames, 1, m - 1)
  OBVIOUS
<1>4. m - 1 \in 1..Len(frames)
  BY <1>m, <1>3
<1>5. FramesOK(gs) /\ Founded(gs, thread)
  BY <1>1, <1>3, <1>4, <1>g, UptoKeeps DEF Ready
<1>6. PICK s, t, vs, f, want, cont : Deliver(s, ups, gs, t, vs, f, want, cont)
  BY <1>m, <1>g DEF FinishPcall, Upto
<1>7. QED
  BY <1>1, <1>5, <1>6, DeliverKeeps DEF Ready, Kept

-----------------------------------------------------------------------------
(* The theorem. *)

\* The root frame of a main program.
LEMMA RootOK ==
    ASSUME NEW p \in Chunks, NEW vs
    PROVE  FramesOK(<<Root(p, vs)>>) /\ Founded(<<Root(p, vs)>>, "main")
<1>c. PICK c : c = Root(p, vs)
  OBVIOUS
<1>1. FrameOK(c) /\ c.proto = p
  <2>i. PICK i : i = CallInfo(p, 1, 0, 1 + Room[p], 0, vs, 0)
    OBVIOUS
  <2>1. FrameOK(i) /\ i.proto = p
    BY <2>i, CallInfoOK DEF Protos
  <2>2. c = [i EXCEPT !.base = 1]
    BY <1>c, <2>i DEF Root
  <2>3. QED
    BY <2>1, <2>2 DEF FrameOK
<1>2. p # Nil
  BY ProtoAssumption DEF Protos
<1>e. PICK e : e = <<c>>
  OBVIOUS
<1>3. e \in Seq({c}) /\ Len(e) = 1 /\ e[1] = c
  BY <1>e
<1>4. \A k \in 1..1 : FrameOK(e[k])
  BY <1>1, <1>3
<1>5. FramesOK(e) /\ Founded(e, "main")
  BY <1>1, <1>2, <1>3, <1>4 DEF FramesOK, Founded, Bottom
<1>6. QED
  BY <1>c, <1>e, <1>5

LEMMA RestartKeeps == ASSUME FramesInvariant, Restart PROVE Kept /\ thread' = thread
<1>1. PICK p \in Chunks : \E vs \in Lists : frames' = <<Root(p, vs)>>
  BY DEF Restart
<1>2. PICK vs \in Lists : frames' = <<Root(p, vs)>>
  BY <1>1
<1>3. FramesOK(<<Root(p, vs)>>) /\ Founded(<<Root(p, vs)>>, "main")
  BY RootOK
<1>4. QED
  BY <1>2, <1>3 DEF Restart, FramesInvariant, Kept

LEMMA NextKeeps == ASSUME FramesInvariant, Next PROVE FramesInvariant'
<1>1. Kept
  <2>1. ASSUME LoadK \/ Move \/ GetUpvalue PROVE Kept
    <3>1. Ready(ups, frames) /\ ups' = ups
      BY <2>1, Here DEF LoadK, Move, GetUpvalue
    <3>2. \E r, v : Assign(r, v)
      BY <2>1 DEF LoadK, Move, GetUpvalue
    <3>3. QED
      BY <3>1, <3>2, AssignKeeps
  <2>2. ASSUME SetList \/ Jump \/ Test PROVE Kept
    <3>1. ups' = ups /\ \E op : At(op)
      BY <2>2 DEF SetList, Jump, Test
    <3>2. \E pc, free : frames' = Goto(pc, free)
      BY <2>2 DEF SetList, Jump, Test
    <3>3. QED
      BY <3>1, <3>2, StepGoes
  <2>3. QED
    BY <2>1, <2>2, ClosureKeeps, SetUpvalueKeeps, OtherSetsKeeps, CloseKeeps, VarargKeeps,
       CallKeeps, TailCallKeeps, ForCallKeeps, ResumeKeeps, ReturnKeeps, FailKeeps,
       FinishPcallKeeps, RestartKeeps DEF Next
<1>2. thread' = thread
  BY RestartKeeps DEF Next, LoadK, Move, Closure, GetUpvalue, SetUpvalue, OtherSets, Close,
     Vararg, SetList, Jump, Test, Call, TailCall, ForCall, Resume, Return, Fail, FinishPcall
<1>3. QED
  BY <1>1, <1>2 DEF Kept, FramesInvariant

LEMMA InitKeeps == Init => FramesInvariant
<1> SUFFICES ASSUME Init PROVE FramesInvariant
  OBVIOUS
<1>1. UpsOK(ups)
  <2>v. PICK v : v = [u \in Upvalues |-> [state |-> "unused", slot |-> 0, val |-> Nil]]
    OBVIOUS
  <2>o. PICK o : o = <<>>
    OBVIOUS
  <2>1. ups = [open |-> o, var |-> v]
    BY <2>v, <2>o DEF Init
  <2>2. ups.open = o /\ ups.var = v
    BY <2>1
  <2>3. o \in Seq(Upvalues) /\ DOMAIN o = {}
    BY <2>o
  <2>4. /\ v = [u \in Upvalues |-> v[u]]
        /\ \A u \in Upvalues : v[u] = [state |-> "unused", slot |-> 0, val |-> Nil]
    BY <2>v
  <2>5. \A u \in Upvalues : /\ v[u] = [state |-> v[u].state, slot |-> v[u].slot,
                                       val |-> v[u].val]
                            /\ v[u].slot \in Int /\ v[u].state = "unused"
    BY <2>4
  <2>6. UpsShape(ups)
    BY <2>1, <2>2, <2>3, <2>4, <2>5 DEF UpsShape
  <2>7. Descending(ups) /\ HoldsOpen(ups)
    BY <2>2, <2>3, <2>5 DEF Descending, HoldsOpen
  <2>8. QED
    BY <2>6, <2>7 DEF UpsOK
<1>2. CASE thread = "main"
  <2>1. PICK p \in Chunks : \E vs \in Lists : frames = <<Root(p, vs)>>
    BY <1>2 DEF Init
  <2>2. PICK vs \in Lists : frames = <<Root(p, vs)>>
    BY <2>1
  <2>3. QED
    BY <1>1, <1>2, <2>2, RootOK DEF FramesInvariant
<1>3. CASE thread # "main"
  <2>1. PICK p \in Protos : \E n, ctop, xs :
          frames = <<Idle, CallInfo(p, 1, n, ctop, MultRet, xs, 0)>>
    BY <1>3 DEF Init
  <2>2. PICK n, ctop, xs : frames = <<Idle, CallInfo(p, 1, n, ctop, MultRet, xs, 0)>>
    BY <2>1
  <2>i. PICK r : r = Idle
    OBVIOUS
  <2>c. PICK c : c = CallInfo(p, 1, n, ctop, MultRet, xs, 0)
    OBVIOUS
  <2>e. PICK e : e = <<r, c>>
    OBVIOUS
  <2>3. FrameOK(r) /\ FrameOK(c) /\ c.proto # Nil
    BY <2>i, <2>c, IdleFrame, CallInfoOK, ProtoAssumption
  <2>4. e \in Seq({r, c}) /\ Len(e) = 2 /\ e[1] = r /\ e[2] = c
    BY <2>e
  <2>5. \A k \in 1..2 : FrameOK(e[k])
    <3>1. \A k \in 1..2 : k = 1 \/ k = 2
      OBVIOUS
    <3>2. QED
      BY <2>3, <2>4, <3>1
  <2>6. FramesOK(e) /\ Founded(e, thread)
    BY <1>3, <2>3, <2>4, <2>5 DEF FramesOK, Founded, Bottom
  <2>7. frames = e /\ thread = "coroutine"
    BY <1>3, <2>2, <2>i, <2>c, <2>e DEF Init
  <2>8. QED
    BY <1>1, <2>6, <2>7 DEF FramesInvariant
<1>4. QED
  BY <1>2, <1>3

LEMMA SortedIsSaid == FramesInvariant => OpenListDescends
BY DEF FramesInvariant, UpsOK, Descending, HoldsOpen, OpenListDescends

\* The frames stay those of calls that wait, and the open upvalues stay sorted,
\* whatever the program does.
THEOREM FramesKeepInvariant == Spec => []FramesInvariant
<1>1. ASSUME FramesInvariant, UNCHANGED vars PROVE FramesInvariant'
  BY <1>1 DEF FramesInvariant, vars
<1>2. FramesInvariant /\ [Next]_vars => FramesInvariant'
  BY <1>1, NextKeeps
<1>3. QED
  BY InitKeeps, <1>2, PTL DEF Spec

\* The list that close_upvalues and find_or_create_upvalue walk descends
\* strictly and holds every open upvalue, for every program.
THEOREM OpenListStaysSorted == Spec => []OpenListDescends
BY FramesKeepInvariant, SortedIsSaid, PTL

-----------------------------------------------------------------------------
(* What lies on the stack: the frames and the upvalues of n initialised slots. *)

\* The frame fr describes slots of a stack of n values, and its registers exist.
FrameIn(fr, n) ==
    /\ {"nargs", "nres", "varargs", "cont", "free"} \subseteq DOMAIN fr
    /\ fr.func \in 1..n + 1 /\ fr.base \in 1..n + 1
    /\ fr.base = fr.func \/ fr.base = fr.func + 1
    /\ fr.nargs \in Nat /\ fr.nres \in Int /\ fr.cont \in Int /\ fr.varargs \in Seq(Value)
    /\ fr.proto # Nil => fr.base + Room[fr.proto] - 1 <= n

\* The arguments of a protected call exist, and a callee lies above the
\* registers that its caller still reads.
FramesIn(fs, n) ==
    /\ \A k \in 1..Len(fs) : FrameIn(fs[k], n)
    /\ \A k \in 2..Len(fs) :
          /\ fs[k].proto = Nil => fs[k].func + fs[k].nargs <= n
          /\ fs[k - 1].proto # Nil => fs[k].func >= fs[k - 1].base + fs[k - 1].free

UpsIn(us, n) ==
    \A u \in Upvalues : /\ us.var[u].state \in {"unused", "open", "closed"}
                        /\ us.var[u].slot \in 0..n /\ us.var[u].val \in Value

\* The stack, the upvalues and the frames at one point of an instruction.
Laid(s, us, fs) ==
    /\ s \in Seq(Value) /\ UpsOK(us) /\ FramesOK(fs)
    /\ UpsIn(us, Len(s)) /\ FramesIn(fs, Len(s))

\* What is laid on a stack stays so when the stack grows.
LEMMA LaidOn ==
    ASSUME NEW n \in Nat, NEW m \in Nat, n <= m
    PROVE  /\ \A fr : FrameIn(fr, n) /\ FrameOK(fr) => FrameIn(fr, m)
           /\ \A fs : FramesIn(fs, n) /\ FramesOK(fs) => FramesIn(fs, m)
           /\ \A us : UpsIn(us, n) => UpsIn(us, m)
<1>1. ASSUME NEW fr, FrameIn(fr, n), FrameOK(fr) PROVE FrameIn(fr, m)
  <2>1. fr.proto # Nil => Room[fr.proto] \in Nat
    BY <1>1, ProtoAssumption DEF FrameOK
  <2>2. ASSUME fr.proto # Nil PROVE fr.base + Room[fr.proto] - 1 <= m
    <3>1. fr.base + Room[fr.proto] - 1 <= n /\ fr.base \in 1..n + 1
      BY <1>1, <2>2, Zenon DEF FrameIn
    <3>2. PICK b \in Int, r \in Int : b = fr.base /\ r = Room[fr.proto]
      BY <2>1, <2>2, <3>1
    <3> QED BY <3>1, <3>2
  <2>3. fr.func \in 1..m + 1 /\ fr.base \in 1..m + 1
    <3>1. fr.func \in 1..n + 1 /\ fr.base \in 1..n + 1
      BY <1>1, Zenon DEF FrameIn
    <3> QED BY <3>1
  <2> QED BY <1>1, <2>2, <2>3 DEF FrameIn
<1>2. ASSUME NEW fs, FramesIn(fs, n), FramesOK(fs) PROVE FramesIn(fs, m)
  <2>m. PICK l \in Nat : l = Len(fs)
    BY <1>2, FramesList
  <2>1. \A k \in 1..l : FrameIn(fs[k], m)
    BY <1>1, <1>2, <2>m DEF FramesIn, FramesOK
  <2>2. \A k \in 2..l : fs[k].proto = Nil => fs[k].func + fs[k].nargs <= m
    <3> SUFFICES ASSUME NEW k \in 2..l, fs[k].proto = Nil PROVE fs[k].func + fs[k].nargs <= m
      OBVIOUS
    <3>1. k \in 1..l
      OBVIOUS
    <3>2. FrameIn(fs[k], n) /\ fs[k].func + fs[k].nargs <= n
      BY <1>2, <2>m, <3>1 DEF FramesIn
    <3>3. PICK f \in Int, a \in Int : f = fs[k].func /\ a = fs[k].nargs
      BY <3>2 DEF FrameIn
    <3> QED BY <3>2, <3>3
  <2> QED BY <1>2, <2>m, <2>1, <2>2 DEF FramesIn
<1>3. ASSUME NEW us, UpsIn(us, n) PROVE UpsIn(us, m)
  BY <1>3 DEF UpsIn
<1> QED BY <1>1, <1>2, <1>3

LEMMA MaxOfTwo ==
    ASSUME NEW a \in Int, NEW b \in Int
    PROVE  Max({a, b}) = IF a >= b THEN a ELSE b
<1>1. PICK m : m = IF a >= b THEN a ELSE b
  OBVIOUS
<1>2. m \in {a, b} /\ \A y \in {a, b} : m >= y
  BY <1>1
<1>3. \A x \in {a, b} : (\A y \in {a, b} : x >= y) => x = m
  BY <1>1
<1>4. Max({a, b}) \in {a, b} /\ \A y \in {a, b} : Max({a, b}) >= y
  BY <1>2 DEF Max
<1> QED BY <1>1, <1>3, <1>4

\* A list of values with the elements that e gives.
LEMMA ValueList ==
    ASSUME NEW n \in Int, NEW g, g = [i \in 1..n |-> g[i]], \A i \in 1..n : g[i] \in Value
    PROVE  g \in Seq(Value) /\ Len(g) = IF n > 0 THEN n ELSE 0
<1>1. CASE n > 0
  <2>1. g \in [1..n -> Value]
    BY Zenon
  <2> QED BY <1>1, <2>1, ListOf
<1>2. CASE ~ (n > 0)
  <2>1. 1..n = 1..0
    BY <1>2
  <2>2. g = [i \in 1..0 |-> g[i]]
    BY <2>1, Zenon
  <2>3. g \in [1..0 -> Value]
    BY <2>2
  <2> QED BY <1>2, <2>3, ListOf
<1> QED BY <1>1, <1>2

LEMMA NoValues == <<>> \in Seq(Value)
OBVIOUS

LEMMA NilValue == Nil \in Value /\ Fun \in Value /\ Obj \in Value
BY DEF Value

LEMMA OneValue == ASSUME NEW v \in Value PROVE <<v>> \in Seq(Value)
OBVIOUS

LEMMA SlotValue == ASSUME NEW s \in Seq(Value), NEW k PROVE Slot(s, k) \in Value
<1>1. CASE k \in DOMAIN s
  <2>1. s[k] \in Value
    BY <1>1
  <2> QED BY <1>1, <2>1 DEF Slot
<1> QED BY <1>1, NilValue DEF Slot

\* ensure_stack_slot
LEMMA GrowLaid ==
    ASSUME NEW s \in Seq(Value), NEW n \in Int
    PROVE  /\ Grow(s, n) \in Seq(Value)
           /\ Len(Grow(s, n)) = IF n > Len(s) THEN n ELSE Len(s)
           /\ \A i \in 1..Len(s) : Grow(s, n)[i] = s[i]
<1>1. PICK l \in Nat : l = Len(s)
  OBVIOUS
<1>2. PICK d \in Nat : d = Max({0, n - l}) /\ d = IF 0 >= n - l THEN 0 ELSE n - l
  BY MaxOfTwo
<1>3. PICK e : e = [i \in 1..d |-> Nil]
  OBVIOUS
<1>4. e \in Seq(Value) /\ Len(e) = d
  BY <1>3, NilValue
<1>5. Grow(s, n) = s \o e
  BY <1>1, <1>2, <1>3 DEF Grow
<1>6. PICK g : g = s \o e
  OBVIOUS
<1>7. g \in Seq(Value) /\ Len(g) = l + d /\ \A i \in 1..l : g[i] = s[i]
  <2>1. g \in Seq(Value) /\ Len(g) = Len(s) + Len(e)
    BY <1>4, <1>6, ConcatProperties
  <2>2. \A i \in 1..Len(s) + Len(e) : g[i] = IF i <= Len(s) THEN s[i] ELSE e[i - Len(s)]
    BY <1>4, <1>6, ConcatProperties
  <2> QED BY <1>1, <1>4, <2>1, <2>2
<1> QED BY <1>1, <1>2, <1>5, <1>6, <1>7

\* Writing and clearing slots.
LEMMA PutLaid ==
    ASSUME NEW s \in Seq(Value), NEW k \in Int, NEW vs \in Seq(Value)
    PROVE  Put(s, k, vs) \in Seq(Value) /\ Len(Put(s, k, vs)) = Len(s)
<1>1. PICK n \in Nat, m \in Nat : n = Len(s) /\ m = Len(vs) /\ DOMAIN s = 1..n
  OBVIOUS
<1>2. PICK g : g = Put(s, k, vs)
  OBVIOUS
<1>3. g = [i \in 1..n |-> IF i \in k..k + m - 1 THEN vs[i - k + 1] ELSE s[i]]
  BY <1>1, <1>2, Zenon DEF Put
<1>4. \A i \in 1..n : g[i] \in Value
  <2> SUFFICES ASSUME NEW i \in 1..n PROVE g[i] \in Value
    OBVIOUS
  <2>1. i \in k..k + m - 1 => i - k + 1 \in 1..m
    OBVIOUS
  <2>2. \A j \in 1..m : vs[j] \in Value
    BY <1>1
  <2>3. s[i] \in Value
    BY <1>1
  <2> QED BY <1>3, <2>1, <2>2, <2>3
<1>5. g = [i \in 1..n |-> g[i]]
  BY <1>3
<1>6. g \in Seq(Value) /\ Len(g) = IF n > 0 THEN n ELSE 0
  BY <1>1, <1>4, <1>5, ValueList
<1> QED BY <1>1, <1>2, <1>6

LEMMA WipeLaid ==
    ASSUME NEW s \in Seq(Value), NEW lo, NEW hi
    PROVE  Wipe(s, lo, hi) \in Seq(Value) /\ Len(Wipe(s, lo, hi)) = Len(s)
<1>1. PICK n \in Nat : n = Len(s) /\ DOMAIN s = 1..n
  OBVIOUS
<1>2. PICK g : g = Wipe(s, lo, hi)
  OBVIOUS
<1>3. g = [i \in 1..n |-> IF i \in lo..hi THEN Nil ELSE s[i]]
  BY <1>1, <1>2, Zenon DEF Wipe
<1>4. \A i \in 1..n : g[i] \in Value
  <2>1. \A i \in 1..n : s[i] \in Value
    BY <1>1
  <2> QED BY <1>3, <2>1, NilValue
<1>5. g = [i \in 1..n |-> g[i]]
  BY <1>3
<1>6. g \in Seq(Value) /\ Len(g) = IF n > 0 THEN n ELSE 0
  BY <1>1, <1>4, <1>5, ValueList
<1> QED BY <1>1, <1>2, <1>6

LEMMA WindowLaid ==
    ASSUME NEW s \in Seq(Value), NEW k \in Int, k >= 1, NEW n \in Int
    PROVE  /\ Window(s, k, n) \in Seq(Value)
           /\ Len(Window(s, k, n)) = IF n > 0 THEN n ELSE 0
<1>1. PICK g \in Seq(Value) : g = Grow(s, k + n - 1) /\ Len(g) >= k + n - 1
  BY GrowLaid
<1>2. PICK l \in Nat : l = Len(g)
  OBVIOUS
<1>3. PICK w : w = SubSeq(g, k, k + n - 1)
  OBVIOUS
<1>4. w = [i \in 1..n |-> g[k + i - 1]]
  <2>1. 1..(1 + (k + n - 1) - k) = 1..n
    OBVIOUS
  <2> QED BY <1>3, <2>1 DEF SubSeq
<1>5. \A i \in 1..n : w[i] \in Value
  <2>1. \A i \in 1..n : k + i - 1 \in 1..l
    BY <1>1, <1>2
  <2>2. \A j \in 1..l : g[j] \in Value
    BY <1>2
  <2> QED BY <1>4, <2>1, <2>2
<1>6. w = [i \in 1..n |-> w[i]]
  BY <1>4
<1>7. w \in Seq(Value) /\ Len(w) = IF n > 0 THEN n ELSE 0
  BY <1>5, <1>6, ValueList
<1> QED BY <1>1, <1>3, <1>7 DEF Window

LEMMA AdjustLaid ==
    ASSUME NEW vs \in Seq(Value), NEW n \in Int
    PROVE  Adjust(vs, n) \in Seq(Value)
<1>1. PICK l \in Nat : l = Len(vs)
  OBVIOUS
<1>2. PICK m \in Int : m = IF n = MultRet THEN l ELSE n
  OBVIOUS
<1>3. PICK g : g = [i \in 1..m |-> IF i <= l THEN vs[i] ELSE Nil]
  OBVIOUS
<1>4. \A i \in 1..m : g[i] \in Value
  <2>1. \A i \in 1..l : vs[i] \in Value
    BY <1>1
  <2>2. \A i \in 1..m : i <= l => i \in 1..l
    BY <1>1
  <2> QED BY <1>3, <2>1, <2>2, NilValue
<1>5. g \in Seq(Value)
  BY <1>3, <1>4, ValueList
<1> QED BY <1>1, <1>2, <1>3, <1>5 DEF Adjust

\* prepare_lua_varargs makes the registers of the callee.
LEMMA PreparedLaid ==
    ASSUME NEW s \in Seq(Value), NEW b \in Int, NEW n \in Int, NEW p \in Protos
    PROVE  /\ Prepared(s, b, n, p) \in Seq(Value)
           /\ Len(Prepared(s, b, n, p)) >= Len(s)
           /\ Len(Prepared(s, b, n, p)) >= b + Room[p] - 1
<1>1. PICK r \in Nat, a \in Nat : r = Room[p] /\ a = Params[p]
  BY ProtoAssumption
<1>2. PICK g \in Seq(Value) : g = Grow(s, b + a - 1) /\ Len(g) >= Len(s)
  BY GrowLaid
<1>3. PICK w \in Seq(Value) : w = Wipe(g, b + n, b + a - 1) /\ Len(w) = Len(g)
  BY WipeLaid
<1>4. PICK h \in Seq(Value) : h = Grow(w, b + r - 1) /\ Len(h) >= Len(w) /\ Len(h) >= b + r - 1
  BY GrowLaid
<1>5. PICK v \in Seq(Value) : v = Wipe(h, b + a, b + r - 1) /\ Len(v) = Len(h)
  BY WipeLaid
<1>6. Prepared(s, b, n, p) = v
  BY <1>1, <1>2, <1>3, <1>4, <1>5 DEF Prepared
<1>7. Len(v) >= Len(s) /\ Len(v) >= b + r - 1
  BY <1>2, <1>3, <1>4, <1>5
<1> QED BY <1>1, <1>6, <1>7

LEMMA ExtraLaid ==
    ASSUME NEW s \in Seq(Value), NEW b \in Int, b >= 1, NEW n \in Int, NEW p \in Protos
    PROVE  Extra(s, b, n, p) \in Seq(Value)
<1>1. PICK a \in Nat : a = Params[p]
  BY ProtoAssumption
<1>2. Window(s, b + a, n - a) \in Seq(Value)
  <2>1. b + a \in Int /\ b + a >= 1 /\ n - a \in Int
    OBVIOUS
  <2> QED BY <2>1, WindowLaid
<1>3. <<>> \in Seq(Value)
  OBVIOUS
<1> QED BY <1>1, <1>2, <1>3 DEF Extra

LEMMA NativeLaid ==
    ASSUME NEW s \in Seq(Value), NEW f \in Int, NEW n \in Int
    PROVE  /\ NativeWindow(s, f, n) \in Seq(Value)
           /\ Len(NativeWindow(s, f, n)) >= Len(s)
           /\ Len(NativeWindow(s, f, n)) >= f + n
<1>1. PICK d \in Nat : d = Spare
  BY SpareAssumption
<1>2. PICK g \in Seq(Value) : g = Grow(s, f + n + d) /\ Len(g) >= Len(s) /\ Len(g) >= f + n + d
  BY GrowLaid
<1>3. PICK w \in Seq(Value) : w = Wipe(g, f + n + 1, f + n + d) /\ Len(w) = Len(g)
  BY WipeLaid
<1>4. NativeWindow(s, f, n) = w
  BY <1>1, <1>2, <1>3 DEF NativeWindow
<1>5. Len(w) >= Len(s) /\ Len(w) >= f + n
  BY <1>2, <1>3
<1> QED BY <1>4, <1>5

\* Upvalues keep their storage in order.
LEMMA ClosedLaid ==
    ASSUME NEW us, NEW s \in Seq(Value), NEW level, NEW n \in Nat, UpsIn(us, n)
    PROVE  UpsIn(Closed(us, s, level), n)
<1>1. PICK c : c = Closed(us, s, level)
  OBVIOUS
<1>2. PICK k : c.var = [u \in Upvalues |->
                          IF \E i \in 1..k : us.open[i] = u
                          THEN [state |-> "closed", slot |-> 0, val |-> Slot(s, us.var[u].slot)]
                          ELSE us.var[u]]
  <2>1. PICK k : c = [open |-> From(us.open, k + 1),
                      var |-> [u \in Upvalues |->
                          IF \E i \in 1..k : us.open[i] = u
                          THEN [state |-> "closed", slot |-> 0, val |-> Slot(s, us.var[u].slot)]
                          ELSE us.var[u]]]
    BY <1>1 DEF Closed
  <2> QED BY <2>1
<1>3. ASSUME NEW u \in Upvalues
      PROVE  /\ c.var[u].state \in {"unused", "open", "closed"}
             /\ c.var[u].slot \in 0..n /\ c.var[u].val \in Value
  <2>1. PICK v : v = Slot(s, us.var[u].slot) /\ v \in Value
    BY SlotValue
  <2>2. c.var[u] = [state |-> "closed", slot |-> 0, val |-> v] \/ c.var[u] = us.var[u]
    BY <1>2, <2>1
  <2>3. CASE c.var[u] = [state |-> "closed", slot |-> 0, val |-> v]
    BY <2>1, <2>3
  <2>4. CASE c.var[u] = us.var[u]
    BY <2>4 DEF UpsIn
  <2> QED BY <2>2, <2>3, <2>4
<1> QED BY <1>1, <1>3 DEF UpsIn

LEMMA OpenedLaid ==
    ASSUME NEW us, UpsShape(us), NEW d \in Nat, UpsIn(us, d), NEW k \in Int, k \in 0..d,
           NEW u \in Upvalues
    PROVE  UpsIn(Opened(us, k, u), d)
<1>e. PICK e : e = [state |-> "open", slot |-> k, val |-> Nil]
  OBVIOUS
<1>n. PICK n : n = Cut(us, k)
  OBVIOUS
<1>l. PICK l : l = SubSeq(us.open, 1, n) \o <<u>> \o From(us.open, n + 1)
  OBVIOUS
<1>v. PICK v : v = [us.var EXCEPT ![u] = e]
  OBVIOUS
<1>c. PICK c : c = [open |-> l, var |-> v]
  OBVIOUS
<1>1. Opened(us, k, u) = c
  BY <1>e, <1>n, <1>l, <1>v, <1>c DEF Opened, Cut
<1>2. c.var = v
  BY <1>c
<1>3. ASSUME NEW w \in Upvalues
      PROVE  /\ c.var[w].state \in {"unused", "open", "closed"}
             /\ c.var[w].slot \in 0..d /\ c.var[w].val \in Value
  <2>1. c.var[w] = IF w = u THEN e ELSE us.var[w]
    BY <1>2, <1>v DEF UpsShape
  <2>2. CASE w = u
    BY <1>e, <2>1, <2>2, NilValue
  <2>3. CASE w # u
    BY <2>1, <2>3 DEF UpsIn
  <2> QED BY <2>2, <2>3
<1> QED BY <1>1, <1>3 DEF UpsIn

LEMMA ValueLaid ==
    ASSUME NEW us, UpsShape(us), NEW n \in Nat, UpsIn(us, n), NEW u \in Upvalues, NEW x \in Value
    PROVE  UpsIn([us EXCEPT !.var[u].val = x], n)
<1>e. PICK e : e = [us.var[u] EXCEPT !.val = x]
  OBVIOUS
<1>1. PICK o : o = [us EXCEPT !.var[u].val = x]
  OBVIOUS
<1>2. o.var = [us.var EXCEPT ![u] = e]
  BY <1>1, <1>e DEF UpsShape
<1>3. e.state = us.var[u].state /\ e.slot = us.var[u].slot /\ e.val = x
  <2>1. PICK r : r = us.var[u] /\ r = [state |-> r.state, slot |-> r.slot, val |-> r.val]
    BY DEF UpsShape
  <2> QED BY <1>e, <2>1
<1>4. ASSUME NEW w \in Upvalues
      PROVE  /\ o.var[w].state \in {"unused", "open", "closed"}
             /\ o.var[w].slot \in 0..n /\ o.var[w].val \in Value
  <2>1. o.var[w] = IF w = u THEN e ELSE us.var[w]
    BY <1>2 DEF UpsShape
  <2>2. CASE w = u
    BY <1>3, <2>1, <2>2 DEF UpsIn
  <2>3. CASE w # u
    BY <2>1, <2>3 DEF UpsIn
  <2> QED BY <2>2, <2>3
<1> QED BY <1>1, <1>4 DEF UpsIn

\* A frame takes the place of another, is pushed, or is dropped.
LEMMA ExchangeLaid ==
    ASSUME NEW fs, FramesOK(fs), NEW n \in Nat, FramesIn(fs, n), NEW k, k = Len(fs),
           NEW c, FrameOK(c), FrameIn(c, n), c.func = fs[k].func,
           c.proto = Nil => fs[k].proto = Nil /\ c.nargs = fs[k].nargs
    PROVE  FramesIn([fs EXCEPT ![k] = c], n)
<1>m. PICK m \in Nat : /\ m = Len(fs) /\ m >= 1
                       /\ \E T : fs \in Seq(T) /\ fs \in [1..m -> T]
  BY FramesList
<1>g. PICK g : g = [fs EXCEPT ![k] = c]
  OBVIOUS
<1>1. Len(g) = m
  BY <1>m, <1>g, ExchangeKeeps
<1>2. \A j \in 1..m : g[j] = IF j = m THEN c ELSE fs[j]
  BY <1>m, <1>g
<1>3. \A j \in 1..m : FrameIn(g[j], n)
  BY <1>m, <1>2 DEF FramesIn
<1>4. ASSUME NEW j \in 2..m
      PROVE  /\ g[j].proto = Nil => g[j].func + g[j].nargs <= n
             /\ g[j - 1].proto # Nil => g[j].func >= g[j - 1].base + g[j - 1].free
  <2>1. j \in 1..m /\ j - 1 \in 1..m /\ j - 1 # m
    OBVIOUS
  <2>2. /\ fs[j].proto = Nil => fs[j].func + fs[j].nargs <= n
        /\ fs[j - 1].proto # Nil => fs[j].func >= fs[j - 1].base + fs[j - 1].free
    BY <1>m DEF FramesIn
  <2>3. g[j - 1] = fs[j - 1]
    BY <1>2, <2>1
  <2>4. CASE j = m
    BY <1>2, <1>m, <2>1, <2>2, <2>3, <2>4
  <2>5. CASE j # m
    BY <1>2, <2>1, <2>2, <2>3, <2>5
  <2> QED BY <2>4, <2>5
<1> QED BY <1>1, <1>3, <1>4, <1>g DEF FramesIn

LEMMA AppendLaid ==
    ASSUME NEW fs, FramesOK(fs), NEW n \in Nat, FramesIn(fs, n), NEW c, FrameOK(c), FrameIn(c, n),
           c.proto = Nil => c.func + c.nargs <= n,
           fs[Len(fs)].proto # Nil => c.func >= fs[Len(fs)].base + fs[Len(fs)].free
    PROVE  FramesIn(Append(fs, c), n)
<1>m. PICK m \in Nat : /\ m = Len(fs) /\ m >= 1
                       /\ \E T : fs \in Seq(T) /\ fs \in [1..m -> T]
  BY FramesList
<1>g. PICK g : g = Append(fs, c)
  OBVIOUS
<1>1. Len(g) = m + 1 /\ g[m + 1] = c /\ \A j \in 1..m : g[j] = fs[j]
  <2>1. PICK T : fs \in Seq(T) /\ fs \in [1..m -> T]
    BY <1>m
  <2>2. fs \in [1..m -> T \cup {c}]
    BY <2>1
  <2>3. fs \in Seq(T \cup {c})
    BY <2>2, ListOf
  <2> QED BY <1>m, <1>g, <2>3, AppendProperties
<1>3. \A j \in 1..m + 1 : FrameIn(g[j], n)
  <2>1. \A j \in 1..m + 1 : j \in 1..m \/ j = m + 1
    OBVIOUS
  <2> QED BY <1>m, <1>1, <2>1 DEF FramesIn
<1>4. ASSUME NEW j \in 2..m + 1
      PROVE  /\ g[j].proto = Nil => g[j].func + g[j].nargs <= n
             /\ g[j - 1].proto # Nil => g[j].func >= g[j - 1].base + g[j - 1].free
  <2>1. j - 1 \in 1..m /\ g[j - 1] = fs[j - 1]
    BY <1>1
  <2>2. CASE j = m + 1
    <3>1. g[j] = c /\ j - 1 = m
      BY <1>1, <2>2
    <3> QED BY <1>m, <2>1, <3>1
  <2>3. CASE j # m + 1
    <3>1. j \in 2..m /\ g[j] = fs[j]
      BY <1>1, <2>3
    <3> QED BY <1>m, <2>1, <3>1 DEF FramesIn
  <2> QED BY <2>2, <2>3
<1> QED BY <1>1, <1>3, <1>4, <1>g DEF FramesIn

LEMMA UptoLaid ==
    ASSUME NEW fs, FramesOK(fs), NEW n \in Nat, FramesIn(fs, n), NEW k \in 1..Len(fs)
    PROVE  FramesIn(SubSeq(fs, 1, k), n) /\ SubSeq(fs, 1, k)[k] = fs[k]
<1>m. PICK m \in Nat : /\ m = Len(fs) /\ m >= 1
                       /\ \E T : fs \in Seq(T) /\ fs \in [1..m -> T]
  BY FramesList
<1>1. PICK T : fs \in Seq(T) /\ fs \in [1..m -> T]
  BY <1>m
<1>g. PICK g : g = SubSeq(fs, 1, k)
  OBVIOUS
<1>2. k \in Nat /\ k >= 1 /\ k <= m
  BY <1>m
<1>3. Len(g) = k /\ \A j \in 1..k : g[j] = fs[j]
  <2>1. \A j \in 1..k : fs[j] \in T
    BY <1>1, <1>2
  <2> QED BY <1>2, <1>g, <2>1, SubSeqProperties
<1>4. \A j \in 1..k : FrameIn(g[j], n)
  <2>1. \A j \in 1..k : j \in 1..m
    BY <1>2
  <2> QED BY <1>m, <1>3, <2>1 DEF FramesIn
<1>5. ASSUME NEW j \in 2..k
      PROVE  /\ g[j].proto = Nil => g[j].func + g[j].nargs <= n
             /\ g[j - 1].proto # Nil => g[j].func >= g[j - 1].base + g[j - 1].free
  <2>1. j \in 1..k /\ j - 1 \in 1..k /\ j \in 2..m
    BY <1>2
  <2>2. g[j] = fs[j] /\ g[j - 1] = fs[j - 1]
    BY <1>3, <2>1
  <2> QED BY <1>m, <2>1, <2>2 DEF FramesIn
<1>6. k \in 1..k
  BY <1>2
<1> QED BY <1>3, <1>4, <1>5, <1>6, <1>g DEF FramesIn

\* A frame that goes on describes the same slots.
Alike(fr, c) ==
    /\ DOMAIN c = DOMAIN fr /\ c.func = fr.func /\ c.base = fr.base /\ c.nargs = fr.nargs
    /\ c.nres = fr.nres /\ c.varargs = fr.varargs /\ c.cont = fr.cont /\ c.proto = fr.proto

LEMMA AlikeLaid ==
    ASSUME NEW fr, FrameOK(fr), NEW n \in Nat, FrameIn(fr, n), NEW c, Alike(fr, c)
    PROVE  FrameOK(c) /\ FrameIn(c, n)
<1>1. FrameOK(c)
  BY Zenon DEF FrameOK, Alike
<1>2. FrameIn(c, n)
  BY Zenon DEF FrameIn, Alike
<1> QED BY <1>1, <1>2

LEMMA GoneIsAlike ==
    ASSUME NEW fr, FrameOK(fr), NEW n \in Nat, FrameIn(fr, n), NEW pc, NEW free
    PROVE  /\ Alike(fr, [fr EXCEPT !.pc = pc, !.free = free])
           /\ [fr EXCEPT !.pc = pc, !.free = free].free = free
BY DEF FrameIn, FrameOK, Alike

\* What an instruction leaves behind on a stack that had n slots.
Left(n) ==
    /\ stack' \in Seq(Value) /\ Len(stack') >= n
    /\ top' \in 1..Len(stack') + 1
    /\ FramesIn(frames', Len(stack')) /\ UpsIn(ups', Len(stack'))

LEMMA AnswerLaid ==
    ASSUME NEW s, NEW us, NEW fs, Laid(s, us, fs), NEW t, t \in 1..Len(s) + 1, NEW want, NEW cont \in Int,
           Answer(s, us, fs, t, want, cont)
    PROVE  Left(Len(s))
<1>n. PICK n \in Nat : n = Len(s)
  BY DEF Laid
<1>1. stack' \in Seq(Value) /\ Len(stack') = n
  <2>1. stack' = s \/ stack' = Put(s, cont + 2, <<Slot(s, cont + 3)>>)
    BY DEF Answer
  <2>2. s \in Seq(Value)
    BY DEF Laid
  <2>3. <<Slot(s, cont + 3)>> \in Seq(Value)
    BY <2>2, SlotValue
  <2>4. /\ Put(s, cont + 2, <<Slot(s, cont + 3)>>) \in Seq(Value)
        /\ Len(Put(s, cont + 2, <<Slot(s, cont + 3)>>)) = n
    <3>1. PICK v : v = <<Slot(s, cont + 3)>>
      OBVIOUS
    <3>2. v \in Seq(Value) /\ cont + 2 \in Int
      BY <2>3, <3>1
    <3>3. Put(s, cont + 2, v) \in Seq(Value) /\ Len(Put(s, cont + 2, v)) = Len(s)
      BY <2>2, <3>2, PutLaid
    <3> QED BY <1>n, <3>1, <3>3
  <2> QED BY <1>n, <2>1, <2>2, <2>4
<1>2. top' = t /\ ups' = us
  BY DEF Answer
<1>3. FramesIn(frames', n)
  <2>k. PICK k : k = Len(fs)
    OBVIOUS
  <2>1. k \in 1..Len(fs) /\ FrameOK(fs[k]) /\ FrameIn(fs[k], n) /\ FramesOK(fs) /\ FramesIn(fs, n)
    BY <1>n, <2>k, LastFrame DEF Laid, FramesIn
  <2>2. CASE fs[k].proto = Nil
    BY <2>1, <2>k, <2>2 DEF Answer
  <2>3. CASE fs[k].proto # Nil
    <3>1. PICK pc, free : frames' = [fs EXCEPT ![k] = [fs[k] EXCEPT !.pc = pc, !.free = free]]
      BY <2>k, <2>3 DEF Answer
    <3>c. PICK c : c = [fs[k] EXCEPT !.pc = pc, !.free = free]
      OBVIOUS
    <3>2. Alike(fs[k], c)
      BY <2>1, <3>c, GoneIsAlike
    <3>3. FrameOK(c) /\ FrameIn(c, n) /\ c.func = fs[k].func /\ c.proto = fs[k].proto
      BY <2>1, <3>2, AlikeLaid DEF Alike
    <3>4. FramesIn([fs EXCEPT ![k] = c], n)
      BY <2>1, <2>3, <2>k, <3>3, ExchangeLaid
    <3> QED BY <3>1, <3>4, <3>c
  <2> QED BY <2>2, <2>3
<1> QED BY <1>1, <1>2, <1>3, <1>n DEF Laid, Left

\* The stack with its frames between two instructions.
Body ==
    /\ stack \in Seq(Value) /\ top \in 1..Len(stack) + 1
    /\ FramesIn(frames, Len(stack)) /\ UpsIn(ups, Len(stack))

\* A callee in slot f lies above what the caller still reads.
Above(fs, f) == fs[Len(fs)].proto # Nil => f >= fs[Len(fs)].base + fs[Len(fs)].free

LEMMA LaidGrows ==
    ASSUME NEW s, NEW us, NEW fs, Laid(s, us, fs), NEW w \in Seq(Value), Len(w) >= Len(s)
    PROVE  Laid(w, us, fs)
<1>1. Len(s) \in Nat /\ Len(w) \in Nat
  BY DEF Laid
<1> QED BY <1>1, LaidOn DEF Laid

LEMMA DeliverLaid ==
    ASSUME NEW s, NEW us, NEW fs, Laid(s, us, fs), NEW t \in Int, NEW vs \in Seq(Value),
           NEW f \in Int, f >= 1, NEW want \in Int, NEW cont \in Int,
           Deliver(s, us, fs, t, vs, f, want, cont)
    PROVE  Left(Len(s))
<1>1. s \in Seq(Value)
  BY DEF Laid
<1>n. PICK n \in Nat : n = Len(s)
  BY <1>1
<1>2. PICK rs \in Seq(Value) : rs = Adjust(vs, want)
  BY AdjustLaid
<1>3. PICK l \in Nat, r \in Nat : l = Len(vs) /\ r = Len(rs)
  OBVIOUS
<1>4. PICK g \in Seq(Value) : g = Grow(s, t + l - 1) /\ Len(g) >= n
  BY <1>1, <1>n, GrowLaid
<1>5. PICK pushed \in Seq(Value) : pushed = Put(g, t, vs) /\ Len(pushed) = Len(g)
  BY PutLaid
<1>6. PICK h \in Seq(Value) : h = Grow(pushed, f + r - 1) /\ Len(h) >= Len(pushed) /\ Len(h) >= f + r - 1
  BY GrowLaid
<1>7. PICK w \in Seq(Value) : w = Put(h, f, rs) /\ Len(w) = Len(h)
  BY PutLaid
<1>8. Len(w) >= n /\ Len(w) >= f + r - 1 /\ Len(w) \in Nat
  BY <1>4, <1>5, <1>6, <1>7
<1>9. Answer(w, us, fs, f + r, want, cont)
  BY <1>2, <1>3, <1>4, <1>5, <1>6, <1>7 DEF Deliver
<1>10. Laid(w, us, fs)
  BY <1>8, <1>n, LaidGrows
<1>11. f + r \in 1..Len(w) + 1
  BY <1>8
<1>12. Left(Len(w))
  BY <1>9, <1>10, <1>11, AnswerLaid
<1> QED BY <1>8, <1>12, <1>n DEF Left

LEMMA IdleLaid == ASSUME NEW n \in Nat PROVE FramesIn(<<Idle>>, n) /\ FrameIn(Idle, n)
<1>1. FrameIn(Idle, n)
  <2>1. <<>> \in Seq(Value)
    OBVIOUS
  <2>2. PICK c : c = CallInfo(Nil, 1, 0, 1, 0, <<>>, 0)
    OBVIOUS
  <2>3. /\ DOMAIN c = {"proto", "func", "base", "nargs", "ctop", "nres", "varargs", "cont", "pc", "free"}
        /\ c.proto = Nil /\ c.func = 1 /\ c.nargs = 0 /\ c.nres = 0 /\ c.varargs = <<>> /\ c.cont = 0
    BY <2>2 DEF CallInfo
  <2>4. PICK d : d = Idle /\ d = [c EXCEPT !.base = 1]
    BY <2>2 DEF Idle
  <2>5. /\ DOMAIN d = DOMAIN c /\ d.base = 1
        /\ d.proto = Nil /\ d.func = 1 /\ d.nargs = 0 /\ d.nres = 0 /\ d.varargs = <<>> /\ d.cont = 0
    BY <2>3, <2>4
  <2>6. 1 \in 1..n + 1
    OBVIOUS
  <2>7. {"nargs", "nres", "varargs", "cont", "free"} \subseteq DOMAIN d
    BY <2>3, <2>5
  <2>8. d.nargs \in Nat /\ d.nres \in Int /\ d.cont \in Int /\ d.varargs \in Seq(Value)
    BY <2>1, <2>5
  <2>9. FrameIn(d, n)
    BY <2>5, <2>6, <2>7, <2>8, Zenon DEF FrameIn
  <2> QED BY <2>4, <2>9
<1>2. PICK e : e = <<Idle>>
  OBVIOUS
<1>3. Len(e) = 1 /\ e[1] = Idle
  BY <1>2
<1>4. \A k \in 1..Len(e) : k = 1
  BY <1>3
<1>5. \A k \in 2..Len(e) : FALSE
  BY <1>3
<1> QED BY <1>1, <1>2, <1>3, <1>4, <1>5 DEF FramesIn

LEMMA ThrowLaid ==
    ASSUME Body, NEW s, NEW us, NEW fs, Laid(s, us, fs), Len(s) >= Len(stack), Throw(s, us, fs)
    PROVE  Left(Len(s))
<1>n. PICK n \in Nat, o \in Nat : n = Len(s) /\ o = Len(stack) /\ n >= o
  BY DEF Laid, Body
<1>1. stack' = s /\ s \in Seq(Value)
  BY DEF Throw, Laid
<1>m. PICK m \in Nat : m = Len(fs) /\ m >= 1
  BY FramesList DEF Laid
<1>2. CASE Guards(fs) # {}
  <2>k. PICK k : k = Max(Guards(fs))
    OBVIOUS
  <2>1. Guards(fs) \in SUBSET (1..m)
    BY <1>m DEF Guards
  <2>2. k \in Guards(fs)
    BY <1>2, <2>k, <2>1, HasMax
  <2>3. k \in 2..m /\ k \in 1..m /\ fs[k].proto = Nil
    BY <1>m, <2>2 DEF Guards
  <2>4. /\ frames' = SubSeq(fs, 1, k) /\ top' = Restored(fs[k])
        /\ ups' = us \/ ups' = Closed(us, s, fs[k + 1].base)
    BY <1>2, <2>k DEF Throw
  <2>5. FramesIn(frames', n)
    BY <1>m, <1>n, <2>3, <2>4, UptoLaid DEF Laid
  <2>6. UpsIn(ups', n)
    BY <1>1, <1>n, <2>4, ClosedLaid DEF Laid
  <2>7. FrameIn(fs[k], n) /\ fs[k].func + fs[k].nargs <= n
    BY <1>m, <1>n, <2>3 DEF Laid, FramesIn
  <2>8. PICK f \in Nat, a \in Nat : f = fs[k].func /\ a = fs[k].nargs /\ f >= 1
    BY <2>7 DEF FrameIn
  <2>9. top' \in 1..n + 1
    <3>1. f + a <= n
      BY <2>7, <2>8
    <3>2. top' = f + 1 + a
      BY <2>4, <2>8 DEF Restored
    <3>3. PICK t \in Nat : t = f + 1 + a /\ t >= 1 /\ t <= n + 1
      BY <2>8, <3>1
    <3>4. t \in 1..n + 1
      BY <3>3
    <3> QED BY <3>2, <3>3, <3>4
  <2> QED BY <1>1, <1>n, <2>5, <2>6, <2>9 DEF Left
<1>3. CASE Guards(fs) = {}
  <2>1. \/ frames' = <<Idle>> /\ ups' = Closed(us, s, 1) /\ top' = 1
        \/ frames' = fs /\ ups' = us /\ top' = top
    BY <1>3 DEF Throw
  <2>2. FramesIn(<<Idle>>, n) /\ UpsIn(Closed(us, s, 1), n)
    BY <1>1, <1>n, IdleLaid, ClosedLaid DEF Laid
  <2>3. top \in 1..n + 1 /\ 1 \in 1..n + 1
    BY <1>n DEF Body
  <2> QED BY <1>1, <1>n, <2>1, <2>2, <2>3 DEF Left, Laid
<1> QED BY <1>2, <1>3

LEMMA CallInfoLaid ==
    ASSUME NEW p \in Protos \cup {Nil}, NEW f \in Int, f >= 1, NEW n \in Nat, NEW ctop, NEW want \in Int,
           NEW xs \in Seq(Value), NEW cont \in Int, NEW d \in Nat, f <= d,
           p # Nil => f + Room[p] <= d, NEW c, c = CallInfo(p, f, n, ctop, want, xs, cont)
    PROVE  FrameIn(c, d) /\ c.func = f /\ c.base = f + 1 /\ c.nargs = n /\ c.proto = p
<1>2. /\ DOMAIN c = {"proto", "func", "base", "nargs", "ctop", "nres", "varargs", "cont", "pc", "free"}
      /\ c.proto = p /\ c.func = f /\ c.base = f + 1 /\ c.nargs = n /\ c.nres = want
      /\ c.varargs = xs /\ c.cont = cont
  BY DEF CallInfo
<1>3. ASSUME p # Nil PROVE c.base + Room[c.proto] - 1 <= d
  <2>1. PICK r \in Nat : r = Room[p]
    BY <1>3, ProtoAssumption
  <2> QED BY <1>2, <1>3, <2>1, SMTT(30)
<1>4. f \in 1..d + 1 /\ f + 1 \in 1..d + 1
  OBVIOUS
<1>5. FrameIn(c, d)
  BY <1>2, <1>3, <1>4 DEF FrameIn
<1> QED BY <1>2, <1>5

LEMMA EnterLuaLaid ==
    ASSUME Body, NEW s, NEW us, NEW fs, Laid(s, us, fs), Len(s) >= Len(stack),
           NEW f \in Int, f >= 1, NEW n \in Nat, NEW want \in Int, NEW cont \in Int, Above(fs, f),
           EnterLua(s, us, fs, f, n, want, cont)
    PROVE  Left(Len(s))
<1>1. CASE Cardinality(LuaFrames(fs)) >= MaxCalls
  BY <1>1, ThrowLaid DEF EnterLua
<1>2. CASE ~ (Cardinality(LuaFrames(fs)) >= MaxCalls)
  <2>1. PICK p \in Functions :
          /\ stack' = Prepared(s, f + 1, n, p)
          /\ frames' = Append(fs, CallInfo(p, f, n, f + 1 + Room[p], want,
                                           Extra(s, f + 1, n, p), cont))
          /\ ups' = us /\ top' = top
    BY <1>2 DEF EnterLua
  <2>p. p \in Protos /\ p # Nil /\ Room[p] \in Nat
    BY ProtoAssumption DEF Protos
  <2>x. PICK xs \in Seq(Value) : xs = Extra(s, f + 1, n, p)
    BY <2>p, ExtraLaid DEF Laid
  <2>w. PICK w \in Seq(Value) : w = Prepared(s, f + 1, n, p) /\ Len(w) >= Len(s)
                                 /\ Len(w) >= f + 1 + Room[p] - 1
    <3>1. f + 1 \in Int /\ n \in Int /\ s \in Seq(Value)
      BY DEF Laid
    <3> QED BY <2>p, <3>1, PreparedLaid
  <2>d. PICK d \in Nat, o \in Nat : d = Len(w) /\ o = Len(stack) /\ f + Room[p] <= d /\ o <= d /\ f <= d
    <3>1. Len(w) \in Nat /\ Len(stack) \in Nat /\ Len(s) \in Nat
      BY DEF Laid, Body
    <3> QED BY <2>p, <2>w, <3>1, SMTT(30)
  <2>c. PICK c : c = CallInfo(p, f, n, f + 1 + Room[p], want, xs, cont)
    OBVIOUS
  <2>2. FrameOK(c) /\ c.proto = p
    BY <2>c, <2>p, CallInfoOK
  <2>3. FrameIn(c, d) /\ c.func = f
    BY <2>c, <2>d, <2>p, CallInfoLaid
  <2>4. Laid(w, us, fs)
    BY <2>w, LaidGrows
  <2>5. FramesIn(Append(fs, c), d)
    BY <2>2, <2>3, <2>4, <2>p, <2>d, AppendLaid DEF Laid, Above
  <2>6. top' \in 1..d + 1
    BY <2>1, <2>d DEF Body
  <2>7. stack' = w /\ frames' = Append(fs, c) /\ ups' = us
    BY <2>1, <2>x, <2>w, <2>c
  <2>8. UpsIn(us, d)
    BY <2>4, <2>d DEF Laid
  <2> QED BY <2>5, <2>6, <2>7, <2>8, <2>w, <2>d DEF Left
<1> QED BY <1>1, <1>2

LEMMA EnterNativeLaid ==
    ASSUME Body, NEW s, NEW us, NEW fs, Laid(s, us, fs), Len(s) >= Len(stack),
           NEW f \in Int, f >= 1, NEW n \in Nat, NEW want \in Int, NEW cont \in Int,
           EnterNative(s, us, fs, f, n, want, cont)
    PROVE  Left(Len(s))
<1>w. PICK w \in Seq(Value) : w = NativeWindow(s, f, n) /\ Len(w) >= Len(s)
  BY NativeLaid DEF Laid
<1>0. Len(w) \in Nat /\ Len(s) \in Nat /\ Len(stack) \in Nat
  BY DEF Laid, Body
<1>1. Laid(w, us, fs) /\ Len(w) >= Len(stack)
  BY <1>0, <1>w, LaidGrows
<1>2. CASE \E vs \in Lists : Deliver(w, us, fs, f + 1 + n, vs, f, want, cont)
  <2>1. PICK vs \in Lists : Deliver(w, us, fs, f + 1 + n, vs, f, want, cont)
    BY <1>2
  <2>2. vs \in Seq(Value) /\ f + 1 + n \in Int
    BY ProtoAssumption
  <2>3. Left(Len(w))
    BY <1>1, <2>1, <2>2, DeliverLaid
  <2> QED BY <1>0, <1>w, <2>3 DEF Left
<1>3. CASE Throw(w, us, fs)
  <2>1. Left(Len(w))
    BY <1>1, <1>3, ThrowLaid
  <2> QED BY <1>0, <1>w, <2>1 DEF Left
<1> QED BY <1>w, <1>2, <1>3 DEF EnterNative

LEMMA EnterYieldLaid ==
    ASSUME NEW s, NEW us, NEW fs, Laid(s, us, fs),
           NEW f \in Int, f >= 1, NEW n \in Nat, NEW want \in Int, NEW cont \in Int,
           EnterYield(s, us, fs, f, n, want, cont)
    PROVE  Left(Len(s)) /\ pending' = [base |-> f, want |-> want] /\ top' = f
<1>w. PICK w \in Seq(Value) : w = NativeWindow(s, f, n) /\ Len(w) >= Len(s) /\ Len(w) >= f + n
  BY NativeLaid DEF Laid
<1>0. Len(w) \in Nat /\ Len(s) \in Nat
  BY DEF Laid
<1>1. Laid(w, us, fs)
  BY <1>w, LaidGrows
<1>2. f \in 1..Len(w) + 1
  BY <1>0, <1>w
<1>3. stack' = w /\ top' = f /\ frames' = fs /\ ups' = us /\ pending' = [base |-> f, want |-> want]
  BY <1>w DEF EnterYield
<1> QED BY <1>0, <1>w, <1>1, <1>2, <1>3 DEF Left, Laid

LEMMA EnterPcallLaid ==
    ASSUME Body, NEW s, NEW us, NEW fs, Laid(s, us, fs), Len(s) >= Len(stack),
           NEW f \in Int, f >= 1, NEW n \in Nat, NEW want \in Int, NEW cont \in Int, Above(fs, f),
           EnterPcall(s, us, fs, f, n, want, cont)
    PROVE  Left(Len(s))
<1>w. PICK w \in Seq(Value) : w = NativeWindow(s, f, n) /\ Len(w) >= Len(s) /\ Len(w) >= f + n
  BY NativeLaid DEF Laid
<1>d. PICK d \in Nat : d = Len(w) /\ f <= d /\ f + n <= d
  BY <1>w
<1>0. Len(s) \in Nat /\ Len(stack) \in Nat
  BY DEF Laid, Body
<1>c. PICK c : c = CallInfo(Nil, f, n, f + 1 + n + Spare, want, <<>>, cont)
  OBVIOUS
<1>g. PICK gs : gs = Append(fs, c)
  OBVIOUS
<1>1. FrameOK(c)
  BY <1>c, CallInfoOK
<1>2. FrameIn(c, d) /\ c.func = f /\ c.nargs = n /\ c.proto = Nil
  <2>1. /\ DOMAIN c = {"proto", "func", "base", "nargs", "ctop", "nres", "varargs", "cont", "pc", "free"}
        /\ c.proto = Nil /\ c.func = f /\ c.base = f + 1 /\ c.nargs = n /\ c.nres = want
        /\ c.varargs = <<>> /\ c.cont = cont
    BY <1>c DEF CallInfo
  <2>2. f \in 1..d + 1 /\ f + 1 \in 1..d + 1
    BY <1>d
  <2>3. c.varargs \in Seq(Value)
    BY <2>1, NoValues
  <2> QED BY <2>1, <2>2, <2>3, Zenon DEF FrameIn
<1>3. Laid(w, us, fs)
  BY <1>w, LaidGrows
<1>4. FramesIn(gs, d)
  BY <1>1, <1>2, <1>3, <1>d, <1>g, AppendLaid DEF Laid, Above
<1>5. FramesOK(gs)
  BY <1>1, <1>3, <1>g, AppendKeeps DEF Laid
<1>6. Laid(w, us, gs)
  BY <1>3, <1>4, <1>5, <1>d DEF Laid
<1>7. gs[Len(gs)].proto = Nil
  <2>1. PICK m, T : m \in Nat /\ m = Len(fs) /\ fs \in [1..m -> T]
    BY <1>3, FramesList DEF Laid
  <2>2. fs \in [1..m -> T \cup {c}]
    BY <2>1
  <2>3. fs \in Seq(T \cup {c})
    BY <2>1, <2>2, ListOf
  <2>4. Len(gs) = m + 1 /\ gs[m + 1] = c
    BY <2>1, <2>3, <1>g, AppendProperties
  <2> QED BY <1>2, <2>4
<1>8. n > 0 /\ Len(w) >= Len(stack) /\ f + 1 >= 1 /\ f + 1 \in Int /\ n - 1 \in Nat /\ MultRet \in Int /\ 0 \in Int
  BY <1>0, <1>w DEF EnterPcall, MultRet
<1>9. CASE EnterLua(w, us, gs, f + 1, n - 1, MultRet, 0)
  <2>1. Above(gs, f + 1)
    BY <1>7 DEF Above
  <2>2. Left(Len(w))
    BY <1>6, <1>8, <1>9, <2>1, EnterLuaLaid
  <2> QED BY <1>0, <1>d, <1>w, <2>2 DEF Left
<1>10. CASE \E vs \in Lists : Deliver(NativeWindow(w, f + 1, n - 1), us, gs, f + 1 + n, vs, f + 1, MultRet, 0)
  <2>v. PICK v \in Seq(Value) : v = NativeWindow(w, f + 1, n - 1) /\ Len(v) >= Len(w)
    BY <1>8, NativeLaid
  <2>1. PICK vs \in Lists : Deliver(v, us, gs, f + 1 + n, vs, f + 1, MultRet, 0)
    BY <1>10, <2>v
  <2>2. vs \in Seq(Value) /\ f + 1 + n \in Int
    BY ProtoAssumption
  <2>3. Laid(v, us, gs)
    BY <1>6, <2>v, LaidGrows
  <2>4. Left(Len(v))
    BY <1>8, <2>1, <2>2, <2>3, DeliverLaid
  <2>5. Len(v) \in Nat
    OBVIOUS
  <2> QED BY <1>0, <1>d, <1>w, <2>v, <2>4, <2>5 DEF Left
<1>11. CASE Throw(w, us, gs)
  <2>1. Left(Len(w))
    BY <1>6, <1>8, <1>11, ThrowLaid
  <2> QED BY <1>0, <1>d, <1>w, <2>1 DEF Left
<1> QED BY <1>9, <1>10, <1>11, <1>w, <1>c, <1>g DEF EnterPcall

LEMMA EnterLaid ==
    ASSUME Body, NEW s, NEW us, NEW fs, Laid(s, us, fs), Len(s) >= Len(stack),
           NEW f \in Int, f >= 1, NEW n \in Nat, NEW want \in Int, NEW cont \in Int, Above(fs, f),
           Enter(s, us, fs, f, n, want, cont)
    PROVE  Left(Len(s))
<1>1. CASE EnterLua(s, us, fs, f, n, want, cont)
  BY <1>1, EnterLuaLaid
<1>2. CASE EnterNative(s, us, fs, f, n, want, cont)
  BY <1>2, EnterNativeLaid
<1>3. CASE EnterYield(s, us, fs, f, n, want, cont)
  BY <1>3, EnterYieldLaid
<1>4. CASE EnterPcall(s, us, fs, f, n, want, cont)
  BY <1>4, EnterPcallLaid
<1> QED BY <1>1, <1>2, <1>3, <1>4 DEF Enter

-----------------------------------------------------------------------------
(* What an instruction finds: operands that name registers, and registers    *)
(* that exist.                                                               *)

LEMMA Operands ==
    ASSUME FramesInvariant, NEW op, At(op)
    PROVE  /\ ins.a \in Nat /\ ins.c \in Nat /\ cur.proto \in Protos
           /\ op = "LOADK" => ins.b \in Value
           /\ op # "LOADK" => ins.b \in Nat
           /\ op \in {"CALL", "TAILCALL", "TFORLOOP", "RETURN", "VARARG"} => ins.a >= 1
           /\ op = "VARARG" => ins.a <= Room[cur.proto] + 1
           /\ op = "CLOSURE" => ins.b \in 1..Room[cur.proto]
<1>1. FrameOK(cur) /\ cur.proto # Nil /\ ins.op = op
  BY Here, LastFrame DEF Ready, cur
<1>2. cur.proto \in Protos
  BY <1>1 DEF FrameOK
<1>3. CASE cur.pc \in DOMAIN Code[cur.proto]
  <2>1. ins = Code[cur.proto][cur.pc]
    BY <1>3 DEF ins, InstructionAt
  <2>2. PICK i : i = ins /\ i.op = op
    BY <1>1
  <2>3. /\ i.a \in Nat /\ i.c \in Nat
        /\ IF i.op = "LOADK" THEN i.b \in Value ELSE i.b \in Nat
        /\ i.op \in {"CALL", "TAILCALL", "TFORLOOP", "RETURN", "VARARG"} => i.a >= 1
        /\ i.op = "VARARG" => i.a <= Room[cur.proto] + 1
        /\ i.op = "CLOSURE" => i.b \in 1..Room[cur.proto]
    BY <1>2, <1>3, <2>1, <2>2, CodeAssumption
  <2> QED BY <1>2, <2>2, <2>3
<1>4. CASE cur.pc \notin DOMAIN Code[cur.proto]
  <2>1. ins = [op |-> "RETURN", a |-> 1, b |-> 1, c |-> 0]
    BY <1>4 DEF ins, InstructionAt, Instruction
  <2>2. ins.a = 1 /\ ins.b = 1 /\ ins.c = 0 /\ op = "RETURN"
    BY <1>1, <2>1
  <2> QED BY <1>2, <2>2
<1> QED BY <1>3, <1>4

LEMMA FoundLaid ==
    ASSUME FramesInvariant, Body
    PROVE  /\ Laid(stack, ups, frames) /\ FrameIn(cur, Len(stack)) /\ FrameOK(cur)
           /\ Len(stack) \in Nat /\ cur = frames[Len(frames)]
<1>1. Laid(stack, ups, frames)
  BY DEF FramesInvariant, Body, Laid
<1>2. Len(frames) \in 1..Len(frames) /\ FrameOK(frames[Len(frames)])
  BY LastFrame DEF FramesInvariant
<1> QED BY <1>1, <1>2 DEF Laid, FramesIn, cur

LEMMA Registers ==
    ASSUME FramesInvariant, Body, cur.proto # Nil
    PROVE  /\ \A r \in Nat : Reg(r) \in Int /\ Reg(r) = cur.base + r - 1
           /\ \A r \in Nat : r >= 1 => Reg(r) >= 1
           /\ \A r \in Nat : r \in 1..Room[cur.proto] => Reg(r) \in 1..Len(stack)
           /\ \A r \in Nat : r \in 1..Room[cur.proto] + 1 => Reg(r) \in 1..Len(stack) + 1
           /\ cur.base \in Int /\ cur.func \in Int /\ cur.base >= 1 /\ cur.func >= 1
           /\ cur.base <= Len(stack) + 1 /\ cur.func <= Len(stack) + 1
<1>1. FrameIn(cur, Len(stack)) /\ FrameOK(cur)
  BY FoundLaid
<1>n. PICK n \in Nat : n = Len(stack)
  BY FoundLaid
<1>2. /\ cur.base \in 1..n + 1 /\ cur.func \in 1..n + 1
      /\ cur.base + Room[cur.proto] - 1 <= n
  BY <1>1, <1>n DEF FrameIn
<1>3. Room[cur.proto] \in Nat
  BY <1>1, ProtoAssumption DEF FrameOK
<1>4. PICK b \in Int, f \in Int, m \in Nat : b = cur.base /\ f = cur.func /\ m = Room[cur.proto]
  BY <1>2, <1>3
<1>5. b >= 1 /\ b <= n + 1 /\ f >= 1 /\ f <= n + 1 /\ b + m - 1 <= n
  BY <1>2, <1>4
<1>6. \A r \in Nat : Reg(r) = b + r - 1
  BY <1>4 DEF Reg
<1>7. \A r \in Nat : /\ b + r - 1 \in Int /\ (r >= 1 => b + r - 1 >= 1)
                     /\ (r \in 1..m => b + r - 1 \in 1..n)
                     /\ (r \in 1..m + 1 => b + r - 1 \in 1..n + 1)
  BY <1>5
<1>8. \A r \in Nat : /\ Reg(r) \in Int /\ (r >= 1 => Reg(r) >= 1)
                     /\ (r \in 1..m => Reg(r) \in 1..n)
                     /\ (r \in 1..m + 1 => Reg(r) \in 1..n + 1)
  BY <1>6, <1>7
<1>9. \A r \in Nat : Reg(r) = cur.base + r - 1
  BY DEF Reg
<1> QED BY <1>4, <1>5, <1>8, <1>9, <1>n

LEMMA GotoLaid ==
    ASSUME FramesInvariant, Body, NEW s, NEW us, Laid(s, us, frames), NEW pc, NEW free
    PROVE  /\ Laid(s, us, Goto(pc, free))
           /\ \A f : f >= cur.base + free => Above(Goto(pc, free), f)
<1>n. PICK n \in Nat : n = Len(s)
  BY DEF Laid
<1>k. PICK k : k = Len(frames)
  OBVIOUS
<1>1. k \in 1..Len(frames) /\ FrameOK(frames[k]) /\ FrameIn(frames[k], n) /\ cur = frames[k]
  BY <1>n, <1>k, LastFrame DEF Laid, FramesIn, cur
<1>c. PICK c : c = [frames[k] EXCEPT !.pc = pc, !.free = free]
  OBVIOUS
<1>2. Alike(frames[k], c) /\ c.free = free
  <2>1. PICK fr : fr = frames[k] /\ c = [fr EXCEPT !.pc = pc, !.free = free]
    BY <1>c
  <2>2. FrameOK(fr) /\ FrameIn(fr, n)
    BY <1>1, <2>1
  <2>3. Alike(fr, c)
    BY <2>1, <2>2, GoneIsAlike
  <2>4. c.free = free
    BY <2>1, <2>2 DEF FrameIn
  <2> QED BY <2>1, <2>3, <2>4
<1>3. FrameOK(c) /\ FrameIn(c, n) /\ c.func = frames[k].func /\ c.proto = frames[k].proto
      /\ c.nargs = frames[k].nargs /\ c.base = frames[k].base
  BY <1>1, <1>2, AlikeLaid DEF Alike
<1>g. PICK g : g = [frames EXCEPT ![k] = c]
  OBVIOUS
<1>4. Goto(pc, free) = g
  BY <1>n, <1>k, <1>c, <1>g DEF Goto
<1>5. FramesIn(g, n)
  BY <1>1, <1>3, <1>n, <1>k, <1>g, ExchangeLaid DEF Laid
<1>6. FramesOK(g) /\ Len(g) = k
  BY <1>1, <1>3, <1>n, <1>k, <1>g, ExchangeKeeps DEF Laid
<1>7. Laid(s, us, g)
  BY <1>5, <1>6, <1>n, <1>k DEF Laid
<1>8. g[k] = c
  <2>1. PICK m, T : m \in Nat /\ m = Len(frames) /\ frames \in [1..m -> T]
    BY FramesList DEF Laid
  <2> QED BY <1>n, <1>k, <1>1, <1>g, <2>1
<1>9. \A f : f >= cur.base + free => Above(g, f)
  BY <1>1, <1>2, <1>3, <1>6, <1>8 DEF Above
<1> QED BY <1>4, <1>7, <1>9

LEMMA GoesOn ==
    ASSUME FramesInvariant, Body, NEW s \in Seq(Value), Len(s) >= Len(stack), NEW us, UpsOK(us), UpsIn(us, Len(s)),
           stack' = s, ups' = us, \E pc, free : frames' = Goto(pc, free), top' \in 1..Len(s) + 1
    PROVE  Left(Len(s))
<1>1. Len(s) \in Nat /\ Len(stack) \in Nat /\ FramesIn(frames, Len(stack)) /\ FramesOK(frames)
  BY DEF Body, FramesInvariant
<1>2. Laid(s, us, frames)
  BY <1>1, LaidOn DEF Laid
<1>3. PICK pc, free : frames' = Goto(pc, free)
  OBVIOUS
<1>4. Laid(s, us, Goto(pc, free))
  BY <1>2, GotoLaid
<1> QED BY <1>1, <1>3, <1>4 DEF Laid, Left

LEMMA LeftBody == ASSUME NEW n, Left(n) PROVE Body'
BY DEF Left, Body

LEMMA AssignLaid ==
    ASSUME FramesInvariant, Body, NEW us, UpsOK(us), UpsIn(us, Len(stack)), NEW r, NEW v \in Value,
           Assign(r, v), ups' = us, top' = top, Reg(r) \in Int
    PROVE  Body'
<1>e. PICK e : e = <<v>>
  OBVIOUS
<1>1. e \in Seq(Value)
  BY <1>e
<1>k. PICK k \in Int : k = Reg(r) /\ stack' = Put(stack, k, e) /\ frames' = Goto(cur.pc + 1, Max({cur.free, r}))
  BY <1>e DEF Assign
<1>2. PICK n \in Nat : n = Len(stack) /\ stack \in Seq(Value)
  BY DEF Body
<1>3. Put(stack, k, e) \in Seq(Value) /\ Len(Put(stack, k, e)) = n
  BY <1>1, <1>2, PutLaid
<1>s. PICK s \in Seq(Value) : s = Put(stack, k, e) /\ Len(s) = n
  BY <1>3
<1>4. top' \in 1..Len(s) + 1
  BY <1>s, <1>2 DEF Body
<1>5. Left(Len(s))
  BY <1>k, <1>s, <1>2, <1>4, GoesOn
<1> QED BY <1>5, LeftBody

LEMMA RegisterValue == ASSUME Body, NEW r PROVE R(r) \in Value
BY SlotValue DEF Body, R

LEMMA LoadKLaid == ASSUME FramesInvariant, Body, LoadK PROVE Body'
<1>r. Reg(ins.a) \in Int
  BY Here DEF LoadK
<1>1. ins.b \in Value
  BY Operands DEF LoadK
<1>2. UpsOK(ups) /\ UpsIn(ups, Len(stack)) /\ ups' = ups /\ top' = top /\ Assign(ins.a, ins.b)
  BY DEF FramesInvariant, Body, LoadK
<1> QED BY <1>1, <1>2, <1>r, AssignLaid

LEMMA MoveLaid == ASSUME FramesInvariant, Body, Move PROVE Body'
<1>r. Reg(ins.a) \in Int
  BY Here DEF Move
<1>1. R(ins.b) \in Value
  BY RegisterValue
<1>2. UpsOK(ups) /\ UpsIn(ups, Len(stack)) /\ ups' = ups /\ top' = top /\ Assign(ins.a, R(ins.b))
  BY DEF FramesInvariant, Body, Move
<1> QED BY <1>1, <1>2, <1>r, AssignLaid

LEMMA GetUpvalueLaid == ASSUME FramesInvariant, Body, GetUpvalue PROVE Body'
<1>r. Reg(ins.a) \in Int
  BY Here DEF GetUpvalue
<1>1. PICK u \in Upvalues : Assign(ins.a, Content(u))
  BY DEF GetUpvalue, Used
<1>2. Content(u) \in Value
  <2>1. stack \in Seq(Value) /\ ups.var[u].val \in Value
    BY DEF Body, UpsIn
  <2> QED BY <2>1, SlotValue DEF Content
<1>3. UpsOK(ups) /\ UpsIn(ups, Len(stack)) /\ ups' = ups /\ top' = top
  BY DEF FramesInvariant, Body, GetUpvalue
<1> QED BY <1>1, <1>2, <1>3, <1>r, AssignLaid

LEMMA ClosureLaid == ASSUME FramesInvariant, Body, Closure PROVE Body'
<1>r. Reg(ins.a) \in Int
  BY Here DEF Closure
<1>1. ins.b \in 1..Room[cur.proto] /\ ins.b \in Nat /\ cur.proto # Nil
  BY Operands, Here DEF Closure
<1>k. PICK k : k = Reg(ins.b) /\ k \in 1..Len(stack)
  BY <1>1, Registers
<1>n. PICK n \in Nat : n = Len(stack)
  BY FoundLaid
<1>2. UpsOK(ups) /\ UpsShape(ups) /\ UpsIn(ups, n)
  BY <1>n DEF FramesInvariant, UpsOK, Body
<1>3. UpsOK(ups')
  BY ClosureKeeps DEF Kept
<1>4. UpsIn(ups', n)
  <2>1. CASE ups' = ups
    BY <1>2, <2>1
  <2>2. CASE ups' # ups
    <3>1. PICK u \in Upvalues : ups' = Opened(ups, k, u)
      BY <1>k, <2>2 DEF Closure
    <3>2. k \in Int /\ k \in 0..n
      BY <1>k, <1>n
    <3> QED BY <1>2, <3>1, <3>2, OpenedLaid
  <2> QED BY <2>1, <2>2
<1>5. Assign(ins.a, Fun) /\ top' = top
  BY DEF Closure
<1>u. PICK us : us = ups'
  OBVIOUS
<1> QED BY <1>3, <1>4, <1>5, <1>n, <1>r, <1>u, NilValue, AssignLaid

LEMMA StoreLaid ==
    ASSUME UpsOK(ups), Body, NEW u \in Upvalues, NEW v \in Value, Store(u, v)
    PROVE  stack' \in Seq(Value) /\ Len(stack') = Len(stack) /\ UpsIn(ups', Len(stack))
<1>n. PICK n \in Nat : n = Len(stack) /\ stack \in Seq(Value) /\ UpsIn(ups, n)
  BY DEF Body
<1>1. CASE ups.var[u].state = "open" /\ stack' = Put(stack, ups.var[u].slot, <<v>>) /\ ups' = ups
  <2>k. PICK k \in Int : k = ups.var[u].slot
    BY DEF UpsOK, UpsShape
  <2>1. PICK e : e = <<v>>
    OBVIOUS
  <2>2. e \in Seq(Value)
    BY <2>1
  <2>3. stack' = Put(stack, k, e)
    BY <1>1, <2>1, <2>k
  <2>4. Put(stack, k, e) \in Seq(Value) /\ Len(Put(stack, k, e)) = Len(stack)
    BY <1>n, <2>2, PutLaid
  <2> QED BY <1>1, <1>n, <2>3, <2>4
<1>2. CASE ups' = [ups EXCEPT !.var[u].val = v] /\ stack' = stack
  <2>1. UpsIn([ups EXCEPT !.var[u].val = v], n)
    BY <1>n, ValueLaid DEF UpsOK
  <2> QED BY <1>2, <1>n, <2>1
<1> QED BY <1>1, <1>2 DEF Store

LEMMA SetUpvalueLaid == ASSUME FramesInvariant, Body, SetUpvalue PROVE Body'
<1>1. PICK u \in Upvalues : Store(u, R(ins.b))
  BY DEF SetUpvalue, Used
<1>2. R(ins.b) \in Value /\ UpsOK(ups)
  BY RegisterValue DEF FramesInvariant
<1>3. stack' \in Seq(Value) /\ Len(stack') = Len(stack) /\ UpsIn(ups', Len(stack))
  BY <1>1, <1>2, StoreLaid
<1>4. UpsOK(ups')
  BY SetUpvalueKeeps DEF Kept
<1>s. PICK s, us : s \in Seq(Value) /\ s = stack' /\ us = ups' /\ Len(s) = Len(stack)
  BY <1>3
<1>n. PICK n \in Nat : n = Len(stack)
  BY FoundLaid
<1>5. top' \in 1..Len(s) + 1
  BY <1>s DEF Body, SetUpvalue
<1>6. frames' = Goto(cur.pc + 1, cur.free)
  BY DEF SetUpvalue
<1>7. Left(Len(s))
  BY <1>3, <1>4, <1>5, <1>6, <1>s, <1>n, GoesOn
<1> QED BY <1>7, LeftBody

LEMMA OtherSetsLaid == ASSUME FramesInvariant, Body, OtherSets PROVE Body'
<1>1. PICK u \in Upvalues : Store(u, Nil)
  BY DEF OtherSets, Used
<1>2. Nil \in Value /\ UpsOK(ups)
  BY NilValue DEF FramesInvariant
<1>3. stack' \in Seq(Value) /\ Len(stack') = Len(stack) /\ UpsIn(ups', Len(stack))
  BY <1>1, <1>2, StoreLaid
<1> QED BY <1>3 DEF OtherSets, Body

LEMMA CloseLaid == ASSUME FramesInvariant, Body, Close PROVE Body'
<1>1. ups' = Closed(ups, stack, Reg(ins.a)) /\ frames' = Goto(cur.pc + 1, ins.a - 1)
      /\ stack' = stack /\ top' = top
  BY DEF Close
<1>2. UpsOK(ups) /\ UpsIn(ups, Len(stack)) /\ stack \in Seq(Value) /\ Len(stack) \in Nat
      /\ top \in 1..Len(stack) + 1
  BY DEF FramesInvariant, Body
<1>3. Reg(ins.a) \in Int
  BY Here DEF Close
<1>us. PICK us : us = Closed(ups, stack, Reg(ins.a))
  OBVIOUS
<1>4. UpsOK(us)
  BY <1>2, <1>3, <1>us, ClosedKeeps
<1>5. UpsIn(us, Len(stack))
  BY <1>2, <1>us, ClosedLaid
<1>6. Left(Len(stack))
  BY <1>1, <1>2, <1>4, <1>5, <1>us, GoesOn
<1> QED BY <1>6, LeftBody

\* SETLIST, JMP and TEST
LEMMA StepLaid ==
    ASSUME FramesInvariant, Body, stack' = stack, ups' = ups, top' = top,
           \E pc, free : frames' = Goto(pc, free)
    PROVE  Body'
<1>1. UpsOK(ups) /\ UpsIn(ups, Len(stack)) /\ stack \in Seq(Value) /\ Len(stack) \in Nat
      /\ top \in 1..Len(stack) + 1
  BY DEF FramesInvariant, Body
<1>2. Left(Len(stack))
  BY <1>1, GoesOn
<1> QED BY <1>2, LeftBody

\* OP_VARARG grows the stack for an open list.
LEMMA VarargLaid == ASSUME FramesInvariant, Body, Vararg PROVE Body'
<1>0. At("VARARG") /\ cur.proto # Nil
  BY Here DEF Vararg
<1>1. ins.a \in Nat /\ ins.a \in 1..Room[cur.proto] + 1 /\ ins.b \in Nat /\ cur.proto \in Protos
  BY <1>0, Operands, ProtoAssumption
<1>r. PICK r \in Int : r = Reg(ins.a) /\ r \in 1..Len(stack) + 1
  BY <1>0, <1>1, Registers
<1>2. FrameIn(cur, Len(stack)) /\ stack \in Seq(Value) /\ ins.b - 1 \in Int
  BY <1>1, FoundLaid DEF Body
<1>v. PICK vs \in Seq(Value) : vs = Adjust(cur.varargs, ins.b - 1)
  BY <1>2, AdjustLaid DEF FrameIn
<1>n. PICK n \in Nat, l \in Nat : n = Len(stack) /\ l = Len(vs)
  BY <1>2
<1>g. PICK g \in Seq(Value) : /\ g = Grow(stack, IF vs = <<>> THEN 0 ELSE r + l - 1)
                              /\ Len(g) >= n /\ (vs # <<>> => Len(g) >= r + l - 1)
  <2>1. 0 \in Int /\ r + l - 1 \in Int
    OBVIOUS
  <2> QED BY <1>2, <1>n, <2>1, GrowLaid
<1>s. PICK s \in Seq(Value) : s = Put(g, r, vs) /\ Len(s) = Len(g)
  BY PutLaid
<1>3. /\ stack' = s /\ top' = (IF ins.b = 0 THEN r + l ELSE top) /\ ups' = ups
      /\ \E pc, free : frames' = Goto(pc, free)
  BY <1>r, <1>v, <1>n, <1>g, <1>s DEF Vararg
<1>m. PICK m \in Nat : m = Len(s) /\ m >= n /\ (vs # <<>> => m >= r + l - 1)
  BY <1>g, <1>s
<1>4. vs = <<>> => l = 0
  BY <1>n
<1>5. r \in 1..n + 1
  BY <1>r, <1>n
<1>6. r + l \in 1..m + 1
  BY <1>m, <1>4, <1>5
<1>7. top \in 1..m + 1
  BY <1>n, <1>m DEF Body
<1>8. top' \in 1..m + 1
  BY <1>3, <1>6, <1>7
<1>9. UpsOK(ups) /\ UpsIn(ups, m)
  BY <1>n, <1>m, LaidOn DEF FramesInvariant, Body
<1>10. Left(Len(s))
  BY <1>3, <1>8, <1>9, <1>m, <1>n, GoesOn
<1> QED BY <1>10, LeftBody

-----------------------------------------------------------------------------
(* Calls. *)

LEMMA Callee ==
    ASSUME FramesInvariant, Body, NEW op, At(op), op \in {"CALL", "TAILCALL"}
    PROVE  /\ WithHandler \in Seq(Value) /\ Len(WithHandler) >= Len(stack)
           /\ Arity \in Nat /\ Reg(ins.a) \in Int /\ Reg(ins.a) >= 1
           /\ Laid(WithHandler, ups, frames)
<1>1. ins.a \in Nat /\ ins.a >= 1 /\ ins.b \in Nat /\ cur.proto # Nil
  BY Operands, Here
<1>f. PICK f \in Int : f = Reg(ins.a) /\ f >= 1
  BY <1>1, Registers
<1>n. PICK n \in Nat : n = Len(stack) /\ stack \in Seq(Value)
  BY DEF Body
<1>c. PICK c \in Nat : c = ArgCount
  <2>1. CASE ins.b = 0
    <3>1. PICK d \in Int : d = top - (f + 1)
      <4>1. top \in 1..n + 1
        BY <1>n DEF Body
      <4>2. top \in Int
        BY <4>1
      <4> QED BY <4>2
    <3>2. Max({0, d}) \in Nat
      BY MaxOfTwo
    <3> QED BY <1>f, <2>1, <3>1, <3>2 DEF ArgCount
  <2>2. CASE ins.b # 0
    BY <1>1, <2>2 DEF ArgCount
  <2> QED BY <2>1, <2>2
<1>2. Arity \in Nat
  BY <1>c DEF Arity
<1>3. WithHandler \in Seq(Value) /\ Len(WithHandler) >= n
  <2>1. CASE R(ins.a) = Obj
    <3>w. PICK w \in Seq(Value) : w = Window(stack, f, c + 1)
      <4>1. c + 1 \in Int
        OBVIOUS
      <4> QED BY <1>f, <1>n, <4>1, WindowLaid
    <3>e. PICK e : e = <<Fun>>
      OBVIOUS
    <3>1. e \in Seq(Value)
      BY <3>e, NilValue
    <3>2. PICK l \in Seq(Value) : l = e \o w
      BY <3>1, ConcatProperties
    <3>g. PICK g \in Seq(Value) : g = Grow(stack, f + c + 1) /\ Len(g) >= n
      <4>1. f + c + 1 \in Int
        OBVIOUS
      <4> QED BY <1>n, <4>1, GrowLaid
    <3>3. WithHandler = Put(g, f, l)
      BY <1>c, <1>f, <2>1, <3>w, <3>e, <3>2, <3>g DEF WithHandler
    <3>4. Put(g, f, l) \in Seq(Value) /\ Len(Put(g, f, l)) = Len(g)
      BY PutLaid
    <3> QED BY <3>3, <3>4, <3>g
  <2>2. CASE R(ins.a) # Obj
    BY <1>n, <2>2 DEF WithHandler
  <2> QED BY <2>1, <2>2
<1>4. Laid(WithHandler, ups, frames)
  BY <1>3, <1>n, FoundLaid, LaidGrows
<1> QED BY <1>1, <1>2, <1>3, <1>4, <1>f, <1>n

LEMMA CallLaid == ASSUME FramesInvariant, Body, Call PROVE Body'
<1>0. At("CALL")
  BY DEF Call
<1>1. ins.a \in Nat /\ ins.c \in Nat /\ cur.proto # Nil
  BY <1>0, Operands, Here
<1>f. PICK f \in Int : f = Reg(ins.a) /\ f >= 1 /\ f = cur.base + ins.a - 1 /\ cur.base \in Int
  BY <1>0, <1>1, Callee, Registers
<1>s. PICK s \in Seq(Value), n \in Nat : /\ s = WithHandler /\ n = Arity /\ Len(s) >= Len(stack)
                                         /\ Laid(s, ups, frames)
  BY <1>0, Callee
<1>e. PICK free \in Int : free = ins.a - 1
  BY <1>1
<1>g. PICK fs : fs = Goto(cur.pc, free) /\ fs = Goto(cur.pc, ins.a - 1)
  BY <1>e
<1>2. Laid(s, ups, fs) /\ Laid(stack, ups, fs) /\ Len(stack) \in Nat
  BY <1>g, <1>s, FoundLaid, GotoLaid
<1>3. Above(fs, f)
  <2>1. f >= cur.base + free
    BY <1>1, <1>f, <1>e
  <2> QED BY <2>1, <1>g, <1>s, GotoLaid
<1>4. CASE Throw(stack, ups, fs)
  <2>1. Left(Len(stack))
    BY <1>2, <1>4, ThrowLaid
  <2> QED BY <2>1, LeftBody
<1>5. CASE Enter(s, ups, fs, f, n, ins.c - 1, 0)
  <2>1. ins.c - 1 \in Int /\ 0 \in Int
    BY <1>1
  <2>2. Left(Len(s))
    BY <1>2, <1>3, <1>5, <1>s, <1>f, <2>1, EnterLaid
  <2> QED BY <2>2, LeftBody
<1>6. CASE R(ins.a) = Nil
  <2>1. Throw(stack, ups, fs)
    BY <1>6, <1>g DEF Call
  <2> QED BY <1>4, <2>1
<1>7. CASE R(ins.a) # Nil
  <2>1. Enter(s, ups, fs, f, n, ins.c - 1, 0)
    BY <1>7, <1>f, <1>g, <1>s DEF Call
  <2> QED BY <1>5, <2>1
<1> QED BY <1>6, <1>7

\* The callee of a tail call takes the window of its caller.
LEMMA ReplaceLaid ==
    ASSUME FramesInvariant, Body, cur.proto # Nil, cur.func # cur.base,
           NEW s, NEW us, Laid(s, us, frames), Len(s) >= Len(stack),
           NEW f \in Int, f >= 1, NEW n \in Nat, Replace(s, us, f, n)
    PROVE  Left(Len(s))
<1>k. PICK k : k = Len(frames) /\ k \in 1..Len(frames)
  BY LastFrame DEF FramesInvariant
<1>1. FrameIn(cur, Len(s)) /\ FrameOK(cur) /\ cur = frames[k]
  BY <1>k DEF Laid, FramesIn, FramesOK, cur
<1>o. PICK o \in Nat, d \in Nat : o = Len(stack) /\ d = Len(s) /\ d >= o
  BY DEF Laid, Body
<1>b. PICK b \in Int, h \in Int : b = cur.base /\ h = cur.func /\ b = h + 1 /\ h >= 1 /\ h <= o + 1 /\ b >= 1
  <2>1. cur.base \in Int /\ cur.func \in Int /\ cur.func >= 1 /\ cur.func <= o + 1 /\ cur.base >= 1
    BY <1>o, Registers
  <2>2. cur.base = cur.func + 1
    BY <1>1 DEF FrameIn
  <2> QED BY <2>1, <2>2
<1>p. PICK p \in Functions :
        LET moved == Put(s, cur.base, Window(s, f + 1, n))
            clean == Wipe(Prepared(moved, cur.base, n, p), cur.base + Room[p], cur.ctop - 1)
        IN  /\ stack' = Put(clean, cur.func, <<Fun>>)
            /\ frames' = [frames EXCEPT ![Len(frames)] =
                 CallInfo(p, cur.func, n, cur.base + Room[p], cur.nres, Extra(moved, cur.base, n, p),
                          cur.cont)]
            /\ ups' = us /\ top' = top
  BY DEF Replace
<1>2. p \in Protos /\ p # Nil /\ Room[p] \in Nat
  BY ProtoAssumption DEF Protos
<1>w. PICK w \in Seq(Value) : w = Window(s, f + 1, n)
  <2>1. f + 1 \in Int /\ f + 1 >= 1 /\ n \in Int /\ s \in Seq(Value)
    BY DEF Laid
  <2> QED BY <2>1, WindowLaid
<1>m. PICK moved \in Seq(Value) : moved = Put(s, b, w) /\ Len(moved) = d
  BY <1>o, PutLaid DEF Laid
<1>q. PICK q \in Seq(Value) : q = Prepared(moved, b, n, p) /\ Len(q) >= d /\ Len(q) >= b + Room[p] - 1
  <2>1. n \in Int
    OBVIOUS
  <2> QED BY <1>2, <1>m, <2>1, PreparedLaid
<1>l. PICK clean \in Seq(Value) : clean = Wipe(q, b + Room[p], cur.ctop - 1) /\ Len(clean) = Len(q)
  BY WipeLaid
<1>e. PICK e : e = <<Fun>>
  OBVIOUS
<1>3. e \in Seq(Value)
  BY <1>e, NilValue
<1>v. PICK v \in Seq(Value) : v = Put(clean, h, e) /\ Len(v) = Len(q)
  BY <1>3, <1>l, PutLaid
<1>x. PICK xs \in Seq(Value) : xs = Extra(moved, b, n, p)
  <2>1. n \in Int
    OBVIOUS
  <2> QED BY <1>2, <1>b, <2>1, ExtraLaid
<1>a. PICK cont \in Int, want \in Int : want = cur.nres /\ cont = cur.cont
  BY <1>1 DEF FrameIn
<1>ct. PICK ctop : ctop = b + Room[p]
  OBVIOUS
<1>c. PICK c : c = CallInfo(p, h, n, ctop, want, xs, cont)
  OBVIOUS
<1>4. stack' = v /\ frames' = [frames EXCEPT ![k] = c] /\ ups' = us /\ top' = top
  BY <1>b, <1>p, <1>w, <1>m, <1>q, <1>l, <1>e, <1>v, <1>x, <1>a, <1>ct, <1>c, <1>k
<1>z. PICK z \in Nat : z = Len(v) /\ z >= d /\ z >= b + Room[p] - 1
  BY <1>q, <1>v
<1>5. FrameOK(c)
  BY <1>c, <1>2, CallInfoOK
<1>6. FrameIn(c, z) /\ c.func = h /\ c.proto = p
  <2>r. PICK r \in Nat : r = Room[p]
    BY <1>2
  <2>1. b = h + 1 /\ z >= b + r - 1
    BY <1>b, <1>z, <2>r
  <2>2. h <= z /\ h + r <= z
    BY <2>1
  <2>3. p \in Protos /\ p # Nil /\ Room[p] \in Nat /\ h + Room[p] <= z /\ h >= 1 /\ h <= z
    BY <1>2, <1>b, <2>2, <2>r
  <2> QED BY <2>3, <1>c, CallInfoLaid, SMTT(30)
<1>7. Laid(v, us, frames)
  BY <1>z, <1>o, LaidGrows
<1>8. FramesIn([frames EXCEPT ![k] = c], z)
  BY <1>1, <1>2, <1>5, <1>6, <1>7, <1>b, <1>k, <1>z, ExchangeLaid DEF Laid
<1>9. top' \in 1..z + 1
  BY <1>4, <1>o, <1>z DEF Body
<1> QED BY <1>4, <1>7, <1>8, <1>9, <1>z, <1>o DEF Left, Laid

LEMMA TailCallLaid == ASSUME FramesInvariant, Body, TailCall PROVE Body'
<1>0. At("TAILCALL")
  BY DEF TailCall
<1>1. ins.a \in Nat /\ cur.proto # Nil
  BY <1>0, Operands, Here
<1>f. PICK f \in Int : /\ f = Reg(ins.a) /\ f >= 1 /\ f = cur.base + ins.a - 1 /\ cur.base \in Int
                       /\ cur.func \in Int
  BY <1>0, <1>1, Callee, Registers
<1>s. PICK s \in Seq(Value), n \in Nat : /\ s = WithHandler /\ n = Arity /\ Len(s) >= Len(stack)
                                         /\ Laid(s, ups, frames)
  BY <1>0, Callee
<1>u. PICK us : us = Closed(ups, s, cur.base)
  OBVIOUS
<1>2. Laid(s, us, frames)
  <2>1. UpsOK(us)
    BY <1>f, <1>s, <1>u, ClosedKeeps DEF Laid
  <2>2. UpsIn(us, Len(s))
    BY <1>s, <1>u, ClosedLaid DEF Laid
  <2> QED BY <1>s, <2>1, <2>2 DEF Laid
<1>e. PICK free \in Int : free = ins.a - 1
  BY <1>1
<1>g. PICK fs : fs = Goto(cur.pc, free) /\ fs = Goto(cur.pc, ins.a - 1)
  BY <1>e
<1>3. Laid(s, us, fs) /\ Laid(stack, ups, fs) /\ Len(stack) \in Nat
  BY <1>g, <1>2, FoundLaid, GotoLaid
<1>4. Above(fs, f)
  <2>1. f >= cur.base + free
    BY <1>1, <1>f, <1>e
  <2> QED BY <2>1, <1>g, <1>s, GotoLaid
<1>5. MultRet \in Int /\ 0 \in Int
  BY DEF MultRet
<1>6. CASE R(ins.a) = Nil
  <2>1. Throw(stack, ups, fs)
    BY <1>6, <1>g DEF TailCall
  <2>2. Left(Len(stack))
    BY <1>3, <2>1, ThrowLaid
  <2> QED BY <2>2, LeftBody
<1>7. CASE R(ins.a) # Nil
  <2>1. \/ cur.func # cur.base /\ Replace(s, us, f, n)
        \/ EnterLua(s, us, fs, f, n, MultRet, 0)
        \/ EnterNative(s, us, fs, f, n, MultRet, 0)
        \/ EnterYield(s, us, fs, f, n, MultRet, 0)
        \/ EnterPcall(s, us, fs, f, n, MultRet, 0)
    BY <1>7, <1>f, <1>g, <1>s, <1>u DEF TailCall
  <2>2. CASE cur.func # cur.base /\ Replace(s, us, f, n)
    <3>1. Left(Len(s))
      BY <1>1, <1>2, <1>f, <1>s, <2>2, ReplaceLaid
    <3> QED BY <3>1, LeftBody
  <2>3. CASE EnterLua(s, us, fs, f, n, MultRet, 0)
    <3>1. Left(Len(s))
      BY <1>3, <1>4, <1>5, <1>f, <1>s, <2>3, EnterLuaLaid
    <3> QED BY <3>1, LeftBody
  <2>4. CASE EnterNative(s, us, fs, f, n, MultRet, 0)
    <3>1. Left(Len(s))
      BY <1>3, <1>5, <1>f, <1>s, <2>4, EnterNativeLaid
    <3> QED BY <3>1, LeftBody
  <2>5. CASE EnterYield(s, us, fs, f, n, MultRet, 0)
    <3>1. Left(Len(s))
      BY <1>3, <1>5, <1>f, <1>s, <2>5, EnterYieldLaid
    <3> QED BY <3>1, LeftBody
  <2>6. CASE EnterPcall(s, us, fs, f, n, MultRet, 0)
    <3>1. Left(Len(s))
      BY <1>3, <1>4, <1>5, <1>f, <1>s, <2>6, EnterPcallLaid
    <3> QED BY <3>1, LeftBody
  <2> QED BY <2>1, <2>2, <2>3, <2>4, <2>5, <2>6
<1> QED BY <1>6, <1>7

LEMMA ForCallLaid == ASSUME FramesInvariant, Body, ForCall PROVE Body'
<1>0. At("TFORLOOP")
  BY DEF ForCall
<1>1. ins.a \in Nat /\ ins.c \in Nat /\ cur.proto # Nil /\ ins.a >= 1
  BY <1>0, Operands, Here
<1>a. PICK a \in Int : a = Reg(ins.a) /\ a >= 1 /\ a = cur.base + ins.a - 1 /\ cur.base \in Int
  BY <1>1, Registers
<1>n. PICK n \in Nat : n = Len(stack) /\ stack \in Seq(Value)
  BY DEF Body
<1>g. PICK g \in Seq(Value) : g = Grow(stack, a + 5) /\ Len(g) >= n
  <2>1. a + 5 \in Int
    OBVIOUS
  <2> QED BY <1>n, <2>1, GrowLaid
<1>w. PICK w \in Seq(Value) : w = Window(stack, a, 3)
  <2>1. 3 \in Int
    OBVIOUS
  <2> QED BY <1>a, <1>n, <2>1, WindowLaid
<1>s. PICK s \in Seq(Value) : s = Put(g, a + 3, w) /\ Len(s) >= n
  <2>1. a + 3 \in Int
    OBVIOUS
  <2> QED BY <1>g, <2>1, PutLaid
<1>e. PICK free \in Int : free = ins.a + 2
  BY <1>1
<1>h. PICK fs : fs = Goto(cur.pc, free) /\ fs = Goto(cur.pc, ins.a + 2)
  BY <1>e
<1>2. Laid(s, ups, frames)
  BY <1>n, <1>s, FoundLaid, LaidGrows
<1>3. Laid(s, ups, fs) /\ Laid(stack, ups, fs)
  BY <1>h, <1>2, FoundLaid, GotoLaid
<1>4. Above(fs, a + 3)
  <2>1. a + 3 >= cur.base + free
    BY <1>1, <1>a, <1>e, SMTT(30)
  <2> QED BY <2>1, <1>h, <1>2, GotoLaid
<1>5. CASE Slot(stack, a) # Fun
  <2>1. Throw(stack, ups, fs)
    BY <1>5, <1>a, <1>h DEF ForCall
  <2>2. Left(Len(stack))
    BY <1>3, <1>n, <2>1, ThrowLaid
  <2> QED BY <2>2, LeftBody
<1>6. CASE Slot(stack, a) = Fun
  <2>1. Enter(s, ups, fs, a + 3, 2, ins.c, a)
    BY <1>6, <1>a, <1>h, <1>s, <1>g, <1>w DEF ForCall
  <2>2. a + 3 \in Int /\ a + 3 >= 1 /\ 2 \in Nat /\ ins.c \in Int
    BY <1>1, <1>a
  <2>3. Left(Len(s))
    BY <1>3, <1>4, <1>n, <1>s, <2>1, <2>2, EnterLaid
  <2> QED BY <2>3, LeftBody
<1> QED BY <1>5, <1>6

LEMMA FailLaid == ASSUME FramesInvariant, Body, Fail PROVE Body'
<1>1. Laid(stack, ups, frames) /\ Len(stack) \in Nat
  BY FoundLaid
<1>2. Throw(stack, ups, frames)
  BY DEF Fail
<1>3. Left(Len(stack))
  BY <1>1, <1>2, ThrowLaid
<1> QED BY <1>3, LeftBody

\* The values that a yield waits for go where it left a place.
Waits == \E b \in Int, w \in Int : /\ pending = [base |-> b, want |-> w]
                                   /\ (status = "yield" => b >= 1)

LEMMA ResumeLaid == ASSUME FramesInvariant, Body, Waits, Resume PROVE Body'
<1>b. PICK b \in Int, want \in Int : b = pending.base /\ want = pending.want /\ b >= 1
  <2>1. PICK b \in Int, w \in Int : pending = [base |-> b, want |-> w] /\ (status = "yield" => b >= 1)
    BY DEF Waits
  <2>2. b = pending.base /\ w = pending.want /\ status = "yield"
    BY <2>1 DEF Resume
  <2> QED BY <2>1, <2>2
<1>v. PICK vs \in Lists :
        LET rs == Adjust(vs, want)
            t == b + Len(rs)
        IN  Answer(Put(Grow(stack, t - 1), b, rs), ups, frames, t, want, 0)
  BY <1>b DEF Resume
<1>1. vs \in Seq(Value)
  BY ProtoAssumption
<1>r. PICK rs \in Seq(Value) : rs = Adjust(vs, want)
  BY <1>1, AdjustLaid
<1>l. PICK l \in Nat, n \in Nat : l = Len(rs) /\ n = Len(stack) /\ stack \in Seq(Value)
  BY DEF Body
<1>g. PICK g \in Seq(Value) : g = Grow(stack, b + l - 1) /\ Len(g) >= n /\ Len(g) >= b + l - 1
  <2>1. b + l - 1 \in Int
    OBVIOUS
  <2> QED BY <1>l, <2>1, GrowLaid
<1>s. PICK s \in Seq(Value) : s = Put(g, b, rs) /\ Len(s) = Len(g)
  BY PutLaid
<1>m. PICK m \in Nat : m = Len(s) /\ m >= n /\ m >= b + l - 1
  BY <1>g, <1>s
<1>t. PICK t \in Int, cont \in Int : t = b + l /\ cont = 0
  OBVIOUS
<1>2. Answer(s, ups, frames, t, want, cont)
  BY <1>v, <1>r, <1>l, <1>g, <1>s, <1>t
<1>3. Laid(s, ups, frames)
  BY <1>m, <1>l, FoundLaid, LaidGrows
<1>4. t \in 1..m + 1
  BY <1>b, <1>m, <1>t, SMTT(30)
<1>5. t \in 1..Len(s) + 1
  BY <1>4, <1>m
<1>6. Left(Len(s))
  BY <1>2, <1>3, <1>5, AnswerLaid
<1> QED BY <1>6, LeftBody

\* What RETURN clears and where the results go.
LEMMA ReturnLaid == ASSUME FramesInvariant, Body, Return PROVE Body'
<1>0. At("RETURN")
  BY DEF Return
<1>1. Ready(ups, frames) /\ ins.a \in Nat /\ ins.a >= 1 /\ ins.b \in Nat /\ cur.proto # Nil
  BY <1>0, Operands, Here
<1>m. PICK m \in Nat : m = Len(frames) /\ m >= 1
  BY <1>1, FramesList DEF Ready
<1>n. PICK n \in Nat : n = Len(stack) /\ stack \in Seq(Value)
  BY DEF Body
<1>a. PICK a \in Int, b \in Int, f \in Int : a = Reg(ins.a) /\ a >= 1 /\ b = cur.base /\ f = cur.func /\ f >= 1
  BY <1>1, Registers
<1>c. PICK nres \in Int, cont \in Int : nres = cur.nres /\ cont = cur.cont
  BY FoundLaid DEF FrameIn
<1>v. PICK available \in Int : available = IF ins.b = 0 THEN top - a ELSE ins.b - 1
  <2>1. top \in Int
    BY <1>n DEF Body
  <2>2. PICK d \in Int, e \in Int : d = top - a /\ e = ins.b - 1
    BY <1>1, <2>1
  <2> QED BY <2>2
<1>t. PICK want \in Int : want = IF m = 1 THEN MultRet ELSE nres
  BY DEF MultRet
<1>w. PICK w \in Seq(Value) : w = Window(stack, a, available)
  BY <1>a, <1>n, WindowLaid
<1>r. PICK rs \in Seq(Value) : rs = Adjust(w, want)
  BY AdjustLaid
<1>l. PICK l \in Nat, t \in Int : l = Len(rs) /\ t = f + l
  OBVIOUS
<1>g. PICK g \in Seq(Value) : g = Grow(stack, t - 1) /\ Len(g) >= n /\ Len(g) >= t - 1
  <2>1. t - 1 \in Int
    OBVIOUS
  <2> QED BY <1>n, <2>1, GrowLaid
<1>p. PICK q \in Seq(Value) : q = Put(g, f, rs) /\ Len(q) = Len(g)
  BY PutLaid
<1>s. PICK s \in Seq(Value) : s = Wipe(q, t, n) /\ Len(s) = Len(q)
  BY WipeLaid
<1>d. PICK d \in Nat : d = Len(s) /\ d >= n /\ d >= t - 1
  BY <1>g, <1>p, <1>s
<1>u. PICK us : us = Closed(ups, stack, b)
  OBVIOUS
<1>2. UpsOK(us) /\ UpsIn(us, n)
  BY <1>n, <1>u, ClosedKeeps, ClosedLaid DEF FramesInvariant, Body
<1>3. UpsIn(us, d)
  BY <1>2, <1>d, <1>n, LaidOn
<1>4. t \in 1..d + 1
  <2>1. f >= 1 /\ t = f + l
    BY <1>a, <1>l
  <2>2. d >= t - 1
    BY <1>d
  <2> QED BY <2>1, <2>2
<1>5. CASE m = 1
  <2>1. stack' = s /\ top' = t /\ ups' = us /\ frames' = <<Idle>>
    BY <1>5, <1>m, <1>n, <1>a, <1>v, <1>t, <1>w, <1>r, <1>l, <1>g, <1>p, <1>s, <1>u DEF Return
  <2>2. FramesIn(<<Idle>>, d)
    BY IdleLaid
  <2> QED BY <2>1, <2>2, <1>3, <1>4, <1>d DEF Body
<1>6. CASE m # 1
  <2>g. PICK gs : gs = SubSeq(frames, 1, m - 1)
    OBVIOUS
  <2>1. m - 1 \in 1..Len(frames)
    BY <1>6, <1>m
  <2>2. FramesOK(gs)
    BY <1>1, <2>1, <2>g, UptoKeeps DEF Ready
  <2>3. FramesIn(gs, n)
    BY <1>1, <1>n, <2>1, <2>g, UptoLaid DEF Ready, Body
  <2>4. FramesIn(gs, d)
    BY <2>2, <2>3, <1>n, <1>d, LaidOn
  <2>5. Laid(s, us, gs)
    BY <2>2, <2>4, <1>2, <1>3, <1>d DEF Laid
  <2>6. Answer(s, us, gs, t, nres, cont)
    BY <1>6, <1>m, <1>n, <1>a, <1>c, <1>v, <1>t, <1>w, <1>r, <1>l, <1>g, <1>p, <1>s, <1>u, <2>g DEF Return, Upto
  <2>7. t \in 1..Len(s) + 1
    BY <1>4, <1>d
  <2>8. Left(Len(s))
    BY <2>5, <2>6, <2>7, AnswerLaid
  <2> QED BY <2>8, LeftBody
<1> QED BY <1>5, <1>6

LEMMA FinishPcallLaid == ASSUME FramesInvariant, Body, FinishPcall PROVE Body'
<1>1. Ready(ups, frames)
  BY DEF FramesInvariant, FinishPcall, Ready, Over
<1>m. PICK m \in Nat : m = Len(frames) /\ m >= 1
  BY <1>1, FramesList DEF Ready
<1>n. PICK n \in Nat : n = Len(stack) /\ stack \in Seq(Value)
  BY DEF Body
<1>2. m - 1 \in 1..Len(frames)
  <2>1. frames[m].proto = Nil
    BY <1>m DEF FinishPcall, cur
  <2>2. m # 1
    BY <1>1, <1>m, <2>1 DEF Ready, Founded, Bottom
  <2> QED BY <1>m, <2>2
<1>3. FrameIn(cur, n)
  BY <1>n, FoundLaid
<1>c. PICK f \in Int, nres \in Int, cont \in Int : /\ f = cur.func /\ nres = cur.nres /\ cont = cur.cont
                                                   /\ f >= 1
  BY <1>3 DEF FrameIn
<1>w. PICK w \in Seq(Value) : w = Window(stack, f + 1, top - f - 1)
  <2>1. top \in Int
    BY <1>n DEF Body
  <2>2. f + 1 \in Int /\ f + 1 >= 1 /\ top - f - 1 \in Int
    BY <1>c, <2>1
  <2> QED BY <1>n, <2>2, WindowLaid
<1>v. PICK vs \in Seq(Value) : vs = IF status = "error" THEN <<Nil, Fun>> ELSE <<Obj>> \o w
  <2>1. <<Nil, Fun>> \in Seq(Value) /\ <<Obj>> \in Seq(Value)
    BY NilValue
  <2>2. PICK o \in Seq(Value) : o = <<Obj>>
    BY <2>1
  <2>3. o \o w \in Seq(Value)
    BY ConcatProperties
  <2> QED BY <2>1, <2>2, <2>3
<1>s. PICK s \in Seq(Value) : /\ s = (IF status = "error" THEN stack ELSE Wipe(stack, Restored(cur), top - 1))
                              /\ Len(s) = n
  BY <1>n, WipeLaid
<1>g. PICK gs : gs = SubSeq(frames, 1, m - 1)
  OBVIOUS
<1>4. FramesOK(gs)
  BY <1>1, <1>2, <1>g, UptoKeeps DEF Ready
<1>5. FramesIn(gs, n)
  BY <1>1, <1>n, <1>2, <1>g, UptoLaid DEF Ready, Body
<1>6. Laid(s, ups, gs)
  BY <1>4, <1>5, <1>n, <1>s DEF Laid, FramesInvariant, Body
<1>7. Deliver(s, ups, gs, f + 1, vs, f, nres, cont)
  BY <1>m, <1>c, <1>w, <1>v, <1>s, <1>g DEF FinishPcall, Upto
<1>8. f + 1 \in Int
  OBVIOUS
<1>9. Left(Len(s))
  BY <1>6, <1>7, <1>8, <1>c, DeliverLaid
<1> QED BY <1>9, LeftBody

\* The root frame of a main program, and the frame that a coroutine starts with.
LEMMA RootLaid ==
    ASSUME NEW p \in Chunks, NEW xs \in Seq(Value), NEW n \in Nat, Room[p] <= n
    PROVE  FramesIn(<<Root(p, xs)>>, n)
<1>i. PICK i : i = CallInfo(p, 1, 0, 1 + Room[p], 0, xs, 0)
  OBVIOUS
<1>1. /\ DOMAIN i = {"proto", "func", "base", "nargs", "ctop", "nres", "varargs", "cont", "pc", "free"}
      /\ i.proto = p /\ i.func = 1 /\ i.nargs = 0 /\ i.nres = 0 /\ i.varargs = xs /\ i.cont = 0
  BY <1>i DEF CallInfo
<1>c. PICK c : c = Root(p, xs) /\ c = [i EXCEPT !.base = 1]
  BY <1>i DEF Root
<1>2. /\ DOMAIN c = DOMAIN i /\ c.base = 1
      /\ c.proto = p /\ c.func = 1 /\ c.nargs = 0 /\ c.nres = 0 /\ c.varargs = xs /\ c.cont = 0
  BY <1>1, <1>c
<1>3. 1 \in 1..n + 1
  OBVIOUS
<1>4. {"nargs", "nres", "varargs", "cont", "free"} \subseteq DOMAIN c
  BY <1>1, <1>2
<1>5. c.nargs \in Nat /\ c.nres \in Int /\ c.cont \in Int /\ c.varargs \in Seq(Value)
  BY <1>2
<1>6. c.base + Room[c.proto] - 1 <= n
  <2>1. PICK r \in Nat : r = Room[p]
    BY ProtoAssumption DEF Protos
  <2>2. r <= n
    BY <2>1
  <2>3. 1 + r - 1 <= n
    BY <2>2
  <2> QED BY <1>2, <2>1, <2>3
<1>7. FrameIn(c, n)
  BY <1>2, <1>3, <1>4, <1>5, <1>6, Zenon DEF FrameIn
<1>e. PICK e : e = <<c>>
  OBVIOUS
<1>8. Len(e) = 1 /\ e[1] = c
  BY <1>e
<1>9. \A k \in 1..Len(e) : k = 1
  BY <1>8
<1>10. \A k \in 2..Len(e) : FALSE
  BY <1>8
<1> QED BY <1>c, <1>e, <1>7, <1>8, <1>9, <1>10 DEF FramesIn

LEMMA RestartLaid == ASSUME FramesInvariant, Body, Restart PROVE Body'
<1>1. PICK p \in Chunks : \E vs \in Lists : frames' = <<Root(p, vs)>> /\ stack' = Grow(stack, Room[p])
  BY DEF Restart
<1>2. PICK vs \in Lists : frames' = <<Root(p, vs)>> /\ stack' = Grow(stack, Room[p])
  BY <1>1
<1>r. PICK r \in Nat : r = Room[p]
  BY ProtoAssumption DEF Protos
<1>n. PICK n \in Nat : n = Len(stack) /\ stack \in Seq(Value) /\ UpsIn(ups, n)
  BY DEF Body
<1>s. PICK s \in Seq(Value) : s = Grow(stack, r) /\ Len(s) >= n /\ Len(s) >= r
  BY <1>n, GrowLaid
<1>d. PICK d \in Nat : d = Len(s) /\ d >= n /\ d >= r
  BY <1>s
<1>3. FramesIn(<<Root(p, vs)>>, d)
  BY <1>d, <1>r, RootLaid, ProtoAssumption
<1>4. UpsIn(ups, d)
  BY <1>n, <1>d, LaidOn
<1>5. 1 \in 1..d + 1
  OBVIOUS
<1>6. stack' = s /\ top' = 1 /\ ups' = ups
  BY <1>2, <1>r, <1>s DEF Restart
<1> QED BY <1>2, <1>3, <1>4, <1>5, <1>6, <1>d DEF Body

LEMMA StartLaid ==
    ASSUME NEW p \in Protos, NEW l \in Nat, NEW xs \in Seq(Value), NEW n \in Nat, NEW c,
           c = CallInfo(p, 1, l, 2 + Room[p], MultRet, xs, 0), 1 + Room[p] <= n
    PROVE  FramesIn(<<Idle, c>>, n)
<1>1. p # Nil /\ Room[p] \in Nat
  BY ProtoAssumption
<1>2. /\ DOMAIN c = {"proto", "func", "base", "nargs", "ctop", "nres", "varargs", "cont", "pc", "free"}
      /\ c.proto = p /\ c.func = 1 /\ c.base = 2 /\ c.nargs = l /\ c.nres = MultRet
      /\ c.varargs = xs /\ c.cont = 0
  BY DEF CallInfo
<1>3. FrameIn(c, n)
  <2>r. PICK r \in Nat : r = Room[p]
    BY <1>1
  <2>1. 2 + r - 1 <= n /\ 1 \in 1..n + 1 /\ 2 \in 1..n + 1
    BY <2>r
  <2>2. c.base + Room[c.proto] - 1 <= n
    BY <1>2, <2>r, <2>1
  <2>3. c.nargs \in Nat /\ c.nres \in Int /\ c.cont \in Int /\ c.varargs \in Seq(Value)
    BY <1>2 DEF MultRet
  <2>4. c.func \in 1..n + 1 /\ c.base \in 1..n + 1 /\ c.base = c.func + 1
    BY <1>2, <2>1
  <2>5. {"nargs", "nres", "varargs", "cont", "free"} \subseteq DOMAIN c
    BY <1>2
  <2> QED BY <2>2, <2>3, <2>4, <2>5, Zenon DEF FrameIn
<1>i. PICK i : i = Idle /\ FrameIn(i, n) /\ i.proto = Nil
  <2>1. Idle.proto = Nil
    BY DEF Idle, CallInfo
  <2> QED BY <2>1, IdleLaid
<1>e. PICK e : e = <<i, c>>
  OBVIOUS
<1>4. Len(e) = 2 /\ e[1] = i /\ e[2] = c
  BY <1>e
<1>5. \A k \in 1..Len(e) : k = 1 \/ k = 2
  BY <1>4
<1>6. \A k \in 1..Len(e) : FrameIn(e[k], n)
  BY <1>3, <1>i, <1>4, <1>5
<1>7. ASSUME NEW k \in 2..Len(e)
      PROVE  /\ e[k].proto = Nil => e[k].func + e[k].nargs <= n
             /\ e[k - 1].proto # Nil => e[k].func >= e[k - 1].base + e[k - 1].free
  <2>1. k = 2 /\ k - 1 = 1
    BY <1>4
  <2>2. e[k] = c /\ e[k - 1] = i
    BY <1>4, <2>1
  <2> QED BY <1>1, <1>2, <1>i, <2>2
<1> QED BY <1>i, <1>e, <1>6, <1>7 DEF FramesIn

LEMMA InitLaid == Init => Body /\ Waits
<1> SUFFICES ASSUME Init PROVE Body /\ Waits
  OBVIOUS
<1>1. Waits
  BY DEF Init, Waits
<1>2. ASSUME NEW n \in Nat PROVE UpsIn(ups, n)
  <2>v. PICK v : v = [u \in Upvalues |-> [state |-> "unused", slot |-> 0, val |-> Nil]]
    OBVIOUS
  <2>1. ups.var = v
    BY <2>v DEF Init
  <2>2. \A u \in Upvalues : v[u] = [state |-> "unused", slot |-> 0, val |-> Nil]
    BY <2>v
  <2>3. \A u \in Upvalues : v[u].state = "unused" /\ v[u].slot = 0 /\ v[u].val = Nil
    BY <2>2
  <2> QED BY <2>1, <2>3, NilValue DEF UpsIn
<1>3. top = 1
  BY DEF Init
<1>4. CASE thread = "main"
  <2>1. PICK p \in Chunks : \E vs \in Lists : frames = <<Root(p, vs)>> /\ stack = Grow(<<>>, Room[p])
    BY <1>4 DEF Init
  <2>2. PICK vs \in Lists : frames = <<Root(p, vs)>> /\ stack = Grow(<<>>, Room[p])
    BY <2>1
  <2>r. PICK r \in Nat : r = Room[p]
    BY ProtoAssumption DEF Protos
  <2>z. PICK z \in Seq(Value) : z = <<>>
    BY NoValues
  <2>s. PICK s \in Seq(Value) : s = Grow(z, r) /\ Len(s) >= r
    BY GrowLaid
  <2>d. PICK d \in Nat : d = Len(s) /\ d >= r
    BY <2>s
  <2>3. FramesIn(<<Root(p, vs)>>, d)
    BY <2>d, <2>r, RootLaid, ProtoAssumption
  <2>4. stack = s
    BY <2>2, <2>r, <2>z, <2>s
  <2>5. top \in 1..d + 1
    BY <1>3
  <2> QED BY <1>1, <1>2, <2>2, <2>3, <2>4, <2>5, <2>d DEF Body
<1>5. CASE thread # "main"
  <2>1. PICK p \in Protos : \E vs \in Lists :
          /\ stack = Prepared(<<Fun>> \o vs, 2, Len(vs), p)
          /\ frames = <<Idle, CallInfo(p, 1, Len(vs), 2 + Room[p], MultRet,
                                       Extra(<<Fun>> \o vs, 2, Len(vs), p), 0)>>
    BY <1>5 DEF Init
  <2>v. PICK vs \in Lists :
          /\ stack = Prepared(<<Fun>> \o vs, 2, Len(vs), p)
          /\ frames = <<Idle, CallInfo(p, 1, Len(vs), 2 + Room[p], MultRet,
                                       Extra(<<Fun>> \o vs, 2, Len(vs), p), 0)>>
    BY <2>1
  <2>2. vs \in Seq(Value)
    BY ProtoAssumption
  <2>l. PICK l \in Nat : l = Len(vs)
    BY <2>2
  <2>o. PICK o \in Seq(Value) : o = <<Fun>>
    BY NilValue, OneValue
  <2>w. PICK w \in Seq(Value) : w = o \o vs
    BY <2>2, ConcatProperties
  <2>s. PICK s \in Seq(Value) : s = Prepared(w, 2, l, p) /\ Len(s) >= 2 + Room[p] - 1
    <3>1. 2 \in Int /\ l \in Int
      OBVIOUS
    <3> QED BY <3>1, PreparedLaid
  <2>x. PICK xs \in Seq(Value) : xs = Extra(w, 2, l, p)
    <3>1. 2 \in Int /\ 2 >= 1 /\ l \in Int
      OBVIOUS
    <3> QED BY <3>1, ExtraLaid
  <2>c. PICK c : c = CallInfo(p, 1, l, 2 + Room[p], MultRet, xs, 0)
    OBVIOUS
  <2>3. stack = s /\ frames = <<Idle, c>>
    BY <2>v, <2>l, <2>o, <2>w, <2>s, <2>x, <2>c
  <2>r. PICK r \in Nat : r = Room[p]
    BY ProtoAssumption
  <2>d. PICK d \in Nat : d = Len(s) /\ 1 + r <= d
    BY <2>s, <2>r
  <2>4. FramesIn(<<Idle, c>>, d)
    BY <2>c, <2>d, <2>r, StartLaid
  <2>5. top \in 1..d + 1
    BY <1>3
  <2> QED BY <1>1, <1>2, <2>3, <2>4, <2>5, <2>d DEF Body
<1> QED BY <1>4, <1>5

-----------------------------------------------------------------------------
(* Yields. *)

Statuses == {"run", "error", "yield", "done", "dead"}

LEMMA ThrowEnds ==
    ASSUME NEW s, NEW us, NEW fs, Throw(s, us, fs)
    PROVE  status' \in {"error", "dead"}
BY DEF Throw

\* Only coroutine.yield makes a thread wait, and it says where.
LEMMA EnterWaits ==
    ASSUME NEW s, NEW us, NEW fs, NEW f, NEW n, NEW want, NEW cont,
           \/ EnterLua(s, us, fs, f, n, want, cont) /\ UNCHANGED pending
           \/ EnterNative(s, us, fs, f, n, want, cont)
           \/ EnterYield(s, us, fs, f, n, want, cont)
           \/ EnterPcall(s, us, fs, f, n, want, cont)
    PROVE  \/ pending' = pending /\ status' \in {status, "error", "dead"}
           \/ pending' = [base |-> f, want |-> want] /\ status' = "yield"
<1>1. ASSUME NEW x, NEW y, NEW z, NEW a, NEW b, NEW c, NEW d, EnterLua(x, y, z, a, b, c, d)
      PROVE  status' \in {status, "error", "dead"}
  BY <1>1, ThrowEnds DEF EnterLua
<1>2. CASE EnterLua(s, us, fs, f, n, want, cont) /\ pending' = pending
  BY <1>1, <1>2
<1>3. CASE EnterNative(s, us, fs, f, n, want, cont)
  BY <1>3, ThrowEnds DEF EnterNative
<1>4. CASE EnterYield(s, us, fs, f, n, want, cont)
  BY <1>4 DEF EnterYield
<1>5. CASE EnterPcall(s, us, fs, f, n, want, cont)
  BY <1>1, <1>5, ThrowEnds DEF EnterPcall
<1> QED BY <1>2, <1>3, <1>4, <1>5

\* A step keeps what a yield waits for, or is a yield.
Awaits ==
    \/ pending' = pending /\ status' \in {"run", "error", "done", "dead"}
    \/ pending' = pending /\ status' = status
    \/ \E b \in Int, w \in Int : pending' = [base |-> b, want |-> w] /\ b >= 1 /\ status' = "yield"
    \/ pending' = [base |-> 0, want |-> 0] /\ status' = "run"

LEMMA AwaitsKeeps ==
    ASSUME Waits, status \in Statuses, Awaits PROVE Waits' /\ status' \in Statuses
<1>1. CASE pending' = pending /\ status' \in {"run", "error", "done", "dead"}
  BY <1>1 DEF Waits, Statuses
<1>2. CASE pending' = pending /\ status' = status
  BY <1>2 DEF Waits
<1>3. CASE \E b \in Int, w \in Int : pending' = [base |-> b, want |-> w] /\ b >= 1 /\ status' = "yield"
  BY <1>3 DEF Waits, Statuses
<1>4. CASE pending' = [base |-> 0, want |-> 0] /\ status' = "run"
  BY <1>4 DEF Waits, Statuses
<1> QED BY <1>1, <1>2, <1>3, <1>4 DEF Awaits

LEMMA CallAwaits == ASSUME FramesInvariant, Body, Call PROVE Awaits
<1>0. At("CALL") /\ status = "run"
  BY DEF Call, At
<1>1. Reg(ins.a) \in Int /\ Reg(ins.a) >= 1 /\ ins.c - 1 \in Int
  BY <1>0, Callee, Operands
<1>2. PICK s, fs :
        \/ Throw(stack, ups, fs) /\ pending' = pending
        \/ Enter(s, ups, fs, Reg(ins.a), Arity, ins.c - 1, 0)
  BY DEF Call
<1>3. CASE Throw(stack, ups, fs) /\ pending' = pending
  BY <1>3, ThrowEnds DEF Awaits
<1>4. CASE Enter(s, ups, fs, Reg(ins.a), Arity, ins.c - 1, 0)
  <2>1. \/ pending' = pending /\ status' \in {status, "error", "dead"}
        \/ pending' = [base |-> Reg(ins.a), want |-> ins.c - 1] /\ status' = "yield"
    BY <1>4, EnterWaits DEF Enter
  <2> QED BY <1>0, <1>1, <2>1 DEF Awaits
<1> QED BY <1>2, <1>3, <1>4

LEMMA TailCallAwaits == ASSUME FramesInvariant, Body, TailCall PROVE Awaits
<1>0. At("TAILCALL") /\ status = "run"
  BY DEF TailCall, At
<1>1. Reg(ins.a) \in Int /\ Reg(ins.a) >= 1 /\ MultRet \in Int
  BY <1>0, Callee DEF MultRet
<1>2. PICK s, us, fs :
        \/ Throw(stack, ups, fs) /\ pending' = pending
        \/ Replace(s, us, Reg(ins.a), Arity)
        \/ EnterLua(s, us, fs, Reg(ins.a), Arity, MultRet, 0) /\ UNCHANGED pending
        \/ EnterNative(s, us, fs, Reg(ins.a), Arity, MultRet, 0)
        \/ EnterYield(s, us, fs, Reg(ins.a), Arity, MultRet, 0)
        \/ EnterPcall(s, us, fs, Reg(ins.a), Arity, MultRet, 0)
  BY DEF TailCall
<1>3. CASE Throw(stack, ups, fs) /\ pending' = pending
  BY <1>3, ThrowEnds DEF Awaits
<1>4. CASE Replace(s, us, Reg(ins.a), Arity)
  BY <1>4 DEF Replace, Awaits
<1>5. CASE \/ EnterLua(s, us, fs, Reg(ins.a), Arity, MultRet, 0) /\ UNCHANGED pending
           \/ EnterNative(s, us, fs, Reg(ins.a), Arity, MultRet, 0)
           \/ EnterYield(s, us, fs, Reg(ins.a), Arity, MultRet, 0)
           \/ EnterPcall(s, us, fs, Reg(ins.a), Arity, MultRet, 0)
  <2>1. \/ pending' = pending /\ status' \in {status, "error", "dead"}
        \/ pending' = [base |-> Reg(ins.a), want |-> MultRet] /\ status' = "yield"
    BY <1>5, EnterWaits
  <2> QED BY <1>0, <1>1, <2>1 DEF Awaits
<1> QED BY <1>2, <1>3, <1>4, <1>5

LEMMA ForCallAwaits == ASSUME FramesInvariant, Body, ForCall PROVE Awaits
<1>0. At("TFORLOOP") /\ status = "run"
  BY DEF ForCall, At
<1>1. Reg(ins.a) + 3 \in Int /\ Reg(ins.a) + 3 >= 1 /\ ins.c \in Int
  <2>1. ins.a \in Nat /\ ins.a >= 1 /\ ins.c \in Nat /\ cur.proto # Nil
    BY <1>0, Operands, Here
  <2>2. Reg(ins.a) \in Int /\ Reg(ins.a) >= 1
    BY <2>1, Registers
  <2> QED BY <2>1, <2>2
<1>2. PICK s, fs :
        \/ Throw(stack, ups, fs) /\ pending' = pending
        \/ Enter(s, ups, fs, Reg(ins.a) + 3, 2, ins.c, Reg(ins.a))
  BY DEF ForCall
<1>3. CASE Throw(stack, ups, fs) /\ pending' = pending
  BY <1>3, ThrowEnds DEF Awaits
<1>4. CASE Enter(s, ups, fs, Reg(ins.a) + 3, 2, ins.c, Reg(ins.a))
  <2>1. \/ pending' = pending /\ status' \in {status, "error", "dead"}
        \/ pending' = [base |-> Reg(ins.a) + 3, want |-> ins.c] /\ status' = "yield"
    BY <1>4, EnterWaits DEF Enter
  <2> QED BY <1>0, <1>1, <2>1 DEF Awaits
<1> QED BY <1>2, <1>3, <1>4

LEMMA NextAwaits == ASSUME FramesInvariant, Body, Next PROVE Awaits
<1>1. ASSUME LoadK \/ Move \/ Closure \/ GetUpvalue \/ SetUpvalue \/ OtherSets \/ Close \/ Vararg
             \/ SetList \/ Jump \/ Test
      PROVE  pending' = pending /\ status' = status
  BY <1>1 DEF LoadK, Move, Closure, GetUpvalue, SetUpvalue, OtherSets, Close, Vararg, SetList, Jump, Test
<1>2. ASSUME Return \/ FinishPcall \/ Restart
      PROVE  pending' = pending /\ status' \in {"run", "done"}
  BY <1>2 DEF Return, FinishPcall, Restart
<1>3. ASSUME Fail PROVE pending' = pending /\ status' \in {"error", "dead"}
  BY <1>3, ThrowEnds DEF Fail
<1>4. ASSUME Resume PROVE pending' = [base |-> 0, want |-> 0] /\ status' = "run"
  BY <1>4 DEF Resume
<1>5. CASE LoadK \/ Move \/ Closure \/ GetUpvalue \/ SetUpvalue \/ OtherSets \/ Close \/ Vararg
           \/ SetList \/ Jump \/ Test
  BY <1>1, <1>5 DEF Awaits
<1>6. CASE Return \/ FinishPcall \/ Restart \/ Fail \/ Resume
  BY <1>2, <1>3, <1>4, <1>6 DEF Awaits
<1> QED BY <1>5, <1>6, CallAwaits, TailCallAwaits, ForCallAwaits DEF Next

-----------------------------------------------------------------------------
(* The theorems. *)

\* The frames lie on the stack, and so do the open upvalues.
StackInvariant == FramesInvariant /\ Body /\ Waits /\ status \in Statuses

LEMMA NextLaid == ASSUME StackInvariant, Next PROVE StackInvariant'
<1>1. FramesInvariant /\ Body /\ Waits /\ status \in Statuses
  BY DEF StackInvariant
<1>2. FramesInvariant'
  BY <1>1, NextKeeps
<1>3. Waits' /\ status' \in Statuses
  BY <1>1, NextAwaits, AwaitsKeeps
<1>4. ASSUME SetList \/ Jump \/ Test PROVE Body'
  <2>1. stack' = stack /\ ups' = ups /\ top' = top
    BY <1>4 DEF SetList, Jump, Test
  <2>2. \E pc, free : frames' = Goto(pc, free)
    BY <1>4 DEF SetList, Jump, Test
  <2> QED BY <1>1, <2>1, <2>2, StepLaid
<1>5. Body'
  <2>1. CASE LoadK \/ Move \/ Closure \/ GetUpvalue \/ SetUpvalue \/ OtherSets \/ Close \/ Vararg
    BY <1>1, <2>1, LoadKLaid, MoveLaid, ClosureLaid, GetUpvalueLaid, SetUpvalueLaid, OtherSetsLaid,
       CloseLaid, VarargLaid
  <2>2. CASE SetList \/ Jump \/ Test
    BY <1>4, <2>2
  <2>3. CASE Call \/ TailCall \/ ForCall \/ Resume \/ Return \/ Fail \/ FinishPcall \/ Restart
    BY <1>1, <2>3, CallLaid, TailCallLaid, ForCallLaid, ResumeLaid, ReturnLaid, FailLaid,
       FinishPcallLaid, RestartLaid
  <2> QED BY <2>1, <2>2, <2>3 DEF Next
<1> QED BY <1>2, <1>3, <1>5 DEF StackInvariant

\* Every frame's registers lie on the stack, whatever the program does.
THEOREM StackKeepsInvariant == Spec => []StackInvariant
<1>1. Init => StackInvariant
  <2>1. Init => status \in Statuses
    BY DEF Init, Statuses
  <2> QED BY <2>1, InitKeeps, InitLaid DEF StackInvariant
<1>2. ASSUME StackInvariant, UNCHANGED vars PROVE StackInvariant'
  BY <1>2 DEF StackInvariant, FramesInvariant, Body, Waits, vars
<1>3. StackInvariant /\ [Next]_vars => StackInvariant'
  BY <1>2, NextLaid
<1> QED BY <1>1, <1>3, PTL DEF Spec

LEMMA NestingIsSaid == StackInvariant => WindowsNest
<1> SUFFICES ASSUME StackInvariant, NEW k \in DOMAIN frames
             PROVE  /\ frames[k].proto # Nil =>
                          frames[k].base + Room[frames[k].proto] - 1 <= Len(stack)
                    /\ k > 1 /\ frames[k - 1].proto # Nil =>
                          frames[k].func >= frames[k - 1].base + frames[k - 1].free
  BY DEF WindowsNest
<1>1. FramesOK(frames) /\ FramesIn(frames, Len(stack))
  BY DEF StackInvariant, FramesInvariant, Body
<1>m. PICK m, T : m \in Nat /\ m = Len(frames) /\ frames \in [1..m -> T]
  BY <1>1, FramesList
<1>2. k \in 1..m
  BY <1>m
<1>3. FrameIn(frames[k], Len(stack))
  BY <1>1, <1>m, <1>2 DEF FramesIn
<1>4. k > 1 => k \in 2..m
  BY <1>2
<1>5. k > 1 /\ frames[k - 1].proto # Nil => frames[k].func >= frames[k - 1].base + frames[k - 1].free
  BY <1>1, <1>m, <1>4 DEF FramesIn
<1>6. frames[k].proto # Nil => frames[k].base + Room[frames[k].proto] - 1 <= Len(stack)
  BY <1>3, Zenon DEF FrameIn
<1> QED BY <1>5, <1>6

\* No register of a waiting or running function is past the stack's end, where
\* a write would be lost, and a callee's window begins above the registers that
\* its caller still reads: for every program.
THEOREM WindowsStayNested == Spec => []WindowsNest
BY StackKeepsInvariant, NestingIsSaid, PTL

LEMMA TypesAreSaid == StackInvariant => TypeOK
<1> SUFFICES ASSUME StackInvariant PROVE TypeOK
  OBVIOUS
<1>1. /\ FramesOK(frames) /\ UpsShape(ups) /\ thread \in {"main", "coroutine"}
      /\ status \in {"run", "error", "yield", "done", "dead"}
  BY DEF StackInvariant, FramesInvariant, UpsOK, Statuses
<1>2. stack \in Seq(Value) /\ top \in 1..Len(stack) + 1 /\ FramesIn(frames, Len(stack)) /\ UpsIn(ups, Len(stack))
  BY DEF StackInvariant, Body
<1>n. PICK n \in Nat : n = Len(stack)
  BY <1>2
<1>m. PICK m, T : m \in Nat /\ m = Len(frames) /\ m >= 1 /\ frames \in [1..m -> T]
  BY <1>1, FramesList
<1>3. \A k \in DOMAIN stack : stack[k] \in Value
  BY <1>2
<1>4. frames # <<>>
  BY <1>m
<1>5. ASSUME NEW k \in DOMAIN frames
      PROVE  /\ frames[k].proto \in Protos \cup {Nil}
             /\ {frames[k].func, frames[k].base} \subseteq 1..Len(stack) + 1
             /\ \A i \in DOMAIN frames[k].varargs : frames[k].varargs[i] \in Value
  <2>1. k \in 1..m
    BY <1>m
  <2>2. FrameOK(frames[k]) /\ FrameIn(frames[k], Len(stack))
    BY <1>1, <1>2, <1>m, <2>1 DEF FramesOK, FramesIn
  <2>3. frames[k].proto \in Protos \cup {Nil}
    BY <2>2, Zenon DEF FrameOK
  <2>4. frames[k].func \in 1..Len(stack) + 1 /\ frames[k].base \in 1..Len(stack) + 1
    BY <2>2, Zenon DEF FrameIn
  <2>5. PICK xs \in Seq(Value) : xs = frames[k].varargs
    BY <2>2, Zenon DEF FrameIn
  <2>6. \A i \in DOMAIN xs : xs[i] \in Value
    OBVIOUS
  <2> QED BY <2>3, <2>4, <2>5, <2>6
<1>6. ups.var \in [Upvalues -> [state : {"unused", "open", "closed"}, slot : 0..Len(stack), val : Value]]
  <2>v. PICK v : v = ups.var
    OBVIOUS
  <2>1. v = [u \in Upvalues |-> v[u]]
    BY <1>1, <2>v DEF UpsShape
  <2>2. \A u \in Upvalues : v[u] \in [state : {"unused", "open", "closed"}, slot : 0..Len(stack), val : Value]
    <3> SUFFICES ASSUME NEW u \in Upvalues
                 PROVE  v[u] \in [state : {"unused", "open", "closed"}, slot : 0..Len(stack), val : Value]
      OBVIOUS
    <3>1. v[u] = [state |-> v[u].state, slot |-> v[u].slot, val |-> v[u].val]
      BY <1>1, <2>v DEF UpsShape
    <3>2. v[u].state \in {"unused", "open", "closed"} /\ v[u].slot \in 0..Len(stack) /\ v[u].val \in Value
      BY <1>2, <2>v DEF UpsIn
    <3> QED BY <3>1, <3>2
  <2> QED BY <2>1, <2>2, <2>v
<1> QED BY <1>1, <1>2, <1>3, <1>4, <1>5, <1>6, Zenon DEF TypeOK

\* The stack holds values only, every CallInfo describes slots of it, and the
\* upvalues' storage is what their state says.
THEOREM FramesTypeCorrect == Spec => []TypeOK
BY StackKeepsInvariant, TypesAreSaid, PTL
=============================================================================
