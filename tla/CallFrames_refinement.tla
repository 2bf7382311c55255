------------------------ MODULE CallFrames_refinement ------------------------
(***************************************************************************)
(* The frames implement Activations, for every program that is Compiled.   *)
(*                                                                         *)
(* First what the lists of registers of activations are on the stack, and  *)
(* how frames are mapped; then the invariant: the chain of the calls that  *)
(* wait, and the homes of captured variables; then each instruction's      *)
(* step, which is one of Activations.                                      *)
(***************************************************************************)
EXTENDS CallFrames_proofs

-----------------------------------------------------------------------------
(* The slots of a stack. *)

LEMMA GrowSlot ==
    ASSUME NEW s \in Seq(Value), NEW n \in Int, NEW j
    PROVE  Slot(Grow(s, n), j) = Slot(s, j)
<1>1. Grow(s, n) \in Seq(Value) /\ Len(Grow(s, n)) = IF n > Len(s) THEN n ELSE Len(s)
  BY GrowLaid
<1>2. DOMAIN Grow(s, n) = 1..Len(Grow(s, n)) /\ DOMAIN s = 1..Len(s) /\ Len(s) \in Nat
  BY <1>1
<1>3. \A i \in 1..Len(s) : Grow(s, n)[i] = s[i]
  BY GrowLaid
<1>4. ASSUME n > Len(s), j \in Len(s) + 1..n PROVE Grow(s, n)[j] = Nil
  <2>1. Max({0, n - Len(s)}) = n - Len(s)
    BY <1>4, <1>2, MaxOfTwo
  <2>2. PICK g : g = [i \in 1..n - Len(s) |-> Nil] /\ g \in Seq(Value) /\ Len(g) = n - Len(s)
    <3> DEFINE g == [i \in 1..n - Len(s) |-> Nil]
    <3>1. \A i \in 1..n - Len(s) : g[i] \in Value
      BY NilValue
    <3>2. n - Len(s) \in Int /\ g = [i \in 1..n - Len(s) |-> g[i]]
      BY <1>2
    <3>3. g \in Seq(Value) /\ Len(g) = IF n - Len(s) > 0 THEN n - Len(s) ELSE 0
      <4> HIDE DEF g
      <4> QED BY <3>1, <3>2, ValueList
    <3>4. g \in Seq(Value) /\ Len(g) = n - Len(s)
      BY <3>3, <1>2, <1>4
    <3> QED BY <3>4
  <2>3. Grow(s, n) = s \o g
    BY <2>1, <2>2 DEF Grow
  <2>4. j - Len(s) \in 1..n - Len(s)
    BY <1>4, <1>2
  <2> QED BY <2>2, <2>3, <2>4, <1>2, <1>4
<1> QED BY <1>1, <1>2, <1>3, <1>4 DEF Slot

LEMMA PutSlot ==
    ASSUME NEW s \in Seq(Value), NEW k \in Int, NEW vs \in Seq(Value), NEW j \in Int
    PROVE  Slot(Put(s, k, vs), j) = IF j \in k..k + Len(vs) - 1 /\ j \in 1..Len(s)
                                    THEN vs[j - k + 1] ELSE Slot(s, j)
<1>1. DOMAIN s = 1..Len(s) /\ DOMAIN Put(s, k, vs) = 1..Len(s)
  BY DEF Put
<1> QED BY <1>1 DEF Put, Slot

LEMMA WipeSlot ==
    ASSUME NEW s \in Seq(Value), NEW lo \in Int, NEW hi \in Int, NEW j \in Int
    PROVE  Slot(Wipe(s, lo, hi), j) = IF j \in lo..hi THEN Nil ELSE Slot(s, j)
BY DEF Wipe, Slot

\* The slots from k on, n of them.
W(s, k, n) == [i \in 1..n |-> Slot(s, k + i - 1)]

LEMMA WIsList ==
    ASSUME NEW s \in Seq(Value), NEW k \in Int, NEW n \in Int
    PROVE  /\ W(s, k, n) \in Seq(Value) /\ Len(W(s, k, n)) = IF n > 0 THEN n ELSE 0
           /\ \A i \in 1..n : W(s, k, n)[i] = Slot(s, k + i - 1)
<1> DEFINE g == W(s, k, n)
<1>1. \A i \in 1..n : g[i] = Slot(s, k + i - 1) /\ g[i] \in Value
  BY SlotValue DEF W
<1>2. g = [i \in 1..n |-> g[i]]
  BY DEF W
<1> HIDE DEF g
<1>3. g \in Seq(Value) /\ Len(g) = IF n > 0 THEN n ELSE 0
  BY <1>1, <1>2, ValueList
<1> QED BY <1>1, <1>3 DEF g

\* Two lists with the same length and the same elements.
LEMMA SameLists ==
    ASSUME NEW a \in Seq(Value), NEW b \in Seq(Value), Len(a) = Len(b),
           \A i \in 1..Len(a) : a[i] = b[i]
    PROVE  a = b
OBVIOUS

LEMMA WindowIs ==
    ASSUME NEW s \in Seq(Value), NEW k \in Int, k >= 1, NEW n \in Int
    PROVE  Window(s, k, n) = W(s, k, n)
<1>1. PICK g : g = Grow(s, k + n - 1) /\ g \in Seq(Value)
               /\ Len(g) = IF k + n - 1 > Len(s) THEN k + n - 1 ELSE Len(s)
  BY GrowLaid
<1>2. \A j : Slot(g, j) = Slot(s, j)
  BY <1>1, GrowSlot
<1>3. Window(s, k, n) = SubSeq(g, k, k + n - 1)
  BY <1>1 DEF Window
<1>4. Window(s, k, n) \in Seq(Value) /\ Len(Window(s, k, n)) = IF n > 0 THEN n ELSE 0
  BY WindowLaid
<1>5. ASSUME NEW i \in 1..n PROVE Window(s, k, n)[i] = Slot(s, k + i - 1)
  <2>1. k + i - 1 \in 1..Len(g) /\ k + i - 1 \in k..k + n - 1
    BY <1>1
  <2>2. SubSeq(g, k, k + n - 1)[i] = g[k + i - 1]
    BY <1>1, <2>1
  <2>3. Slot(g, k + i - 1) = g[k + i - 1]
    BY <1>1, <2>1 DEF Slot
  <2> QED BY <1>2, <1>3, <2>2, <2>3
<1>6. /\ W(s, k, n) \in Seq(Value) /\ Len(W(s, k, n)) = IF n > 0 THEN n ELSE 0
      /\ \A i \in 1..n : W(s, k, n)[i] = Slot(s, k + i - 1)
  BY WIsList
<1>7. \A i \in 1..Len(W(s, k, n)) : i \in 1..n
  BY <1>6
<1> QED BY <1>4, <1>5, <1>6, <1>7, SameLists

LEMMA WAgrees ==
    ASSUME NEW s \in Seq(Value), NEW t \in Seq(Value), NEW k \in Int, NEW n \in Int,
           \A j \in k..k + n - 1 : Slot(s, j) = Slot(t, j)
    PROVE  W(s, k, n) = W(t, k, n)
<1>1. \A i \in 1..n : k + i - 1 \in k..k + n - 1
  OBVIOUS
<1> QED BY <1>1 DEF W

LEMMA WNone ==
    ASSUME NEW s, NEW k \in Int, NEW n \in Int, n <= 0
    PROVE  W(s, k, n) = <<>>
<1>1. 1..n = {}
  OBVIOUS
<1> QED BY <1>1 DEF W

LEMMA WOne ==
    ASSUME NEW s \in Seq(Value), NEW k \in Int
    PROVE  W(s, k, 1) = <<Slot(s, k)>>
<1>1. W(s, k, 1) \in Seq(Value) /\ Len(W(s, k, 1)) = 1 /\ W(s, k, 1)[1] = Slot(s, k)
  <2>1. 1 \in Int /\ 1 > 0 /\ 1 \in 1..1 /\ k + 1 - 1 = k
    OBVIOUS
  <2>2. /\ W(s, k, 1) \in Seq(Value) /\ Len(W(s, k, 1)) = IF 1 > 0 THEN 1 ELSE 0
        /\ \A i \in 1..1 : W(s, k, 1)[i] = Slot(s, k + i - 1)
    BY <2>1, WIsList, ZenonT(60)
  <2>3. W(s, k, 1)[1] = Slot(s, k + 1 - 1)
    BY <2>1, <2>2
  <2> QED BY <2>1, <2>2, <2>3
<1>2. Slot(s, k) \in Value
  BY SlotValue
<1>3. PICK v \in Value : v = Slot(s, k)
  BY <1>2
<1>4. <<v>> \in Seq(Value) /\ Len(<<v>>) = 1 /\ <<v>>[1] = v
  OBVIOUS
<1>5. \A i \in 1..1 : i = 1
  OBVIOUS
<1> QED BY <1>1, <1>3, <1>4, <1>5, SameLists

\* A part of a window is a window.
LEMMA WSub ==
    ASSUME NEW s \in Seq(Value), NEW k \in Int, NEW n \in Nat, NEW i \in Int, NEW j \in Int,
           i >= 1, j <= n
    PROVE  SubSeq(W(s, k, n), i, j) = W(s, k + i - 1, j - i + 1)
<1>1. PICK w \in Seq(Value) : w = W(s, k, n) /\ Len(w) = n /\ \A x \in 1..n : w[x] = Slot(s, k + x - 1)
  <2>1. W(s, k, n) \in Seq(Value) /\ Len(W(s, k, n)) = n
        /\ \A x \in 1..n : W(s, k, n)[x] = Slot(s, k + x - 1)
    BY WIsList
  <2> QED BY <2>1
<1>2. \A x \in i..j : w[x] \in Value
  BY <1>1, ElementOfSeq
<1>3. /\ SubSeq(w, i, j) \in Seq(Value)
      /\ Len(SubSeq(w, i, j)) = IF i <= j THEN j - i + 1 ELSE 0
      /\ \A x \in 1..j - i + 1 : SubSeq(w, i, j)[x] = w[i + x - 1]
  BY <1>2, SubSeqProperties
<1>4. PICK d \in Int, h \in Int : d = k + i - 1 /\ h = j - i + 1
  OBVIOUS
<1>5. W(s, d, h) \in Seq(Value) /\ Len(W(s, d, h)) = (IF h > 0 THEN h ELSE 0)
      /\ \A x \in 1..h : W(s, d, h)[x] = Slot(s, d + x - 1)
  BY <1>4, WIsList
<1>6. ASSUME NEW x \in 1..h PROVE SubSeq(w, i, j)[x] = W(s, d, h)[x]
  <2>1. i + x - 1 \in 1..n /\ k + (i + x - 1) - 1 = d + x - 1
    BY <1>4
  <2>2. SubSeq(w, i, j)[x] = w[i + x - 1]
    BY <1>3, <1>4
  <2>3. w[i + x - 1] = Slot(s, k + (i + x - 1) - 1)
    BY <1>1, <2>1
  <2>4. W(s, d, h)[x] = Slot(s, d + x - 1)
    BY <1>5
  <2> QED BY <2>1, <2>2, <2>3, <2>4
<1>7. Len(SubSeq(w, i, j)) = Len(W(s, d, h)) /\ 1..Len(SubSeq(w, i, j)) = 1..h
  BY <1>3, <1>4, <1>5
<1>8. SubSeq(w, i, j) = W(s, d, h)
  BY <1>3, <1>5, <1>6, <1>7, SameLists
<1> QED BY <1>1, <1>4, <1>8

LEMMA WUpto ==
    ASSUME NEW s \in Seq(Value), NEW k \in Int, NEW n \in Nat, NEW j \in Int, j <= n
    PROVE  Upto(W(s, k, n), j) = W(s, k, j)
<1>1. PICK i \in Int : i = 1 /\ k + i - 1 = k /\ j - i + 1 = j
  OBVIOUS
<1>3. i >= 1
  BY <1>1
<1>2. SubSeq(W(s, k, n), i, j) = W(s, k + i - 1, j - i + 1)
  BY <1>3, WSub, ZenonT(60)
<1> QED BY <1>1, <1>2 DEF Upto

Joined(s, k, n, m) == W(s, k, n) \o W(s, k + n, m) = W(s, k, n + m)
LEMMA WJoin ==
    ASSUME NEW s \in Seq(Value), NEW k \in Int, NEW n \in Nat, NEW m \in Nat
    PROVE  Joined(s, k, n, m)
<1>1. PICK a \in Seq(Value) : a = W(s, k, n) /\ Len(a) = n /\ \A x \in 1..n : a[x] = Slot(s, k + x - 1)
  <2>1. W(s, k, n) \in Seq(Value) /\ Len(W(s, k, n)) = n
        /\ \A x \in 1..n : W(s, k, n)[x] = Slot(s, k + x - 1)
    BY WIsList
  <2> QED BY <2>1
<1>2. PICK b \in Seq(Value) : b = W(s, k + n, m) /\ Len(b) = m /\ \A x \in 1..m : b[x] = Slot(s, k + n + x - 1)
  <2>1. W(s, k + n, m) \in Seq(Value) /\ Len(W(s, k + n, m)) = m
        /\ \A x \in 1..m : W(s, k + n, m)[x] = Slot(s, k + n + x - 1)
    BY WIsList
  <2> QED BY <2>1
<1>3. PICK c \in Seq(Value) : c = W(s, k, n + m) /\ Len(c) = n + m /\ \A x \in 1..n + m : c[x] = Slot(s, k + x - 1)
  <2>1. W(s, k, n + m) \in Seq(Value) /\ Len(W(s, k, n + m)) = n + m
        /\ \A x \in 1..n + m : W(s, k, n + m)[x] = Slot(s, k + x - 1)
    BY WIsList
  <2> QED BY <2>1
<1>4. a \o b \in Seq(Value) /\ Len(a \o b) = n + m
      /\ \A x \in 1..n + m : (a \o b)[x] = IF x <= n THEN a[x] ELSE b[x - n]
  <2>1. /\ a \o b \in Seq(Value) /\ Len(a \o b) = Len(a) + Len(b)
        /\ \A x \in 1..Len(a) + Len(b) : (a \o b)[x] = IF x <= Len(a) THEN a[x] ELSE b[x - Len(a)]
    BY ConcatProperties
  <2> QED BY <1>1, <1>2, <2>1
<1>5. ASSUME NEW x \in 1..n + m PROVE (a \o b)[x] = c[x]
  <2>1. CASE x <= n
    BY <1>1, <1>3, <1>4, <2>1
  <2>2. CASE x > n
    <3>1. x - n \in 1..m /\ k + n + (x - n) - 1 = k + x - 1
      BY <2>2
    <3>3. c[x] = Slot(s, k + x - 1)
      BY <1>3
    <3>4. PICK y \in 1..m : y = x - n
      BY <3>1
    <3>2. (a \o b)[x] = b[y]
      <4>1. x - n = y /\ ~ x <= n
        BY <2>2, <3>4
      <4>2. (a \o b)[x] = IF x <= n THEN a[x] ELSE b[x - n]
        BY <1>4
      <4> QED BY <4>1, <4>2
    <3>5. b[y] = Slot(s, k + n + y - 1)
      BY <1>2
    <3>6. k + n + y - 1 = k + x - 1
      BY <3>4
    <3>7. b[y] = Slot(s, k + x - 1)
      BY <3>5, <3>6
    <3> QED BY <3>2, <3>3, <3>7
  <2>3. x <= n \/ x > n
    OBVIOUS
  <2> QED BY <2>1, <2>2, <2>3
<1>6. a \o b = c
  BY <1>3, <1>4, <1>5, SameLists
<1> QED BY <1>1, <1>2, <1>3, <1>6 DEF Joined

\* A list that is written to slots which exist is found there.
LEMMA WPut ==
    ASSUME NEW s \in Seq(Value), NEW k \in Int, k >= 1, NEW vs \in Seq(Value),
           k + Len(vs) - 1 <= Len(s)
    PROVE  W(Put(s, k, vs), k, Len(vs)) = vs
<1>1. PICK t \in Seq(Value) : t = Put(s, k, vs)
  BY PutLaid
<1>2. PICK n \in Nat : n = Len(vs)
  OBVIOUS
<1>3. W(t, k, n) \in Seq(Value) /\ Len(W(t, k, n)) = n
      /\ \A x \in 1..n : W(t, k, n)[x] = Slot(t, k + x - 1)
  BY WIsList
<1>4. ASSUME NEW x \in 1..n PROVE W(t, k, n)[x] = vs[x]
  <2>1. k + x - 1 \in k..k + Len(vs) - 1 /\ k + x - 1 \in 1..Len(s) /\ (k + x - 1) - k + 1 = x
    BY <1>2
  <2>2. Slot(Put(s, k, vs), k + x - 1) = vs[(k + x - 1) - k + 1]
    BY <2>1, PutSlot
  <2> QED BY <1>1, <1>3, <2>1, <2>2
<1>5. W(t, k, n) = vs
  BY <1>2, <1>3, <1>4, SameLists
<1> QED BY <1>1, <1>2, <1>5

LEMMA WAppend ==
    ASSUME NEW s \in Seq(Value), NEW k \in Int, NEW n \in Nat
    PROVE  W(s, k, n + 1) = Append(W(s, k, n), Slot(s, k + n))
<1>1. W(s, k, n) \in Seq(Value) /\ Slot(s, k + n) \in Value /\ k + n \in Int /\ 1 \in Nat
  BY WIsList, SlotValue
<1>2. W(s, k + n, 1) = <<Slot(s, k + n)>>
  BY <1>1, WOne
<1>3. W(s, k, n + 1) = W(s, k, n) \o W(s, k + n, 1)
  <2>1. PICK m \in Nat : m = 1
    OBVIOUS
  <2>2. Joined(s, k, n, m)
    BY WJoin
  <2> QED BY <2>1, <2>2 DEF Joined
<1>4. PICK v \in Value, w \in Seq(Value) : v = Slot(s, k + n) /\ w = W(s, k, n)
  BY <1>1
<1>5. Append(w, v) = w \o <<v>>
  BY AppendIsConcat
<1> QED BY <1>2, <1>3, <1>4, <1>5

LEMMA WExcept ==
    ASSUME NEW s \in Seq(Value), NEW t \in Seq(Value), NEW k \in Int, NEW n \in Nat, NEW r \in 1..n,
           \A j \in k..k + n - 1 : j # k + r - 1 => Slot(t, j) = Slot(s, j)
    PROVE  W(t, k, n) = [W(s, k, n) EXCEPT ![r] = Slot(t, k + r - 1)]
<1>1. \A i \in 1..n : k + i - 1 \in k..k + n - 1 /\ (i # r => k + i - 1 # k + r - 1)
  OBVIOUS
<1>2. \A i \in 1..n : i # r => Slot(t, k + i - 1) = Slot(s, k + i - 1)
  BY <1>1
<1> QED BY <1>2 DEF W

LEMMA AdjustIs ==
    ASSUME NEW vs \in Seq(Value), NEW n \in Int
    PROVE  /\ Adjust(vs, n) \in Seq(Value)
           /\ Len(Adjust(vs, n)) = IF n = MultRet THEN Len(vs) ELSE IF n > 0 THEN n ELSE 0
           /\ \A i \in 1..Len(Adjust(vs, n)) :
                 Adjust(vs, n)[i] = IF i <= Len(vs) THEN vs[i] ELSE Nil
<1> DEFINE g == Adjust(vs, n)
           m == IF n = MultRet THEN Len(vs) ELSE n
<1>1. \A i \in 1..m : g[i] = (IF i <= Len(vs) THEN vs[i] ELSE Nil) /\ g[i] \in Value
  <2>1. ASSUME NEW i \in 1..m PROVE g[i] = (IF i <= Len(vs) THEN vs[i] ELSE Nil) /\ g[i] \in Value
    <3>1. g[i] = IF i <= Len(vs) THEN vs[i] ELSE Nil
      BY DEF Adjust
    <3>2. i <= Len(vs) => vs[i] \in Value
      BY ElementOfSeq
    <3> QED BY <3>1, <3>2, NilValue
  <2> QED BY <2>1
<1>2. g = [i \in 1..m |-> g[i]] /\ m \in Int
  BY DEF Adjust, MultRet
<1> HIDE DEF g
<1>3. g \in Seq(Value) /\ Len(g) = IF m > 0 THEN m ELSE 0
  <2> HIDE DEF m
  <2> QED BY <1>1, <1>2, ValueList
<1>4. Len(g) = IF n = MultRet THEN Len(vs) ELSE IF n > 0 THEN n ELSE 0
  BY <1>3
<1>5. \A i \in 1..Len(g) : i \in 1..m
  <2> HIDE DEF m
  <2>1. m \in Int
    BY <1>2
  <2>2. PICK x \in Int : x = Len(g) /\ x = IF m > 0 THEN m ELSE 0
    BY <1>3, <2>1
  <2>3. \A i \in 1..x : i \in 1..m
    BY <2>1, <2>2
  <2> QED BY <2>2, <2>3
<1> QED BY <1>1, <1>3, <1>4, <1>5 DEF g

LEMMA AdjustAll ==
    ASSUME NEW vs \in Seq(Value)
    PROVE  Adjust(vs, MultRet) = vs
<1>1. MultRet \in Int
  BY DEF MultRet
<1>2. /\ Adjust(vs, MultRet) \in Seq(Value) /\ Len(Adjust(vs, MultRet)) = Len(vs)
      /\ \A i \in 1..Len(vs) : Adjust(vs, MultRet)[i] = IF i <= Len(vs) THEN vs[i] ELSE Nil
  BY <1>1, AdjustIs
<1>3. \A i \in 1..Len(vs) : i <= Len(vs)
  OBVIOUS
<1> QED BY <1>2, <1>3, SameLists

\* g is f with v at i.
Changed(g, f, i, v) == g = [f EXCEPT ![i] = v]

-----------------------------------------------------------------------------
(* The frames seen as activations. *)

\* The activation that the frame fr stands for, with the open list m.
View(s, fr, m) ==
    [proto |-> fr.proto, pc |-> fr.pc, regs |-> W(s, fr.base, fr.free), more |-> m,
     varargs |-> fr.varargs]

\* The activations that the frames behind the first d stand for.
ActsOf(s, fs, d, m) ==
    [i \in 1..Len(fs) - d |-> View(s, fs[i + d], IF i + d = Len(fs) THEN m ELSE <<>>)]

\* a is the list of these activations.
ActsAre(a, s, fs, d, m) ==
    /\ \E T : a \in Seq(T)
    /\ Len(a) = Len(fs) - d
    /\ \A i \in 1..Len(fs) - d : a[i] =
          View(s, fs[i + d], IF i + d = Len(fs) THEN m ELSE <<>>)

LEMMA ActsList ==
    ASSUME NEW s, NEW fs, FramesOK(fs), NEW d \in Nat, d <= Len(fs), NEW m
    PROVE  ActsAre(ActsOf(s, fs, d, m), s, fs, d, m)
<1>1. PICK l \in Nat : l = Len(fs)
  BY FramesList
<1>2. PICK h \in Nat : h = l - d
  <2>1. d <= l
    BY <1>1
  <2>2. l - d \in Nat
    BY <2>1
  <2> QED BY <2>2
<1>3. PICK g : g = ActsOf(s, fs, d, m)
  OBVIOUS
<1>4. g = [i \in 1..h |-> View(s, fs[i + d], IF i + d = l THEN m ELSE <<>>)]
  BY <1>1, <1>2, <1>3 DEF ActsOf
<1>5. g \in [1..h -> {g[i] : i \in 1..h}]
  BY <1>4
<1>6. g \in Seq({g[i] : i \in 1..h}) /\ Len(g) = h
  BY <1>5, ListOf
<1>7. \A i \in 1..h : g[i] = View(s, fs[i + d], IF i + d = l THEN m ELSE <<>>)
  BY <1>4
<1> QED BY <1>1, <1>2, <1>3, <1>6, <1>7 DEF ActsAre

\* Two lists of activations with the same elements.
LEMMA SameActs ==
    ASSUME NEW a, NEW b, \E T : a \in Seq(T), \E T : b \in Seq(T), Len(a) = Len(b),
           \A i \in 1..Len(a) : a[i] = b[i]
    PROVE  a = b
<1>1. PICK S, T : a \in Seq(S) /\ b \in Seq(T)
  OBVIOUS
<1>2. a \in Seq(S \cup T) /\ b \in Seq(S \cup T)
  BY <1>1, SeqMonotonic
<1> QED BY <1>2, SeqEqual

LEMMA ActsSame ==
    ASSUME NEW s, NEW t, NEW fs, NEW gs, FramesOK(fs), FramesOK(gs), Len(gs) = Len(fs),
           NEW d \in Nat, NEW m,
           \A k \in d + 1..Len(fs) : \A x : View(t, gs[k], x) = View(s, fs[k], x)
    PROVE  ActsOf(t, gs, d, m) = ActsOf(s, fs, d, m)
<1>1. PICK l \in Nat : l = Len(fs) /\ l = Len(gs)
  BY FramesList
<1>2. \A i \in 1..l - d : i + d \in d + 1..l
  BY <1>1
<1>3. \A i \in 1..l - d : \A x : View(t, gs[i + d], x) = View(s, fs[i + d], x)
  BY <1>1, <1>2
<1> QED BY <1>1, <1>3 DEF ActsOf

\* The last frame changes.
LEMMA ActsChanged ==
    ASSUME NEW s, NEW t, NEW fs, NEW gs, FramesOK(fs), FramesOK(gs), Len(gs) = Len(fs),
           NEW d \in Nat, d < Len(fs), NEW m, NEW o,
           \A k \in d + 1..Len(fs) - 1 : View(t, gs[k], <<>>) = View(s, fs[k], <<>>)
    PROVE  Changed(ActsOf(t, gs, d, m), ActsOf(s, fs, d, o), Len(fs) - d, View(t, gs[Len(gs)], m))
<1>1. PICK l \in Nat : l = Len(fs) /\ l = Len(gs)
  BY FramesList
<1>2. PICK h \in Nat : h = l - d /\ h >= 1
  <2>1. d < l
    BY <1>1
  <2>2. l - d \in Nat /\ l - d >= 1
    BY <2>1
  <2> QED BY <2>2
<1>3. \A i \in 1..h : i # h => i + d \in d + 1..l - 1 /\ i + d # l
  BY <1>2
<1>4. h + d = l /\ h \in 1..h
  BY <1>2
<1>5. \A i \in 1..h : i # h => View(t, gs[i + d], <<>>) = View(s, fs[i + d], <<>>)
  BY <1>1, <1>3
<1>6. ActsOf(t, gs, d, m) = [i \in 1..h |-> View(t, gs[i + d], IF i + d = l THEN m ELSE <<>>)]
  BY <1>1, <1>2 DEF ActsOf
<1>7. ActsOf(s, fs, d, o) = [i \in 1..h |-> View(s, fs[i + d], IF i + d = l THEN o ELSE <<>>)]
  BY <1>1, <1>2 DEF ActsOf
<1>8. PICK a, b : a = ActsOf(t, gs, d, m) /\ b = [ActsOf(s, fs, d, o) EXCEPT ![h] = View(t, gs[l], m)]
  OBVIOUS
<1>10. ASSUME NEW i \in 1..h PROVE a[i] = b[i]
  <2>1. CASE i = h
    <3>1. a[i] = View(t, gs[l], m)
      BY <2>1, <1>4, <1>6, <1>8
    <3>2. b[i] = View(t, gs[l], m)
      BY <2>1, <1>4, <1>7, <1>8
    <3> QED BY <3>1, <3>2
  <2>2. CASE i # h
    <3>1. a[i] = View(t, gs[i + d], <<>>)
      BY <2>2, <1>3, <1>6, <1>8
    <3>2. b[i] = View(s, fs[i + d], <<>>)
      BY <2>2, <1>3, <1>7, <1>8
    <3> QED BY <2>2, <3>1, <3>2, <1>5
  <2> QED BY <2>1, <2>2
<1>11. a = [i \in 1..h |-> a[i]] /\ b = [i \in 1..h |-> b[i]]
  BY <1>6, <1>7, <1>8
<1>12. a = b
  BY <1>10, <1>11
<1>13. Changed(ActsOf(t, gs, d, m), ActsOf(s, fs, d, o), h, View(t, gs[l], m))
  BY <1>8, <1>12 DEF Changed
<1> QED BY <1>1, <1>2, <1>13

\* b is a with x behind it.
Pushes(b, a, x) == b = Append(a, x)

\* A frame is pushed.
LEMMA ActsPush ==
    ASSUME NEW s, NEW t, NEW fs, NEW gs, FramesOK(fs), FramesOK(gs),
           \E n \in Nat : Len(fs) = n /\ Len(gs) = n + 1,
           NEW d \in Nat, d <= Len(fs), NEW m,
           \A k \in d + 1..Len(fs) : View(t, gs[k], <<>>) = View(s, fs[k], <<>>)
    PROVE  Pushes(ActsOf(t, gs, d, m), ActsOf(s, fs, d, <<>>), View(t, gs[Len(gs)], m))
<1>1. PICK l \in Nat : l = Len(fs) /\ l + 1 = Len(gs) /\ d <= l
  BY FramesList
<1>2. PICK h \in Nat : h = l - d
  <2>1. l - d \in Nat
    BY <1>1
  <2> QED BY <2>1
<1>h. l + 1 - d = h + 1 /\ d <= l + 1
  BY <1>1, <1>2
<1>3. PICK a : a = ActsOf(t, gs, d, m)
  OBVIOUS
<1>4. (\E T : a \in Seq(T)) /\ Len(a) = h + 1
      /\ \A i \in 1..h + 1 : a[i] = View(t, gs[i + d], IF i + d = l + 1 THEN m ELSE <<>>)
  <2>1. d <= Len(gs)
    BY <1>1, <1>h
  <2>2. ActsAre(ActsOf(t, gs, d, m), t, gs, d, m)
    BY <2>1, ActsList
  <2>3. Len(gs) - d = h + 1 /\ Len(gs) = l + 1
    BY <1>1, <1>h
  <2> QED BY <2>2, <2>3, <1>3 DEF ActsAre
<1>5. PICK b : b = ActsOf(s, fs, d, <<>>)
  OBVIOUS
<1>6. (\E T : b \in Seq(T)) /\ Len(b) = h
      /\ \A i \in 1..h : b[i] = View(s, fs[i + d], IF i + d = l THEN <<>> ELSE <<>>)
  <2>1. d <= Len(fs)
    BY <1>1
  <2>2. ActsAre(ActsOf(s, fs, d, <<>>), s, fs, d, <<>>)
    BY <2>1, ActsList
  <2>3. Len(fs) - d = h /\ Len(fs) = l
    BY <1>1, <1>2
  <2> QED BY <2>2, <2>3, <1>5 DEF ActsAre
<1>7. PICK v : v = View(t, gs[l + 1], m)
  OBVIOUS
<1>8. PICK T : b \in Seq(T)
  BY <1>6
<1>9. b \in Seq(T \cup {v}) /\ v \in T \cup {v}
  BY <1>8, SeqMonotonic
<1>10. /\ Append(b, v) \in Seq(T \cup {v}) /\ Len(Append(b, v)) = h + 1
       /\ \A i \in 1..h : Append(b, v)[i] = b[i]
       /\ Append(b, v)[h + 1] = v
  BY <1>6, <1>9, AppendProperties
<1>11. ASSUME NEW i \in 1..h + 1 PROVE a[i] = Append(b, v)[i]
  <2>1. CASE i = h + 1
    <3>1. i + d = l + 1
      BY <2>1, <1>2
    <3> QED BY <2>1, <3>1, <1>4, <1>7, <1>10
  <2>2. CASE i # h + 1
    <3>1. i \in 1..h /\ i + d # l + 1 /\ i + d \in d + 1..l
      BY <2>2, <1>2
    <3>2. a[i] = View(t, gs[i + d], <<>>)
      BY <3>1, <1>4
    <3>3. b[i] = View(s, fs[i + d], <<>>)
      BY <3>1, <1>6
    <3>4. View(t, gs[i + d], <<>>) = View(s, fs[i + d], <<>>)
      BY <3>1, <1>1
    <3>5. Append(b, v)[i] = b[i]
      BY <3>1, <1>10
    <3> QED BY <3>2, <3>3, <3>4, <3>5
  <2> QED BY <2>1, <2>2
<1>12. a = Append(b, v)
  <2>1. (\E U : Append(b, v) \in Seq(U)) /\ Len(a) = Len(Append(b, v))
        /\ \A i \in 1..Len(a) : a[i] = Append(b, v)[i]
    BY <1>4, <1>10, <1>11
  <2> QED BY <1>4, <2>1, SameActs
<1> QED BY <1>1, <1>3, <1>5, <1>7, <1>12 DEF Pushes

\* b are the first n of a.
CutAt(b, a, n) == b = SubSeq(a, 1, n)

\* Frames are popped.
LEMMA ActsCut ==
    ASSUME NEW s, NEW t, NEW fs, NEW gs, FramesOK(fs), FramesOK(gs), Len(gs) < Len(fs),
           NEW d \in Nat, d <= Len(gs), NEW m,
           \A k \in d + 1..Len(gs) : View(t, gs[k], <<>>) = View(s, fs[k], <<>>)
    PROVE  CutAt(ActsOf(t, gs, d, <<>>), ActsOf(s, fs, d, m), Len(gs) - d)
<1>1. PICK l \in Nat, j \in Nat : l = Len(fs) /\ j = Len(gs) /\ d <= j /\ j < l
  BY FramesList
<1>2. PICK h \in Nat, e \in Nat : h = l - d /\ e = j - d /\ e < h
  <2>1. l - d \in Nat /\ j - d \in Nat /\ j - d < l - d
    BY <1>1
  <2> QED BY <2>1
<1>d. d <= l
  BY <1>1
<1>3. PICK a, b : a = ActsOf(t, gs, d, <<>>) /\ b = ActsOf(s, fs, d, m)
  OBVIOUS
<1>4. (\E T : a \in Seq(T)) /\ Len(a) = e
      /\ \A i \in 1..e : a[i] = View(t, gs[i + d], IF i + d = j THEN <<>> ELSE <<>>)
  <2>2. ActsAre(ActsOf(t, gs, d, <<>>), t, gs, d, <<>>)
    BY ActsList
  <2>3. Len(gs) - d = e /\ Len(gs) = j
    BY <1>1, <1>2
  <2> QED BY <2>2, <2>3, <1>3 DEF ActsAre
<1>5. (\E T : b \in Seq(T)) /\ Len(b) = h
      /\ \A i \in 1..h : b[i] = View(s, fs[i + d], IF i + d = l THEN m ELSE <<>>)
  <2>1. d <= Len(fs)
    BY <1>1, <1>d
  <2>2. ActsAre(ActsOf(s, fs, d, m), s, fs, d, m)
    BY <2>1, ActsList
  <2>3. Len(fs) - d = h /\ Len(fs) = l
    BY <1>1, <1>2
  <2> QED BY <2>2, <2>3, <1>3 DEF ActsAre
<1>6. PICK T : b \in Seq(T)
  BY <1>5
<1>7. \A i \in 1..e : b[i] \in T
  <2>1. \A i \in 1..e : i \in 1..Len(b)
    BY <1>2, <1>5
  <2> QED BY <1>6, <2>1, ElementOfSeq
<1>8. /\ SubSeq(b, 1, e) \in Seq(T) /\ Len(SubSeq(b, 1, e)) = IF 1 <= e THEN e - 1 + 1 ELSE 0
      /\ \A i \in 1..e - 1 + 1 : SubSeq(b, 1, e)[i] = b[1 + i - 1]
  BY <1>7, SubSeqProperties
<1>9. Len(SubSeq(b, 1, e)) = e
  BY <1>8
<1>10. ASSUME NEW i \in 1..e PROVE a[i] = SubSeq(b, 1, e)[i]
  <2>1. i \in 1..e - 1 + 1 /\ 1 + i - 1 = i /\ i \in 1..h /\ i + d # l /\ i + d \in d + 1..j
    BY <1>2, <1>1
  <2>2. SubSeq(b, 1, e)[i] = b[i]
    BY <2>1, <1>8
  <2>3. b[i] = View(s, fs[i + d], <<>>)
    BY <2>1, <1>5
  <2>4. a[i] = View(t, gs[i + d], <<>>)
    BY <1>4
  <2>5. View(t, gs[i + d], <<>>) = View(s, fs[i + d], <<>>)
    BY <2>1, <1>1
  <2> QED BY <2>2, <2>3, <2>4, <2>5
<1>11. a = SubSeq(b, 1, e)
  <2>1. (\E U : SubSeq(b, 1, e) \in Seq(U)) /\ Len(a) = Len(SubSeq(b, 1, e))
        /\ \A i \in 1..Len(a) : a[i] = SubSeq(b, 1, e)[i]
    BY <1>4, <1>8, <1>9, <1>10
  <2> QED BY <1>4, <2>1, SameActs
<1> QED BY <1>1, <1>2, <1>3, <1>11 DEF CutAt

-----------------------------------------------------------------------------
(* The chain of calls that wait. *)

\* What the compiler knows, see Compiled.
Live == CHOOSE l : \E h : Compiled(l, h)
Held == CHOOSE h : Compiled(Live, h)

LEMMA CompiledSo == ASSUME NEW l, NEW h, Compiled(l, h) PROVE Compiled(Live, Held)
<1>1. \E k : Compiled(Live, k)
  BY DEF Live
<1> QED BY <1>1 DEF Held

\* The frame waits behind a call: it still reads the registers below the callee
\* or, in a generic for, below the copies for the iterator.
WaitsIn(fr) ==
    LET i == Code[fr.proto][fr.pc]
    IN  /\ i.op \in {"CALL", "TAILCALL", "TFORLOOP"}
        /\ fr.free = IF i.op = "TFORLOOP" THEN i.a + 2 ELSE i.a - 1

\* The frame e is the call that the frame c waits for.
Link(c, e) ==
    IF c.proto # Nil
    THEN LET i == Code[c.proto][c.pc]
         IN  /\ WaitsIn(c) /\ e.func = c.base + c.free /\ e.nres = Takes(i)
             /\ e.cont = IF i.op = "TFORLOOP" THEN c.base + i.a - 1 ELSE 0
    ELSE e.proto # Nil /\ e.func = c.func + 1 /\ e.nres = MultRet /\ e.cont = 0

Shape(fr) ==
    /\ fr = [proto |-> fr.proto, func |-> fr.func, base |-> fr.base, nargs |-> fr.nargs,
             ctop |-> fr.ctop, nres |-> fr.nres, varargs |-> fr.varargs, cont |-> fr.cont,
             pc |-> fr.pc, free |-> fr.free]
    /\ fr.proto \in Protos \cup {Nil}
    /\ fr.func \in Int /\ fr.base \in Int /\ fr.free \in Nat /\ fr.nres \in Int /\ fr.cont \in Int
    /\ fr.func <= fr.base
    /\ fr.varargs \in Seq(Value)
    /\ IF fr.proto = Nil THEN fr.pc = 0 /\ fr.free = 0 /\ fr.varargs = <<>>
       ELSE fr.pc \in DOMAIN Code[fr.proto] /\ fr.free <= Room[fr.proto]

\* The frames behind the first d are those of calls in progress.
Linked(fs, k) == Link(fs[k - 1], fs[k]) /\ fs[k].base = fs[k].func + 1
Ordered(fs, j, k) == fs[j].base + fs[j].free <= fs[k].func
Grounded(d, fs) ==
    /\ d \in {0, 1} /\ FramesOK(fs) /\ Len(fs) > d
    /\ fs[d + 1].func = 1 /\ fs[d + 1].base = d + 1 /\ fs[d + 1].proto # Nil
    /\ d = 1 => fs[2].nres = MultRet /\ fs[2].cont = 0

Chain(d, fs) ==
    /\ Grounded(d, fs)
    /\ \A k \in d + 1..Len(fs) : Shape(fs[k])
    /\ \A k \in d + 2..Len(fs) : Linked(fs, k)
    /\ \A k \in d + 2..Len(fs) : \A j \in d + 1..k - 1 : Ordered(fs, j, k)

LEMMA ChainEnds ==
    ASSUME NEW d, NEW fs, Chain(d, fs)
    PROVE  \E l \in Nat : l = Len(fs) /\ d \in Nat /\ l >= d + 1 /\ l \in d + 1..l
                          /\ l \in 1..l /\ Shape(fs[l])
<1>1. PICK l \in Nat : l = Len(fs) /\ d \in {0, 1} /\ l > d
  BY FramesList DEF Chain, Grounded
<1>2. d \in Nat /\ l >= d + 1 /\ l \in d + 1..l /\ l \in 1..l
  BY <1>1
<1> QED BY <1>1, <1>2 DEF Chain

\* The frame c takes the place of the last one.
LEMMA LastChanged ==
    ASSUME NEW d, NEW fs, Chain(d, fs), NEW c, Shape(c), NEW gs, Changed(gs, fs, Len(fs), c),
           c.func = fs[Len(fs)].func, c.base = fs[Len(fs)].base, c.nres = fs[Len(fs)].nres,
           c.cont = fs[Len(fs)].cont, fs[Len(fs)].proto # Nil => c.proto # Nil
    PROVE  /\ Chain(d, gs) /\ FramesOK(gs) /\ Len(gs) = Len(fs) /\ gs[Len(fs)] = c
           /\ \A k \in 1..Len(fs) - 1 : gs[k] = fs[k]
<1>0. PICK l : l = Len(fs) /\ gs = [fs EXCEPT ![l] = c]
  BY DEF Changed
<1>1. PICK n \in Nat : n = Len(fs) /\ d \in Nat /\ n >= d + 1 /\ n \in 1..n /\ Shape(fs[n])
  BY ChainEnds
<1>l. l = n
  BY <1>0, <1>1
<1>2. FrameOK(c)
  BY DEF Shape, FrameOK
<1>3. FramesOK(fs) /\ l \in 1..Len(fs)
  BY <1>1, <1>l DEF Chain, Grounded
<1>4. FramesOK(gs) /\ Len(gs) = n
  <2>1. FramesOK([fs EXCEPT ![l] = c]) /\ Len([fs EXCEPT ![l] = c]) = Len(fs)
    BY <1>0, <1>2, <1>3, ExchangeKeeps
  <2> QED BY <2>1, <1>0, <1>1
<1>5. PICK T : fs \in [1..n -> T]
  BY <1>1, <1>3, FramesList
<1>6. gs[n] = c /\ \A k \in 1..n : k # n => gs[k] = fs[k]
  BY <1>0, <1>1, <1>5, <1>l
<1>7. \A k \in d + 1..n : Shape(gs[k])
  <2>1. \A k \in d + 1..n : k \in 1..n /\ Shape(fs[k])
    BY <1>1 DEF Chain
  <2> QED BY <1>6, <2>1
<1>8. ASSUME NEW k \in d + 1..n
      PROVE  /\ gs[k].func = fs[k].func /\ gs[k].base = fs[k].base /\ gs[k].nres = fs[k].nres
             /\ gs[k].cont = fs[k].cont /\ (fs[k].proto # Nil => gs[k].proto # Nil)
             /\ (k # n => gs[k] = fs[k])
  <2>1. k \in 1..n
    BY <1>1
  <2> QED BY <1>1, <1>6, <2>1
<1>9. ASSUME NEW k \in d + 2..n PROVE Linked(gs, k)
  <2>1. k \in d + 1..n /\ k - 1 \in d + 1..n /\ k - 1 # n
    BY <1>1
  <2>2. PICK e, o : e = gs[k] /\ o = fs[k]
    OBVIOUS
  <2>3. /\ e.func = o.func /\ e.base = o.base /\ e.nres = o.nres
        /\ e.cont = o.cont /\ (o.proto # Nil => e.proto # Nil) /\ gs[k - 1] = fs[k - 1]
    BY <1>8, <2>1, <2>2
  <2>4. Link(fs[k - 1], o) /\ o.base = o.func + 1
    BY <1>1, <2>2 DEF Chain, Linked
  <2>5. Link(gs[k - 1], e) /\ e.base = e.func + 1
    BY <2>3, <2>4 DEF Link
  <2> QED BY <2>2, <2>5 DEF Linked
<1>10. ASSUME NEW k \in d + 2..n, NEW j \in d + 1..k - 1 PROVE Ordered(gs, j, k)
  <2>1. k \in d + 1..n /\ j \in d + 1..n /\ j # n
    BY <1>1
  <2>2. gs[j] = fs[j] /\ gs[k].func = fs[k].func
    BY <1>8, <2>1
  <2>3. Ordered(fs, j, k)
    BY <1>1 DEF Chain
  <2> QED BY <2>2, <2>3 DEF Ordered
<1>11. Grounded(d, gs)
  <2>1. d + 1 \in d + 1..n /\ (d = 1 => 2 \in d + 1..n)
    BY <1>1
  <2>2. d \in {0, 1} /\ n > d /\ fs[d + 1].func = 1 /\ fs[d + 1].base = d + 1
        /\ fs[d + 1].proto # Nil /\ (d = 1 => fs[2].nres = MultRet /\ fs[2].cont = 0)
    BY <1>1 DEF Chain, Grounded
  <2> QED BY <1>4, <1>8, <2>1, <2>2 DEF Grounded
<1>12. Chain(d, gs)
  BY <1>4, <1>7, <1>9, <1>10, <1>11 DEF Chain
<1>13. \A k \in 1..n - 1 : k \in 1..n /\ k # n
  BY <1>1
<1> QED BY <1>1, <1>4, <1>6, <1>12, <1>13

\* The frame c, which the last one waits for, is pushed.
LEMMA ChainPush ==
    ASSUME NEW d, NEW fs, Chain(d, fs), NEW l, l = Len(fs), NEW c, Shape(c),
           Link(fs[l], c), c.base = c.func + 1, NEW gs, Pushes(gs, fs, c)
    PROVE  /\ Chain(d, gs) /\ FramesOK(gs) /\ Len(gs) = l + 1 /\ gs[l + 1] = c
           /\ \A k \in 1..l : gs[k] = fs[k]
           /\ c.func = fs[l].base + fs[l].free
<1>0. gs = Append(fs, c)
  BY DEF Pushes
<1>1. PICK n \in Nat : n = Len(fs) /\ d \in Nat /\ n >= d + 1 /\ n \in 1..n /\ n \in d + 1..n /\ Shape(fs[n])
  BY ChainEnds
<1>l. l = n
  BY <1>1
<1>2. FrameOK(c)
  BY DEF Shape, FrameOK
<1>3. FramesOK(fs)
  BY DEF Chain, Grounded
<1>4. FramesOK(gs)
  BY <1>0, <1>2, <1>3, AppendKeeps
<1>5. PICK T : fs \in Seq(T)
  BY <1>3, FramesList
<1>6. Len(gs) = n + 1 /\ gs[n + 1] = c /\ \A k \in 1..n : gs[k] = fs[k]
  <2>1. fs \in Seq(T \cup {c}) /\ c \in T \cup {c}
    BY <1>5, SeqMonotonic
  <2> QED BY <1>0, <1>1, <2>1, AppendProperties
<1>7. c.func = fs[n].base + fs[n].free
  <2>1. CASE fs[n].proto # Nil
    BY <2>1, <1>l DEF Link
  <2>2. CASE fs[n].proto = Nil
    <3>1. n \in d + 2..n
      <4>1. fs[d + 1].proto # Nil
        BY DEF Chain, Grounded
      <4>2. n # d + 1
        BY <4>1, <2>2
      <4> QED BY <4>2, <1>1
    <3>2. fs[n].base = fs[n].func + 1
      BY <3>1, <1>1 DEF Chain, Linked
    <3>3. fs[n].free = 0 /\ fs[n].func \in Int
      BY <2>2, <1>1 DEF Shape
    <3>4. c.func = fs[n].func + 1
      BY <2>2, <1>l DEF Link
    <3> QED BY <3>2, <3>3, <3>4
  <2> QED BY <2>1, <2>2
<1>8. \A k \in d + 1..n + 1 : Shape(gs[k])
  <2>1. \A k \in d + 1..n : Shape(fs[k])
    BY <1>1 DEF Chain
  <2>2. \A k \in d + 1..n + 1 : k = n + 1 \/ (k \in d + 1..n /\ k \in 1..n)
    <3>1. d \in Nat /\ n >= d + 1
      BY <1>1
    <3> QED BY <3>1
  <2> QED BY <1>6, <2>1, <2>2
<1>9. ASSUME NEW k \in d + 2..n + 1 PROVE Linked(gs, k)
  <2>1. CASE k = n + 1
    <3>1. k - 1 = n
      BY <2>1, <1>1
    <3>2. gs[k] = c /\ gs[k - 1] = fs[n]
      BY <2>1, <3>1, <1>1, <1>6
    <3> QED BY <3>2, <1>l DEF Linked
  <2>2. CASE k # n + 1
    <3>1. k \in d + 2..n /\ k \in 1..n /\ k - 1 \in 1..n
      BY <2>2, <1>1
    <3>2. gs[k] = fs[k] /\ gs[k - 1] = fs[k - 1]
      BY <3>1, <1>6
    <3>3. Linked(fs, k)
      BY <3>1, <1>1 DEF Chain
    <3> QED BY <3>2, <3>3 DEF Linked
  <2> QED BY <2>1, <2>2
<1>10. ASSUME NEW k \in d + 2..n + 1, NEW j \in d + 1..k - 1 PROVE Ordered(gs, j, k)
  <2>1. CASE k = n + 1
    <3>1. j \in d + 1..n /\ j \in 1..n /\ gs[j] = fs[j] /\ gs[k] = c
      BY <2>1, <1>1, <1>6
    <3>2. CASE j = n
      <4>1. gs[j].base + gs[j].free = c.func
        BY <3>1, <3>2, <1>7
      <4>2. c.func \in Int
        BY DEF Shape
      <4> QED BY <3>1, <4>1, <4>2 DEF Ordered
    <3>3. CASE j # n
      <4>1. n \in d + 2..n /\ j \in d + 1..n - 1
        BY <3>1, <3>3, <1>1
      <4>2. fs[j].base + fs[j].free <= fs[n].func
        BY <4>1, <1>1 DEF Chain, Ordered
      <4>3. fs[n].func <= fs[n].base /\ fs[n].func \in Int /\ fs[n].base \in Int /\ fs[n].free \in Nat
        BY <1>1 DEF Shape
      <4>4. fs[j].base \in Int /\ fs[j].free \in Nat
        BY <3>1, <1>1 DEF Shape, Chain
      <4>9. PICK x \in Int : x = fs[j].base + fs[j].free
        BY <4>4
      <4>5. PICK f \in Int, b \in Int, r \in Nat : f = fs[n].func /\ b = fs[n].base /\ r = fs[n].free
        BY <4>3
      <4>6. x <= f /\ f <= b /\ c.func = b + r
        BY <4>2, <4>3, <4>9, <4>5, <1>7
      <4>7. x <= b + r
        BY <4>6
      <4>8. x <= c.func
        BY <4>6, <4>7
      <4> QED BY <4>9, <4>8, <3>1 DEF Ordered
    <3> QED BY <3>2, <3>3
  <2>2. CASE k # n + 1
    <3>1. k \in d + 2..n /\ k \in 1..n /\ j \in 1..n
      BY <2>2, <1>1
    <3>2. gs[k] = fs[k] /\ gs[j] = fs[j]
      BY <3>1, <1>6
    <3>3. Ordered(fs, j, k)
      BY <3>1, <1>1 DEF Chain
    <3> QED BY <3>2, <3>3 DEF Ordered
  <2> QED BY <2>1, <2>2
<1>11. Grounded(d, gs)
  <2>1. d + 1 \in 1..n /\ (d = 1 => 2 \in 1..n)
    BY <1>1
  <2>2. d \in {0, 1} /\ n > d /\ fs[d + 1].func = 1 /\ fs[d + 1].base = d + 1
        /\ fs[d + 1].proto # Nil /\ (d = 1 => fs[2].nres = MultRet /\ fs[2].cont = 0)
    BY <1>1 DEF Chain, Grounded
  <2>3. n + 1 > d
    BY <1>1
  <2> QED BY <1>4, <1>6, <2>1, <2>2, <2>3 DEF Grounded
<1>12. Chain(d, gs)
  BY <1>6, <1>8, <1>9, <1>10, <1>11 DEF Chain
<1> QED BY <1>l, <1>4, <1>6, <1>7, <1>12

\* The frames above the first n are popped.
LEMMA ChainCut ==
    ASSUME NEW d, NEW fs, Chain(d, fs), NEW n \in Int, n >= d + 1, n <= Len(fs), NEW gs, CutAt(gs, fs, n)
    PROVE  /\ Chain(d, gs) /\ FramesOK(gs) /\ Len(gs) = n
           /\ \A k \in 1..n : gs[k] = fs[k]
<1>0. gs = SubSeq(fs, 1, n)
  BY DEF CutAt
<1>1. PICK l \in Nat : l = Len(fs) /\ d \in Nat /\ l >= d + 1
  BY ChainEnds
<1>2. n \in 1..l /\ n \in Nat /\ n >= d + 1
  BY <1>1
<1>3. FramesOK(fs)
  BY DEF Chain, Grounded
<1>4. FramesOK(gs) /\ Len(gs) = n
  BY <1>0, <1>1, <1>2, <1>3, UptoKeeps
<1>5. PICK T : fs \in Seq(T) /\ fs \in [1..l -> T]
  BY <1>1, <1>3, FramesList
<1>6. \A k \in 1..n : gs[k] = fs[k]
  <2>1. \A k \in 1..n : fs[k] \in T
    BY <1>2, <1>5
  <2>2. \A k \in 1..n - 1 + 1 : gs[k] = fs[1 + k - 1]
    BY <1>0, <1>2, <2>1, SubSeqProperties
  <2>3. \A k \in 1..n : k \in 1..n - 1 + 1 /\ 1 + k - 1 = k
    BY <1>2
  <2> QED BY <2>2, <2>3
<1>7. \A k \in d + 1..n : Shape(gs[k])
  <2>1. \A k \in d + 1..n : k \in 1..n /\ k \in d + 1..l
    BY <1>1, <1>2
  <2> QED BY <1>1, <1>6, <2>1 DEF Chain
<1>8. \A k \in d + 2..n : Linked(gs, k)
  <2>1. \A k \in d + 2..n : k \in 1..n /\ k - 1 \in 1..n /\ k \in d + 2..l
    BY <1>1, <1>2
  <2>2. \A k \in d + 2..n : gs[k] = fs[k] /\ gs[k - 1] = fs[k - 1] /\ Linked(fs, k)
    BY <1>1, <1>6, <2>1 DEF Chain
  <2> QED BY <2>2 DEF Linked
<1>9. \A k \in d + 2..n : \A j \in d + 1..k - 1 : Ordered(gs, j, k)
  <2>1. \A k \in d + 2..n : \A j \in d + 1..k - 1 : k \in 1..n /\ j \in 1..n /\ k \in d + 2..l
    BY <1>1, <1>2
  <2>2. \A k \in d + 2..n : \A j \in d + 1..k - 1 : gs[k] = fs[k] /\ gs[j] = fs[j] /\ Ordered(fs, j, k)
    BY <1>1, <1>6, <2>1 DEF Chain
  <2> QED BY <2>2 DEF Ordered
<1>10. Grounded(d, gs)
  <2>1. d + 1 \in 1..n /\ (d = 1 => 2 \in 1..n)
    BY <1>1, <1>2
  <2>2. d \in {0, 1} /\ fs[d + 1].func = 1 /\ fs[d + 1].base = d + 1
        /\ fs[d + 1].proto # Nil /\ (d = 1 => fs[2].nres = MultRet /\ fs[2].cont = 0)
    BY <1>1 DEF Chain, Grounded
  <2>3. n > d
    BY <1>1, <1>2
  <2> QED BY <1>4, <1>6, <2>1, <2>2, <2>3 DEF Grounded
<1>11. Chain(d, gs)
  BY <1>4, <1>7, <1>8, <1>9, <1>10 DEF Chain
<1> QED BY <1>4, <1>6, <1>11

-----------------------------------------------------------------------------
(* The homes of captured variables. *)

Inside(fr, x) == fr.base <= x /\ x < fr.base + fr.free

Owners(fs, d, x) == {i \in 1..Len(fs) - d : Inside(fs[i + d], x)}
HomeOf(us, fs, d) ==
    [u \in Upvalues |->
        IF us.var[u].state # "open" THEN <<0, 0>>
        ELSE IF Owners(fs, d, us.var[u].slot) = {} THEN <<-1, -1>>
        ELSE LET i == CHOOSE i \in Owners(fs, d, us.var[u].slot) : TRUE
             IN  <<i, us.var[u].slot - fs[i + d].base + 1>>]

CellOf(s, us) ==
    [u \in Upvalues |-> IF us.var[u].state = "open" THEN Slot(s, us.var[u].slot)
                        ELSE us.var[u].val]

UsedOf(us) == {u \in Upvalues : us.var[u].state # "unused"}

\* The register at slot x may be captured where the frame is.
Holds(fr, x) ==
    /\ fr.proto # Nil /\ Inside(fr, x)
    /\ x - fr.base + 1 \in Held[fr.proto][fr.pc]

Housed(d, us, fs) ==
    \A u \in Upvalues : us.var[u].state = "open" =>
        \E k \in d + 1..Len(fs) : Holds(fs[k], us.var[u].slot)

LEMMA OneOwner ==
    ASSUME NEW d, NEW fs, Chain(d, fs), NEW j \in d + 1..Len(fs), NEW k \in d + 1..Len(fs),
           NEW x \in Int, Inside(fs[j], x), Inside(fs[k], x)
    PROVE  j = k
<1>1. PICK l \in Nat : l = Len(fs) /\ d \in Nat /\ l >= d + 1
  BY ChainEnds
<1>2. ASSUME NEW a \in d + 1..l, NEW b \in d + 1..l, a < b, Inside(fs[a], x), Inside(fs[b], x) PROVE FALSE
  <2>1. b \in d + 2..l /\ a \in d + 1..b - 1
    BY <1>1, <1>2
  <2>2. fs[a].base + fs[a].free <= fs[b].func
    BY <2>1, <1>1 DEF Chain, Ordered
  <2>3. fs[b].func <= fs[b].base /\ fs[b].func \in Int /\ fs[b].base \in Int
        /\ fs[a].base \in Int /\ fs[a].free \in Nat
    BY <1>1 DEF Chain, Shape
  <2>4. x < fs[a].base + fs[a].free /\ fs[b].base <= x
    BY <1>2 DEF Inside
  <2>5. PICK e \in Int, f \in Int : f = fs[b].func /\ e = fs[b].base
    BY <2>3
  <2>6. PICK y \in Int : y = fs[a].base + fs[a].free
    BY <2>3
  <2> QED BY <2>2, <2>3, <2>4, <2>5, <2>6
<1>3. j \in d + 1..l /\ k \in d + 1..l
  BY <1>1
<1>4. j < k \/ k < j \/ j = k
  BY <1>1, <1>3
<1> QED BY <1>2, <1>3, <1>4

LEMMA HomeIs ==
    ASSUME NEW d, NEW fs, Chain(d, fs), NEW us, NEW u \in Upvalues, us.var[u].state = "open",
           us.var[u].slot \in Int, NEW k \in d + 1..Len(fs), Inside(fs[k], us.var[u].slot)
    PROVE  HomeOf(us, fs, d)[u] = <<k - d, us.var[u].slot - fs[k].base + 1>>
<1>1. PICK l \in Nat : l = Len(fs) /\ d \in Nat /\ l >= d + 1
  BY ChainEnds
<1>2. PICK x \in Int : x = us.var[u].slot
  OBVIOUS
<1>3. k - d \in 1..l - d /\ k - d + d = k
  BY <1>1
<1>4. k - d \in Owners(fs, d, x)
  BY <1>1, <1>2, <1>3 DEF Owners
<1>5. ASSUME NEW i \in Owners(fs, d, x) PROVE i = k - d
  <2>1. i \in 1..l - d /\ Inside(fs[i + d], x)
    BY <1>1, <1>5 DEF Owners
  <2>2. i + d \in d + 1..l
    BY <2>1, <1>1
  <2>3. i + d = k
    BY <2>1, <2>2, <1>1, <1>2, OneOwner
  <2> QED BY <2>1, <2>3, <1>1
<1>6. (CHOOSE i \in Owners(fs, d, x) : TRUE) = k - d
  <2>1. (CHOOSE i \in Owners(fs, d, x) : TRUE) \in Owners(fs, d, x)
    BY <1>4
  <2> QED BY <2>1, <1>5
<1>7. Owners(fs, d, x) # {}
  BY <1>4
<1>8. HomeOf(us, fs, d)[u] =
         LET i == CHOOSE i \in Owners(fs, d, x) : TRUE IN <<i, x - fs[i + d].base + 1>>
  BY <1>2, <1>7 DEF HomeOf
<1> QED BY <1>2, <1>3, <1>6, <1>8

LEMMA HomeNot ==
    ASSUME NEW d, NEW fs, NEW us, NEW u \in Upvalues, us.var[u].state # "open"
    PROVE  HomeOf(us, fs, d)[u] = <<0, 0>>
BY DEF HomeOf

\* Where the home of a housed variable is.
LEMMA HomeIn ==
    ASSUME NEW d, NEW fs, Chain(d, fs), NEW us, Housed(d, us, fs), UpsShape(us), NEW u \in Upvalues,
           us.var[u].state = "open"
    PROVE  \E k \in d + 1..Len(fs) :
              /\ Holds(fs[k], us.var[u].slot) /\ k - d \in 1..Len(fs) - d
              /\ us.var[u].slot - fs[k].base + 1 \in 1..fs[k].free
              /\ HomeOf(us, fs, d)[u] = <<k - d, us.var[u].slot - fs[k].base + 1>>
<1>1. PICK l \in Nat : l = Len(fs) /\ d \in Nat /\ l >= d + 1
  BY ChainEnds
<1>2. PICK k \in d + 1..l : Holds(fs[k], us.var[u].slot)
  BY <1>1 DEF Housed
<1>3. us.var[u].slot \in Int
  BY DEF UpsShape
<1>4. Inside(fs[k], us.var[u].slot)
  BY <1>2 DEF Holds
<1>5. HomeOf(us, fs, d)[u] = <<k - d, us.var[u].slot - fs[k].base + 1>>
  BY <1>1, <1>3, <1>4, HomeIs
<1>6. PICK x \in Int, b \in Int, f \in Nat : x = us.var[u].slot /\ b = fs[k].base /\ f = fs[k].free
  BY <1>1, <1>3 DEF Chain, Shape
<1>7. x - b + 1 \in 1..f
  BY <1>4, <1>6 DEF Inside
<1>8. k - d \in 1..l - d
  BY <1>1
<1> QED BY <1>1, <1>2, <1>5, <1>6, <1>7, <1>8

\* The same homes, when every variable stays in its window.
LEMMA HomeKept ==
    ASSUME NEW d, NEW fs, NEW gs, Chain(d, fs), Chain(d, gs), NEW us, UpsShape(us),
           \A u \in Upvalues : us.var[u].state = "open" =>
              \E k \in d + 1..Len(fs) : /\ k \in d + 1..Len(gs) /\ gs[k].base = fs[k].base
                                        /\ Holds(fs[k], us.var[u].slot) /\ Holds(gs[k], us.var[u].slot)
    PROVE  Housed(d, us, gs) /\ HomeOf(us, gs, d) = HomeOf(us, fs, d)
<1>1. ASSUME NEW u \in Upvalues PROVE HomeOf(us, gs, d)[u] = HomeOf(us, fs, d)[u]
  <2>1. CASE us.var[u].state # "open"
    BY <2>1, HomeNot
  <2>2. CASE us.var[u].state = "open"
    <3>1. PICK k : /\ k \in d + 1..Len(fs) /\ k \in d + 1..Len(gs) /\ gs[k].base = fs[k].base
                   /\ Holds(fs[k], us.var[u].slot) /\ Holds(gs[k], us.var[u].slot)
      BY <2>2
    <3>2. us.var[u].slot \in Int
      BY DEF UpsShape
    <3>3. Inside(fs[k], us.var[u].slot) /\ Inside(gs[k], us.var[u].slot)
      BY <3>1 DEF Holds
    <3>4. HomeOf(us, fs, d)[u] = <<k - d, us.var[u].slot - fs[k].base + 1>>
      BY <2>2, <3>1, <3>2, <3>3, HomeIs
    <3>5. HomeOf(us, gs, d)[u] = <<k - d, us.var[u].slot - gs[k].base + 1>>
      BY <2>2, <3>1, <3>2, <3>3, HomeIs
    <3> QED BY <3>1, <3>4, <3>5
  <2> QED BY <2>1, <2>2
<1>2. HomeOf(us, gs, d) = [u \in Upvalues |-> HomeOf(us, gs, d)[u]]
  BY DEF HomeOf
<1>3. HomeOf(us, fs, d) = [u \in Upvalues |-> HomeOf(us, fs, d)[u]]
  BY DEF HomeOf
<1>4. HomeOf(us, gs, d) = HomeOf(us, fs, d)
  <2>1. PICK g, h : g = HomeOf(us, gs, d) /\ h = HomeOf(us, fs, d)
    OBVIOUS
  <2> QED BY <1>1, <1>2, <1>3, <2>1
<1>5. Housed(d, us, gs)
  <2>1. ASSUME NEW u \in Upvalues, us.var[u].state = "open"
        PROVE  \E k \in d + 1..Len(gs) : Holds(gs[k], us.var[u].slot)
    BY <2>1
  <2> QED BY <2>1 DEF Housed
<1> QED BY <1>4, <1>5

\* The last frame goes on, still holding its captured registers.
LEMMA HousedLast ==
    ASSUME NEW d, NEW fs, NEW gs, Chain(d, fs), Chain(d, gs), NEW us, UpsShape(us), Housed(d, us, fs),
           NEW l, l = Len(fs), Len(gs) = l, \A k \in 1..l - 1 : gs[k] = fs[k],
           gs[l].base = fs[l].base, gs[l].proto = fs[l].proto,
           gs[l].proto # Nil => \A r \in Held[gs[l].proto][fs[l].pc] :
                r \in 1..fs[l].free => r <= gs[l].free /\ r \in Held[gs[l].proto][gs[l].pc]
    PROVE  Housed(d, us, gs) /\ HomeOf(us, gs, d) = HomeOf(us, fs, d)
<1>1. PICK n \in Nat : n = Len(fs) /\ d \in Nat /\ n >= d + 1 /\ n \in d + 1..n
  BY ChainEnds
<1>2. ASSUME NEW u \in Upvalues, us.var[u].state = "open"
      PROVE  \E k \in d + 1..Len(fs) : /\ k \in d + 1..Len(gs) /\ gs[k].base = fs[k].base
                                       /\ Holds(fs[k], us.var[u].slot) /\ Holds(gs[k], us.var[u].slot)
  <2>1. PICK k \in d + 1..n : Holds(fs[k], us.var[u].slot) /\ us.var[u].slot - fs[k].base + 1 \in 1..fs[k].free
    BY <1>1, <1>2, HomeIn
  <2>2. CASE k = n
    <3>1. PICK f, g : f = fs[k] /\ g = gs[k]
      OBVIOUS
    <3>2. g.base = f.base /\ g.proto = f.proto
          /\ (g.proto # Nil => \A r \in Held[g.proto][f.pc] :
                r \in 1..f.free => r <= g.free /\ r \in Held[g.proto][g.pc])
      BY <1>1, <2>2, <3>1
    <3>3. PICK x \in Int, b \in Int : x = us.var[u].slot /\ b = f.base
      BY <3>1, <1>1, <2>1 DEF Chain, Shape, UpsShape
    <3>4. f.proto # Nil /\ b <= x /\ x - b + 1 \in Held[f.proto][f.pc] /\ x - b + 1 \in 1..f.free
      BY <2>1, <3>1, <3>3 DEF Holds, Inside
    <3>5. x - b + 1 <= g.free /\ x - b + 1 \in Held[g.proto][g.pc]
      BY <3>2, <3>4
    <3>6. g.free \in Nat
      BY <1>1, <2>2, <3>1 DEF Chain, Shape
    <3>7. x < b + g.free
      BY <3>5, <3>6
    <3>8. Holds(g, x)
      BY <3>2, <3>3, <3>4, <3>5, <3>7 DEF Holds, Inside
    <3> QED BY <1>1, <2>1, <2>2, <3>1, <3>2, <3>3, <3>8
  <2>3. CASE k # n
    <3>1. k \in 1..n - 1
      BY <2>3, <1>1
    <3>2. gs[k] = fs[k]
      BY <3>1, <1>1
    <3> QED BY <1>1, <2>1, <3>2
  <2> QED BY <2>2, <2>3
<1> QED BY <1>2, HomeKept

\* A frame is pushed, or frames are popped that hold nothing.
LEMMA HousedPart ==
    ASSUME NEW d, NEW fs, NEW gs, Chain(d, fs), Chain(d, gs), NEW us, UpsShape(us), Housed(d, us, fs),
           NEW n \in Nat, n <= Len(fs), n <= Len(gs), \A k \in d + 1..n : gs[k] = fs[k],
           n < Len(fs) => \A u \in Upvalues : us.var[u].state = "open" => us.var[u].slot < fs[n + 1].base,
           n >= d
    PROVE  Housed(d, us, gs) /\ HomeOf(us, gs, d) = HomeOf(us, fs, d)
<1>1. PICK l \in Nat : l = Len(fs) /\ d \in Nat /\ l >= d + 1
  BY ChainEnds
<1>2. ASSUME NEW u \in Upvalues, us.var[u].state = "open"
      PROVE  \E k \in d + 1..Len(fs) : /\ k \in d + 1..Len(gs) /\ gs[k].base = fs[k].base
                                       /\ Holds(fs[k], us.var[u].slot) /\ Holds(gs[k], us.var[u].slot)
  <2>1. PICK k \in d + 1..l : Holds(fs[k], us.var[u].slot)
    BY <1>1, <1>2 DEF Housed
  <2>2. ASSUME k > n PROVE FALSE
    <3>1. n + 1 \in d + 1..l /\ n < l
      BY <1>1, <2>2
    <3>2. PICK x \in Int, b \in Int, o \in Int : x = us.var[u].slot /\ b = fs[n + 1].base /\ o = fs[k].base
      BY <3>1, <1>1, <2>1 DEF Chain, Shape, UpsShape
    <3>3. x < b /\ o <= x
      BY <1>1, <1>2, <2>1, <3>1, <3>2 DEF Holds, Inside
    <3>4. b <= o
      <4>1. CASE k = n + 1
        BY <3>2, <4>1
      <4>2. CASE k # n + 1
        <5>1. k \in d + 2..l /\ n + 1 \in d + 1..k - 1
          BY <4>2, <2>2, <3>1, <1>1
        <5>2. fs[n + 1].base + fs[n + 1].free <= fs[k].func
          BY <5>1, <1>1 DEF Chain, Ordered
        <5>3. fs[k].func <= fs[k].base /\ fs[k].func \in Int /\ fs[n + 1].free \in Nat
          BY <3>1, <2>1, <1>1 DEF Chain, Shape
        <5>4. PICK g \in Int, r \in Nat : g = fs[k].func /\ r = fs[n + 1].free
          BY <5>3
        <5>5. b + r <= g /\ g <= o
          BY <3>2, <5>2, <5>3, <5>4
        <5> QED BY <5>5
      <4> QED BY <4>1, <4>2
    <3> QED BY <3>3, <3>4
  <2>3. k \in d + 1..n
    BY <2>2, <1>1
  <2>4. gs[k] = fs[k]
    BY <2>3
  <2>5. k \in d + 1..Len(gs)
    <3>1. FramesOK(gs)
      BY DEF Chain, Grounded
    <3>2. PICK e \in Nat : e = Len(gs)
      BY <3>1, FramesList
    <3>3. n <= e
      BY <3>2
    <3>4. k \in d + 1..e
      BY <3>3, <2>3, <1>1
    <3> QED BY <3>2, <3>4
  <2> QED BY <1>1, <2>1, <2>4, <2>5
<1> QED BY <1>2, HomeKept

-----------------------------------------------------------------------------
(* Closing and sharing upvalues. *)

\* What becomes of the upvalue u.
ClosedVar(us, s, level, u) ==
    IF us.var[u].state = "open" /\ us.var[u].slot >= level
    THEN [state |-> "closed", slot |-> 0, val |-> Slot(s, us.var[u].slot)]
    ELSE us.var[u]

LEMMA ClosedIs ==
    ASSUME NEW us, UpsOK(us), NEW s, NEW level \in Int, NEW u \in Upvalues
    PROVE  Closed(us, s, level).var[u] = ClosedVar(us, s, level, u)
<1>m. PICK m \in Nat : /\ m = Len(us.open)
                       /\ \A i : i \in DOMAIN us.open <=> i \in 1..m
                       /\ \A i \in 1..m : /\ us.open[i] \in Upvalues
                                          /\ us.var[us.open[i]].slot \in Int
  BY OpenFields DEF UpsOK
<1>n. PICK n : n = Cut(us, level)
  OBVIOUS
<1>1. /\ n \in 0..m /\ \A i \in 1..n : us.var[us.open[i]].slot >= level
      /\ n < m => us.var[us.open[n + 1]].slot < level
  BY <1>m, <1>n, CutStops DEF UpsOK
<1>2. Closed(us, s, level).var[u] =
         IF \E i \in 1..n : us.open[i] = u
         THEN [state |-> "closed", slot |-> 0, val |-> Slot(s, us.var[u].slot)]
         ELSE us.var[u]
  BY <1>n DEF Closed, Cut
<1>3. ASSUME NEW i \in 1..n, us.open[i] = u PROVE us.var[u].state = "open" /\ us.var[u].slot >= level
  <2>1. i \in DOMAIN us.open
    BY <1>1, <1>m
  <2> QED BY <1>1, <1>3, <2>1 DEF UpsOK, HoldsOpen
<1>4. ASSUME us.var[u].state = "open", us.var[u].slot >= level PROVE \E i \in 1..n : us.open[i] = u
  <2>1. PICK i \in DOMAIN us.open : us.open[i] = u
    BY <1>4 DEF UpsOK, HoldsOpen
  <2>2. i \in 1..m
    BY <2>1, <1>m
  <2>3. ASSUME i > n PROVE FALSE
    <3>1. n + 1 \in 1..m /\ n < m
      BY <2>2, <2>3, <1>1
    <3>2. us.var[us.open[n + 1]].slot < level
      BY <3>1, <1>1
    <3>3. CASE i = n + 1
      BY <3>2, <3>3, <2>1, <1>4, <1>m, <3>1
    <3>4. CASE i # n + 1
      <4>1. n + 1 < i /\ n + 1 \in DOMAIN us.open
        BY <3>1, <3>4, <2>2, <2>3, <1>1, <1>m
      <4>2. us.var[us.open[n + 1]].slot > us.var[us.open[i]].slot
        BY <4>1, <2>1 DEF UpsOK, Descending
      <4>3. us.var[us.open[n + 1]].slot \in Int /\ us.var[us.open[i]].slot \in Int
        BY <3>1, <2>2, <1>m
      <4> QED BY <3>2, <4>2, <4>3, <2>1, <1>4
    <3> QED BY <3>3, <3>4
  <2>4. i \in 1..n
    BY <2>2, <2>3, <1>1
  <2> QED BY <2>1, <2>4
<1> QED BY <1>2, <1>3, <1>4 DEF ClosedVar

\* No two open upvalues have the same slot.
LEMMA SlotOnce ==
    ASSUME NEW us, UpsOK(us), NEW u \in Upvalues, NEW v \in Upvalues, us.var[u].state = "open",
           us.var[v].state = "open", us.var[u].slot = us.var[v].slot
    PROVE  u = v
<1>m. PICK m \in Nat : \A i : i \in DOMAIN us.open <=> i \in 1..m
  BY OpenFields DEF UpsOK
<1>1. PICK i \in DOMAIN us.open, j \in DOMAIN us.open : us.open[i] = u /\ us.open[j] = v
  BY DEF UpsOK, HoldsOpen
<1>2. us.var[u].slot \in Int
  BY DEF UpsOK, UpsShape
<1>3. ~ i < j /\ ~ j < i
  BY <1>1, <1>2 DEF UpsOK, Descending
<1>4. i = j
  BY <1>m, <1>1, <1>3
<1> QED BY <1>1, <1>4

\* The search of the list finds every open upvalue.
LEMMA SharedIs ==
    ASSUME NEW us, UpsOK(us), NEW k \in Int
    PROVE  Shared(us, k) <=> \E u \in Upvalues : us.var[u].state = "open" /\ us.var[u].slot = k
<1>m. PICK m \in Nat : /\ \A i : i \in DOMAIN us.open <=> i \in 1..m
                       /\ \A i \in 1..m : /\ us.open[i] \in Upvalues
                                          /\ us.var[us.open[i]].slot \in Int
  BY OpenFields DEF UpsOK
<1>1. ASSUME Shared(us, k)
      PROVE  \E u \in Upvalues : us.var[u].state = "open" /\ us.var[u].slot = k
  <2>1. PICK i \in DOMAIN us.open : us.var[us.open[i]].slot = k
    BY <1>1 DEF Shared
  <2>2. us.open[i] \in Upvalues
    BY <2>1, <1>m
  <2>3. us.var[us.open[i]].state = "open"
    BY <2>1, <2>2 DEF UpsOK, HoldsOpen
  <2> QED BY <2>1, <2>2, <2>3
<1>2. ASSUME NEW u \in Upvalues, us.var[u].state = "open", us.var[u].slot = k
      PROVE  Shared(us, k)
  <2>1. PICK i \in DOMAIN us.open : us.open[i] = u
    BY <1>2 DEF UpsOK, HoldsOpen
  <2>2. ASSUME NEW j \in 1..i - 1 PROVE us.var[us.open[j]].slot > k
    <3>1. i \in 1..m
      BY <2>1, <1>m
    <3>2. j \in 1..m /\ j < i
      BY <3>1
    <3>3. j \in DOMAIN us.open
      BY <3>2, <1>m
    <3>4. us.var[us.open[j]].slot > us.var[us.open[i]].slot
      BY <2>1, <3>2, <3>3 DEF UpsOK, Descending
    <3> QED BY <2>1, <1>2, <3>4
  <2> QED BY <2>1, <2>2, <1>2 DEF Shared
<1> QED BY <1>1, <1>2

LEMMA CellSame ==
    ASSUME NEW s, NEW t, NEW us,
           \A u \in Upvalues : us.var[u].state = "open" => Slot(t, us.var[u].slot) = Slot(s, us.var[u].slot)
    PROVE  CellOf(t, us) = CellOf(s, us)
BY DEF CellOf

\* Closing keeps what the variables hold, and which there are.
LEMMA CellClosed ==
    ASSUME NEW us, UpsOK(us), NEW s, NEW level \in Int
    PROVE  CellOf(s, Closed(us, s, level)) = CellOf(s, us) /\ UsedOf(Closed(us, s, level)) = UsedOf(us)
<1>1. PICK c : c = Closed(us, s, level)
  OBVIOUS
<1>2. ASSUME NEW u \in Upvalues
      PROVE  /\ (IF c.var[u].state = "open" THEN Slot(s, c.var[u].slot) ELSE c.var[u].val) =
                (IF us.var[u].state = "open" THEN Slot(s, us.var[u].slot) ELSE us.var[u].val)
             /\ c.var[u].state # "unused" <=> us.var[u].state # "unused"
  <2>1. c.var[u] = IF us.var[u].state = "open" /\ us.var[u].slot >= level
                   THEN [state |-> "closed", slot |-> 0, val |-> Slot(s, us.var[u].slot)]
                   ELSE us.var[u]
    BY <1>1, ClosedIs DEF ClosedVar
  <2>2. CASE us.var[u].state = "open" /\ us.var[u].slot >= level
    <3>1. c.var[u] = [state |-> "closed", slot |-> 0, val |-> Slot(s, us.var[u].slot)]
      BY <2>1, <2>2
    <3>2. c.var[u].state = "closed" /\ c.var[u].val = Slot(s, us.var[u].slot)
      BY <3>1
    <3> QED BY <2>2, <3>2
  <2>3. CASE ~ (us.var[u].state = "open" /\ us.var[u].slot >= level)
    <3>1. c.var[u] = us.var[u]
      BY <2>1, <2>3
    <3> QED BY <3>1
  <2> QED BY <2>2, <2>3
<1>3. CellOf(s, c) = CellOf(s, us)
  BY <1>2 DEF CellOf
<1>4. UsedOf(c) = UsedOf(us)
  BY <1>2 DEF UsedOf
<1> QED BY <1>1, <1>3, <1>4

\* What Forget does to the homes h.
Forgotten(h, i, n) ==
    [u \in Upvalues |-> IF h[u][1] > i \/ (h[u][1] = i /\ h[u][2] > n) THEN <<0, 0>> ELSE h[u]]

\* c is us closed from register n + 1 of the frame k on.
ClosedFrom(c, us, s, fs, k, n) == c = Closed(us, s, fs[k].base + n)

\* The upvalues that stay open lie below that register.
OpenBelow(c, us, fs, k, n) ==
    \A u \in Upvalues : c.var[u].state = "open" =>
        us.var[u].state = "open" /\ c.var[u].slot = us.var[u].slot
        /\ us.var[u].slot < fs[k].base + n

\* The homes g are h without those from there on.
HomesFrom(g, h, k, d, n) == g = Forgotten(h, k - d, n)

LEMMA HomeForget ==
    ASSUME NEW d \in Nat, NEW fs, Chain(d, fs), NEW us, UpsOK(us), Housed(d, us, fs), NEW s,
           NEW k \in d + 1..Len(fs), NEW n \in Nat, n <= fs[k].free,
           NEW c, ClosedFrom(c, us, s, fs, k, n)
    PROVE  /\ UpsOK(c) /\ Housed(d, c, fs)
           /\ HomesFrom(HomeOf(c, fs, d), HomeOf(us, fs, d), k, d, n)
           /\ OpenBelow(c, us, fs, k, n)
<1>0. c = Closed(us, s, fs[k].base + n)
  BY DEF ClosedFrom
<1>1. PICK l \in Nat : l = Len(fs) /\ d \in Nat /\ l >= d + 1
  BY ChainEnds
<1>2. PICK b \in Int, f \in Int, r \in Nat : b = fs[k].base /\ f = fs[k].func /\ r = fs[k].free /\ f <= b /\ n <= r
  BY <1>1 DEF Chain, Shape
<1>3. PICK level \in Int : level = b + n
  OBVIOUS
<1>4. UpsOK(c)
  BY <1>0, <1>2, <1>3, ClosedKeeps
<1>5. UpsShape(us) /\ UpsShape(c)
  BY <1>4 DEF UpsOK
<1>6. \A u \in Upvalues : c.var[u] =
          IF us.var[u].state = "open" /\ us.var[u].slot >= level
          THEN [state |-> "closed", slot |-> 0, val |-> Slot(s, us.var[u].slot)]
          ELSE us.var[u]
  <2>1. c = Closed(us, s, level)
    BY <1>0, <1>2, <1>3
  <2>2. ASSUME NEW u \in Upvalues
        PROVE  Closed(us, s, level).var[u] = ClosedVar(us, s, level, u)
    BY ClosedIs
  <2> QED BY <2>1, <2>2 DEF ClosedVar
<1>7. ASSUME NEW u \in Upvalues
      PROVE  /\ c.var[u].state = "open" <=> (us.var[u].state = "open" /\ us.var[u].slot < level)
             /\ c.var[u].state = "open" => c.var[u].slot = us.var[u].slot
  <2>1. PICK x \in Int : x = us.var[u].slot
    BY <1>5 DEF UpsShape
  <2>2. CASE us.var[u].state = "open" /\ x >= level
    <3>1. c.var[u] = [state |-> "closed", slot |-> 0, val |-> Slot(s, us.var[u].slot)]
      BY <1>6, <2>1, <2>2
    <3>2. c.var[u].state = "closed"
      BY <3>1
    <3> QED BY <2>1, <2>2, <3>2
  <2>3. CASE us.var[u].state = "open" /\ x < level
    <3>1. ~ x >= level
      BY <2>3
    <3>2. c.var[u] = us.var[u]
      BY <1>6, <2>1, <3>1
    <3> QED BY <2>1, <2>3, <3>2
  <2>4. CASE us.var[u].state # "open"
    BY <1>6, <2>4
  <2> QED BY <2>2, <2>3, <2>4
<1>8. Housed(d, c, fs)
  BY <1>7 DEF Housed
<1>9. ASSUME NEW u \in Upvalues
      PROVE  HomeOf(c, fs, d)[u] = Forgotten(HomeOf(us, fs, d), k - d, n)[u]
  <2>1. PICK h : h = HomeOf(us, fs, d)
    OBVIOUS
  <2>2. Forgotten(h, k - d, n)[u] =
           IF h[u][1] > k - d \/ (h[u][1] = k - d /\ h[u][2] > n) THEN <<0, 0>> ELSE h[u]
    BY DEF Forgotten
  <2>3. CASE us.var[u].state # "open"
    <3>1. h[u] = <<0, 0>> /\ HomeOf(c, fs, d)[u] = <<0, 0>>
      BY <2>1, <2>3, <1>7, HomeNot
    <3> QED BY <2>1, <2>2, <3>1
  <2>4. CASE us.var[u].state = "open"
    <3>1. PICK j \in d + 1..l : /\ Holds(fs[j], us.var[u].slot)
                                /\ us.var[u].slot - fs[j].base + 1 \in 1..fs[j].free
                                /\ h[u] = <<j - d, us.var[u].slot - fs[j].base + 1>>
      BY <2>1, <2>4, <1>1, <1>5, HomeIn, SMTT(30)
    <3>2. PICK x \in Int, bj \in Int, rj \in Nat, fj \in Int :
             x = us.var[u].slot /\ bj = fs[j].base /\ rj = fs[j].free /\ fj = fs[j].func /\ fj <= bj
      BY <1>1, <1>5 DEF Chain, Shape, UpsShape
    <3>3. bj <= x /\ x < bj + rj
      BY <3>1, <3>2 DEF Holds, Inside
    <3>4. h[u][1] = j - d /\ h[u][2] = x - bj + 1
      BY <3>1, <3>2
    <3>5. x < level <=> ~ (j - d > k - d \/ (j - d = k - d /\ x - bj + 1 > n))
      <4>1. CASE j < k
        <5>1. k \in d + 2..l /\ j \in d + 1..k - 1
          BY <4>1, <1>1
        <5>2. bj + rj <= f
          BY <5>1, <3>2, <1>1, <1>2 DEF Chain, Ordered
        <5>3. x < level
          BY <5>2, <3>3, <1>2, <1>3
        <5> QED BY <4>1, <5>3, <1>1
      <4>2. CASE j = k
        <5>1. bj = b
          BY <4>2, <3>2, <1>2
        <5>2. x < level <=> ~ x - bj + 1 > n
          BY <5>1, <1>3
        <5> QED BY <4>2, <5>2, <1>1
      <4>3. CASE j > k
        <5>1. j \in d + 2..l /\ k \in d + 1..j - 1
          BY <4>3, <1>1
        <5>2. b + r <= fj
          BY <5>1, <3>2, <1>1, <1>2 DEF Chain, Ordered
        <5>3. fj <= bj /\ bj <= x /\ n <= r
          BY <3>2, <3>3, <1>2
        <5>4. b + n <= x
          BY <5>2, <5>3
        <5>5. ~ x < level
          BY <5>4, <1>3
        <5> QED BY <4>3, <5>5, <1>1
      <4> QED BY <4>1, <4>2, <4>3, <1>1
    <3>6. CASE x < level
      <4>1. c.var[u].state = "open" /\ c.var[u].slot = x
        BY <2>4, <3>2, <3>6, <1>7
      <4>2. HomeOf(c, fs, d)[u] = <<j - d, x - bj + 1>>
        <5>1. Inside(fs[j], c.var[u].slot) /\ c.var[u].slot \in Int
          BY <3>1, <3>2, <4>1 DEF Holds
        <5>3. j \in d + 1..Len(fs) /\ c.var[u].state = "open"
          BY <4>1, <1>1
        <5>2. HomeOf(c, fs, d)[u] = <<j - d, c.var[u].slot - fs[j].base + 1>>
          BY <5>1, <5>3, HomeIs
        <5> QED BY <4>1, <5>2, <3>2
      <4>3. Forgotten(h, k - d, n)[u] = h[u]
        BY <2>2, <3>4, <3>5, <3>6
      <4> QED BY <2>1, <3>1, <3>2, <4>2, <4>3
    <3>7. CASE ~ x < level
      <4>1. c.var[u].state # "open"
        BY <3>2, <3>7, <1>7
      <4>2. HomeOf(c, fs, d)[u] = <<0, 0>>
        BY <4>1, HomeNot
      <4>3. Forgotten(h, k - d, n)[u] = <<0, 0>>
        BY <2>2, <3>4, <3>5, <3>7
      <4> QED BY <2>1, <4>2, <4>3
    <3> QED BY <3>6, <3>7
  <2> QED BY <2>3, <2>4
<1>10. HomeOf(c, fs, d) = Forgotten(HomeOf(us, fs, d), k - d, n)
  <2>1. PICK g, h : g = HomeOf(c, fs, d) /\ h = Forgotten(HomeOf(us, fs, d), k - d, n)
    OBVIOUS
  <2>2. g = [u \in Upvalues |-> g[u]]
    <3>1. HomeOf(c, fs, d) = [u \in Upvalues |-> HomeOf(c, fs, d)[u]]
      BY DEF HomeOf
    <3> QED BY <2>1, <3>1
  <2>3. h = [u \in Upvalues |-> h[u]]
    BY <2>1 DEF Forgotten
  <2> QED BY <1>9, <2>1, <2>2, <2>3
<1>11. OpenBelow(c, us, fs, k, n)
  BY <1>2, <1>3, <1>7 DEF OpenBelow
<1>12. HomesFrom(HomeOf(c, fs, d), HomeOf(us, fs, d), k, d, n)
  BY <1>10 DEF HomesFrom
<1> QED BY <1>4, <1>8, <1>12, <1>11

\* The variables of an activation, then those of the ones below it as well.
LEMMA ForgetTwice ==
    ASSUME NEW h, \A u \in Upvalues : h[u] = <<0, 0>> \/ (\E i \in Nat, r \in Nat : h[u] = <<i, r>> /\ i >= 1 /\ r >= 1),
           NEW i \in Nat, NEW j \in Nat, j <= i, j >= 1
    PROVE  Forgotten(Forgotten(h, i, 0), j, 0) = Forgotten(h, j, 0)
<1>1. ASSUME NEW u \in Upvalues
      PROVE  Forgotten(Forgotten(h, i, 0), j, 0)[u] = Forgotten(h, j, 0)[u]
  <2>1. PICK g : g = Forgotten(h, i, 0)
    OBVIOUS
  <2>2. g[u] = IF h[u][1] > i \/ (h[u][1] = i /\ h[u][2] > 0) THEN <<0, 0>> ELSE h[u]
    BY <2>1 DEF Forgotten
  <2>3. Forgotten(g, j, 0)[u] = IF g[u][1] > j \/ (g[u][1] = j /\ g[u][2] > 0) THEN <<0, 0>> ELSE g[u]
    BY DEF Forgotten
  <2>4. Forgotten(h, j, 0)[u] = IF h[u][1] > j \/ (h[u][1] = j /\ h[u][2] > 0) THEN <<0, 0>> ELSE h[u]
    BY DEF Forgotten
  <2>5. CASE h[u] = <<0, 0>>
    BY <2>1, <2>2, <2>3, <2>4, <2>5
  <2>6. CASE h[u] # <<0, 0>>
    <3>1. PICK a \in Nat, r \in Nat : h[u] = <<a, r>> /\ a >= 1 /\ r >= 1
      BY <2>6
    <3>2. h[u][1] = a /\ h[u][2] = r
      BY <3>1
    <3>3. CASE a >= i
      <4>1. g[u] = <<0, 0>>
        BY <2>2, <3>1, <3>2, <3>3
      <4>2. Forgotten(g, j, 0)[u] = <<0, 0>>
        BY <2>3, <4>1
      <4>3. a >= j
        BY <3>3
      <4>4. Forgotten(h, j, 0)[u] = <<0, 0>>
        BY <2>4, <3>1, <3>2, <4>3
      <4> QED BY <2>1, <4>2, <4>4
    <3>4. CASE ~ a >= i
      <4>1. g[u] = h[u]
        BY <2>2, <3>2, <3>4
      <4> QED BY <2>1, <2>3, <2>4, <4>1
    <3> QED BY <3>3, <3>4
  <2> QED BY <2>5, <2>6
<1>2. PICK a, b : a = Forgotten(Forgotten(h, i, 0), j, 0) /\ b = Forgotten(h, j, 0)
  OBVIOUS
<1>3. a = [u \in Upvalues |-> a[u]] /\ b = [u \in Upvalues |-> b[u]]
  BY <1>2 DEF Forgotten
<1> QED BY <1>1, <1>2, <1>3

\* The homes that frames in progress give.
LEMMA HomesAre ==
    ASSUME NEW d, NEW fs, Chain(d, fs), NEW us, Housed(d, us, fs), UpsShape(us), NEW u \in Upvalues
    PROVE  LET h == HomeOf(us, fs, d)[u]
           IN  h = <<0, 0>> \/ (\E i \in Nat, r \in Nat : h = <<i, r>> /\ i >= 1 /\ r >= 1)
<1>1. PICK l \in Nat : l = Len(fs) /\ d \in Nat /\ l >= d + 1
  BY ChainEnds
<1>2. CASE us.var[u].state # "open"
  BY <1>2, HomeNot
<1>3. CASE us.var[u].state = "open"
  <2>1. PICK k \in d + 1..l : /\ k - d \in 1..l - d
                              /\ us.var[u].slot - fs[k].base + 1 \in 1..fs[k].free
                              /\ HomeOf(us, fs, d)[u] = <<k - d, us.var[u].slot - fs[k].base + 1>>
    BY <1>1, <1>3, HomeIn
  <2>2. fs[k].free \in Nat
    BY <1>1 DEF Chain, Shape
  <2>3. PICK i, r : i = k - d /\ r = us.var[u].slot - fs[k].base + 1
    OBVIOUS
  <2>4. i \in Nat /\ i >= 1
    BY <2>1, <2>3, <1>1
  <2>5. r \in Nat /\ r >= 1
    BY <2>1, <2>2, <2>3
  <2> QED BY <2>1, <2>3, <2>4, <2>5
<1> QED BY <1>2, <1>3

LEMMA ForgetAll ==
    ASSUME NEW h, \A u \in Upvalues : h[u] = <<0, 0>> \/ (\E i \in Nat, r \in Nat : h[u] = <<i, r>> /\ i >= 1 /\ r >= 1)
    PROVE  Forgotten(h, 1, 0) = [u \in Upvalues |-> <<0, 0>>]
<1>1. ASSUME NEW u \in Upvalues PROVE Forgotten(h, 1, 0)[u] = <<0, 0>>
  <2>1. Forgotten(h, 1, 0)[u] = IF h[u][1] > 1 \/ (h[u][1] = 1 /\ h[u][2] > 0) THEN <<0, 0>> ELSE h[u]
    BY DEF Forgotten
  <2>2. CASE h[u] = <<0, 0>>
    BY <2>1, <2>2
  <2>3. CASE h[u] # <<0, 0>>
    <3>1. PICK i \in Nat, r \in Nat : h[u] = <<i, r>> /\ i >= 1 /\ r >= 1
      BY <2>3
    <3>2. h[u][1] = i /\ h[u][2] = r /\ (i > 1 \/ (i = 1 /\ r > 0))
      BY <3>1
    <3> QED BY <2>1, <3>2
  <2> QED BY <2>2, <2>3
<1>2. PICK a : a = Forgotten(h, 1, 0)
  OBVIOUS
<1>3. a = [u \in Upvalues |-> a[u]]
  BY <1>2 DEF Forgotten
<1> QED BY <1>1, <1>2, <1>3

-----------------------------------------------------------------------------
(* The states of a thread. *)

\* The open list at the end of the last frame.
OpenListAt(st, s, fs, t) ==
    LET c == fs[Len(fs)]
    IN  IF st = "run" /\ (c.proto # Nil => Consumes(c.proto, c.pc))
        THEN W(s, c.base + c.free, t - c.base - c.free) ELSE <<>>

\* The last frame is where the compiler expects it; a protected call has its
\* results above its own slot.
RunsAt(fs, t) ==
    LET c == fs[Len(fs)]
    IN  /\ c.proto # Nil => /\ c.free = Live[c.proto][c.pc]
                            /\ Consumes(c.proto, c.pc) => t >= c.base + c.free
        /\ c.proto = Nil => t >= c.base

YieldsAt(fs, p) ==
    LET c == fs[Len(fs)]
        i == Code[c.proto][c.pc]
    IN  /\ c.proto # Nil /\ WaitsIn(c) /\ i.op # "TFORLOOP"
        /\ p = [base |-> c.base + c.free, want |-> Takes(i)]

\* Every call waits where the compiler expects it, and every open upvalue has a
\* register that may be captured.
Progress(d, st, us, fs, t, p) ==
    /\ Chain(d, fs) /\ Housed(d, us, fs)
    /\ st = "run" => RunsAt(fs, t)
    /\ st = "error" => fs[Len(fs)].proto = Nil
    /\ st = "yield" => YieldsAt(fs, p)

Rest(d, st, us) ==
    /\ \A u \in Upvalues : us.var[u].state = "open" => us.var[u].slot >= 1
    /\ st = "done" \/ d = 0 => \A u \in Upvalues : us.var[u].state # "open"

Calling ==
    IF Over(status) THEN Rest(Below, status, ups)
    ELSE Progress(Below, status, ups, frames, top, pending)

LEMMA CellsAre == Contents = CellOf(stack, ups) /\ Used = UsedOf(ups)
BY DEF Contents, Content, CellOf, Used, UsedOf

LEMMA SeenActs ==
    ASSUME StackInvariant, Calling, ~ Over(status)
    PROVE  Activated = ActsOf(stack, frames, Below, OpenListAt(status, stack, frames, top))
<1>1. PICK l \in Nat : l = Len(frames) /\ Below \in Nat /\ l >= Below + 1 /\ l \in 1..l
  BY ChainEnds DEF Calling, Progress
<1>2. PICK d \in Nat : d = Below
  BY <1>1
<1>3. Chain(d, frames) /\ FramesOK(frames) /\ stack \in Seq(Value) /\ FramesIn(frames, Len(stack))
  BY <1>2 DEF Calling, Progress, Chain, Grounded, StackInvariant, Body
<1>4. PICK m : m = OpenListAt(status, stack, frames, top)
  OBVIOUS
<1>5. ASSUME NEW k \in d + 1..l
      PROVE  Seen(k) = View(stack, frames[k], IF k = l THEN m ELSE <<>>)
  <2>1. PICK fr : fr = frames[k]
    OBVIOUS
  <2>2. fr.base \in Int /\ fr.base >= 1 /\ fr.free \in Nat
    <3>1. k \in 1..l
      BY <1>1, <1>2
    <3>2. fr.base \in 1..Len(stack) + 1
      BY <1>1, <1>3, <2>1, <3>1 DEF FramesIn, FrameIn
    <3>3. fr.free \in Nat
      BY <1>1, <1>3, <2>1 DEF Chain, Shape
    <3> QED BY <3>2, <3>3
  <2>3. Window(stack, fr.base, fr.free) = W(stack, fr.base, fr.free)
    BY <1>3, <2>2, WindowIs
  <2>4. top - fr.base - fr.free \in Int /\ fr.base + fr.free \in Int /\ fr.base + fr.free >= 1
    BY <2>2 DEF StackInvariant, Body
  <2>5. Window(stack, fr.base + fr.free, top - fr.base - fr.free)
           = W(stack, fr.base + fr.free, top - fr.base - fr.free)
    BY <1>3, <2>4, WindowIs
  <2>6. PICK open : open = (/\ k = Len(frames) /\ status = "run"
                            /\ fr.proto # Nil => Consumes(fr.proto, fr.pc))
    OBVIOUS
  <2>7. Seen(k) = [proto |-> fr.proto, pc |-> fr.pc, regs |-> W(stack, fr.base, fr.free),
                   more |-> IF open THEN W(stack, fr.base + fr.free, top - fr.base - fr.free)
                            ELSE <<>>,
                   varargs |-> fr.varargs]
    BY <2>1, <2>3, <2>5, <2>6 DEF Seen
  <2>8. (IF open THEN W(stack, fr.base + fr.free, top - fr.base - fr.free) ELSE <<>>)
           = IF k = l THEN m ELSE <<>>
    <3>1. CASE k = l
      <4>1. m = IF status = "run" /\ (fr.proto # Nil => Consumes(fr.proto, fr.pc))
                THEN W(stack, fr.base + fr.free, top - fr.base - fr.free) ELSE <<>>
        BY <1>1, <1>4, <2>1, <3>1 DEF OpenListAt
      <4> QED BY <1>1, <2>6, <3>1, <4>1
    <3>2. CASE k # l
      BY <1>1, <2>6, <3>2
    <3> QED BY <3>1, <3>2
  <2> QED BY <2>1, <2>7, <2>8 DEF View
<1>6. Height = l - d
  BY <1>1, <1>2 DEF Height, Over
<1>7. PICK g : g = [k \in DOMAIN frames |-> Seen(k)]
  OBVIOUS
<1>8. DOMAIN frames = 1..l
  BY <1>1, <1>3, FramesList
<1>9. \A i \in d + 1..d + Height : i \in 1..l
  BY <1>1, <1>2, <1>6
<1>10. \A i \in d + 1..d + Height : g[i] \in {g[j] : j \in 1..l}
  BY <1>9
<1>11. PICK a : a = SubSeq(g, d + 1, d + Height)
  OBVIOUS
<1>12. d + 1 \in Int /\ d + Height \in Int
  BY <1>1, <1>2, <1>6
<1>14. PICK h \in Nat : h = l - d /\ h >= 1
  <2>1. l - d \in Nat /\ l - d >= 1
    BY <1>1, <1>2
  <2> QED BY <2>1
<1>13. PICK b \in Int, e \in Int : b = d + 1 /\ e = d + Height
  BY <1>12
<1>15. e - b + 1 = h /\ b <= e
  BY <1>6, <1>13, <1>14
<1>16. a \in Seq({g[j] : j \in 1..l}) /\ Len(a) = h /\ \A i \in 1..h : a[i] = g[b + i - 1]
  <2>1. a = SubSeq(g, b, e)
    BY <1>11, <1>13
  <2>2. \A i \in b..e : g[i] \in {g[j] : j \in 1..l}
    BY <1>10, <1>13
  <2>3. /\ SubSeq(g, b, e) \in Seq({g[j] : j \in 1..l})
        /\ Len(SubSeq(g, b, e)) = IF b <= e THEN e - b + 1 ELSE 0
        /\ \A i \in 1..e - b + 1 : SubSeq(g, b, e)[i] = g[b + i - 1]
    BY <2>2, SubSeqProperties
  <2> QED BY <1>15, <2>1, <2>3
<1>17. \A i \in 1..h : a[i] = View(stack, frames[i + d], IF i + d = l THEN m ELSE <<>>)
  <2>1. ASSUME NEW i \in 1..h PROVE a[i] = View(stack, frames[i + d], IF i + d = l THEN m ELSE <<>>)
    <3>1. b + i - 1 = i + d /\ i + d \in d + 1..l /\ i + d \in 1..l
      BY <1>13, <1>14
    <3>2. a[i] = g[i + d]
      BY <1>16, <3>1
    <3>3. g[i + d] = Seen(i + d)
      BY <1>7, <1>8, <3>1
    <3> QED BY <1>5, <3>1, <3>2, <3>3
  <2> QED BY <2>1
<1>18. ActsAre(ActsOf(stack, frames, d, m), stack, frames, d, m)
  BY <1>1, <1>2, <1>3, ActsList
<1>19. a = ActsOf(stack, frames, d, m)
  <2>1. PICK o : o = ActsOf(stack, frames, d, m)
    OBVIOUS
  <2>2. /\ \E T : o \in Seq(T)
        /\ Len(o) = h
        /\ \A i \in 1..h : o[i] = View(stack, frames[i + d], IF i + d = l THEN m ELSE <<>>)
    BY <1>1, <1>14, <1>18, <2>1 DEF ActsAre
  <2>3. (\E T : a \in Seq(T)) /\ Len(a) = Len(o) /\ \A i \in 1..Len(a) : a[i] = o[i]
    BY <1>16, <1>17, <2>2
  <2> QED BY <2>1, <2>2, <2>3, SameActs
<1> QED BY <1>2, <1>4, <1>7, <1>11, <1>19 DEF Activated

LEMMA SeenHomes ==
    ASSUME StackInvariant, Calling, ~ Over(status)
    PROVE  Homes = HomeOf(ups, frames, Below) /\ Final = <<>>
<1>1. PICK l \in Nat : l = Len(frames) /\ Below \in Nat /\ l >= Below + 1
  BY ChainEnds DEF Calling, Progress
<1>2. Height = l - Below /\ Height # 0
  BY <1>1 DEF Height, Over
<1>3. \A x : Owner(x) = Owners(frames, Below, x)
  BY <1>1, <1>2 DEF Owner, Owners, Inside
<1>4. Homes = HomeOf(ups, frames, Below)
  <2>1. ASSUME NEW u \in Upvalues PROVE Homes[u] = HomeOf(ups, frames, Below)[u]
    <3>1. Owner(ups.var[u].slot) = Owners(frames, Below, ups.var[u].slot)
      BY <1>3
    <3>2. Homes[u] = IF ups.var[u].state # "open" THEN <<0, 0>>
                     ELSE IF Owner(ups.var[u].slot) = {} THEN <<-1, -1>>
                     ELSE Place(CHOOSE i \in Owner(ups.var[u].slot) : TRUE, ups.var[u].slot)
      BY <1>2 DEF Homes
    <3>3. HomeOf(ups, frames, Below)[u] =
             IF ups.var[u].state # "open" THEN <<0, 0>>
             ELSE IF Owners(frames, Below, ups.var[u].slot) = {} THEN <<-1, -1>>
             ELSE Place(CHOOSE i \in Owners(frames, Below, ups.var[u].slot) : TRUE, ups.var[u].slot)
      BY DEF HomeOf, Place
    <3> QED BY <3>1, <3>2, <3>3
  <2>2. Homes = [u \in Upvalues |-> Homes[u]]
    BY DEF Homes
  <2>3. HomeOf(ups, frames, Below) = [u \in Upvalues |-> HomeOf(ups, frames, Below)[u]]
    BY DEF HomeOf
  <2>4. PICK a, b : a = Homes /\ b = HomeOf(ups, frames, Below)
    OBVIOUS
  <2> QED BY <2>1, <2>2, <2>3, <2>4
<1> QED BY <1>4 DEF Final, Over

LEMMA SeenOver ==
    ASSUME Over(status)
    PROVE  Activated = <<>> /\ Homes = [u \in Upvalues |-> <<0, 0>>]
<1>1. Height = 0
  BY DEF Height, Over
<1>2. Below \in {0, 1}
  BY DEF Below
<1>3. Activated = <<>>
  <2>1. Below + Height < Below + 1 /\ Below + 1 \in Int /\ Below + Height \in Int
    BY <1>1, <1>2
  <2> QED BY <2>1, SubSeqEmpty DEF Activated
<1> QED BY <1>1, <1>3 DEF Homes

\* After the step the thread goes on with the activations a, the homes h, the
\* contents e and the upvalues n; or it is over with e and n.
Lands(d, a, h, e, n) ==
    /\ ~ Over(status') /\ Progress(d, status', ups', frames', top', pending')
    /\ ActsOf(stack', frames', d, OpenListAt(status', stack', frames', top')) = a
    /\ HomeOf(ups', frames', d) = h /\ CellOf(stack', ups') = e /\ UsedOf(ups') = n

Ends(d, e, n) ==
    /\ Over(status') /\ Rest(d, status', ups')
    /\ CellOf(stack', ups') = e /\ UsedOf(ups') = n

LEMMA Landing ==
    ASSUME StackInvariant', thread' = thread, NEW a, NEW h, NEW e, NEW n, Lands(Below, a, h, e, n)
    PROVE  /\ Calling' /\ Activated' = a /\ Homes' = h /\ Contents' = e /\ Used' = n
           /\ Final' = <<>>
<1>1. Below' = Below
  BY DEF Below
<1>2. ~ Over(status')
  BY DEF Lands
<1>3. Calling'
  BY <1>1, <1>2 DEF Calling, Lands
<1>4. (StackInvariant /\ Calling /\ ~ Over(status) =>
          Activated = ActsOf(stack, frames, Below, OpenListAt(status, stack, frames, top)))'
  BY SeenActs, PTL
<1>5. (StackInvariant /\ Calling /\ ~ Over(status) =>
          Homes = HomeOf(ups, frames, Below) /\ Final = <<>>)'
  BY SeenHomes, PTL
<1>6. (Contents = CellOf(stack, ups) /\ Used = UsedOf(ups))'
  BY CellsAre, PTL
<1>7. Activated' = ActsOf(stack', frames', Below, OpenListAt(status', stack', frames', top'))
  <2>1. Activated' = ActsOf(stack', frames', Below', OpenListAt(status', stack', frames', top'))
    BY <1>2, <1>3, <1>4
  <2> QED BY <1>1, <2>1
<1>8. Homes' = HomeOf(ups', frames', Below) /\ Final' = <<>>
  <2>1. Homes' = HomeOf(ups', frames', Below') /\ Final' = <<>>
    BY <1>2, <1>3, <1>5
  <2> QED BY <1>1, <2>1
<1>9. Contents' = CellOf(stack', ups') /\ Used' = UsedOf(ups')
  BY <1>6
<1> QED BY <1>3, <1>7, <1>8, <1>9 DEF Lands

LEMMA Ending ==
    ASSUME thread' = thread, NEW e, NEW n, Ends(Below, e, n)
    PROVE  /\ Calling' /\ Activated' = <<>> /\ Homes' = [u \in Upvalues |-> <<0, 0>>]
           /\ Contents' = e /\ Used' = n
<1>1. Below' = Below
  BY DEF Below
<1>2. Over(status')
  BY DEF Ends
<1>3. Calling'
  BY <1>1, <1>2 DEF Calling, Ends
<1>4. (Over(status) => Activated = <<>> /\ Homes = [u \in Upvalues |-> <<0, 0>>])'
  BY SeenOver, PTL
<1>5. Activated' = <<>> /\ Homes' = [u \in Upvalues |-> <<0, 0>>]
  BY <1>2, <1>4
<1>6. (Contents = CellOf(stack, ups) /\ Used = UsedOf(ups))'
  BY CellsAre, PTL
<1> QED BY <1>3, <1>5, <1>6 DEF Ends

-----------------------------------------------------------------------------
(* What an instruction finds. *)

Pending == OpenListAt(status, stack, frames, top)

LEMMA Finds ==
    ASSUME StackInvariant, Calling, Compiled(Live, Held), status = "run", cur.proto # Nil
    PROVE  /\ Chain(Below, frames) /\ Housed(Below, ups, frames) /\ Shape(cur)
           /\ cur.proto \in Protos /\ cur.pc \in DOMAIN Code[cur.proto]
           /\ ins = Code[cur.proto][cur.pc] /\ Orderly(Live, Held, cur.proto, cur.pc)
           /\ cur.free = Live[cur.proto][cur.pc] /\ Held[cur.proto][cur.pc] \subseteq 1..cur.free
           /\ Consumes(cur.proto, cur.pc) => top >= cur.base + cur.free
           /\ Pending = IF Consumes(cur.proto, cur.pc)
                        THEN W(stack, cur.base + cur.free, top - cur.base - cur.free) ELSE <<>>
<1>1. Progress(Below, status, ups, frames, top, pending)
  BY DEF Calling, Over
<1>2. PICK l \in Nat : l = Len(frames) /\ Shape(frames[l])
  BY <1>1, ChainEnds DEF Progress
<1>3. Shape(cur) /\ cur = frames[Len(frames)]
  BY <1>2 DEF cur
<1>4. cur.proto \in Protos /\ cur.pc \in DOMAIN Code[cur.proto]
  BY <1>3 DEF Shape
<1>5. ins = Code[cur.proto][cur.pc]
  BY <1>4 DEF ins, InstructionAt
<1>6. RunsAt(frames, top)
  BY <1>1 DEF Progress
<1>7. cur.free = Live[cur.proto][cur.pc] /\ (Consumes(cur.proto, cur.pc) => top >= cur.base + cur.free)
  BY <1>3, <1>6 DEF RunsAt
<1>8. Orderly(Live, Held, cur.proto, cur.pc) /\ Held[cur.proto][cur.pc] \subseteq 1..Live[cur.proto][cur.pc]
  BY <1>4 DEF Compiled
<1>9. Pending = IF Consumes(cur.proto, cur.pc)
                THEN W(stack, cur.base + cur.free, top - cur.base - cur.free) ELSE <<>>
  BY <1>3 DEF Pending, OpenListAt
<1> QED BY <1>1, <1>3, <1>4, <1>5, <1>7, <1>8, <1>9 DEF Progress

\* The same in terms of activations.
LEMMA Sees ==
    ASSUME StackInvariant, Calling, status = "run"
    PROVE  /\ Activated = ActsOf(stack, frames, Below, Pending)
           /\ Lua!depth = Len(frames) - Below
           /\ Lua!cur = View(stack, cur, Pending)
           /\ Lua!cur.proto = cur.proto /\ Lua!cur.pc = cur.pc /\ Lua!regs = W(stack, cur.base, cur.free)
           /\ Lua!cur.more = Pending /\ Lua!cur.varargs = cur.varargs
           /\ Lua!ins = ins
           /\ Homes = HomeOf(ups, frames, Below) /\ Contents = CellOf(stack, ups)
           /\ Used = UsedOf(ups) /\ Final = <<>>
<1>1. ~ Over(status)
  BY DEF Over
<1>2. Activated = ActsOf(stack, frames, Below, Pending)
  BY <1>1, SeenActs DEF Pending
<1>3. Homes = HomeOf(ups, frames, Below) /\ Final = <<>>
  BY <1>1, SeenHomes
<1>4. PICK l \in Nat : l = Len(frames) /\ Below \in Nat /\ l >= Below + 1 /\ l \in Below + 1..l
  BY <1>1, ChainEnds DEF Calling, Progress
<1>5. FramesOK(frames) /\ Below <= Len(frames)
  BY <1>1, <1>4 DEF Calling, Progress, Chain, Grounded
<1>6. PICK d \in Nat : d = Below
  BY <1>4
<1>7. ActsAre(ActsOf(stack, frames, d, Pending), stack, frames, d, Pending)
  BY <1>5, <1>6, ActsList
<1>8. l - d \in 1..l - d /\ l - d + d = l
  BY <1>4, <1>6
<1>9. Len(Activated) = l - d
  BY <1>2, <1>4, <1>6, <1>7 DEF ActsAre
<1>10. Activated[l - d] = View(stack, frames[l], Pending)
  BY <1>2, <1>4, <1>6, <1>7, <1>8 DEF ActsAre
<1>11. Lua!depth = l - d
  BY <1>9 DEF Lua!depth
<1>12. Lua!cur = View(stack, cur, Pending)
  BY <1>4, <1>10, <1>11 DEF Lua!cur, cur
<1>13. /\ Lua!cur.proto = cur.proto /\ Lua!cur.pc = cur.pc /\ Lua!cur.regs = W(stack, cur.base, cur.free)
       /\ Lua!cur.more = Pending /\ Lua!cur.varargs = cur.varargs
  BY <1>12 DEF View
<1>14. Lua!ins = ins
  BY <1>13 DEF Lua!ins, ins, Lua!InstructionAt, InstructionAt, Lua!Instruction, Instruction
<1> QED BY <1>2, <1>3, <1>4, <1>6, <1>11, <1>12, <1>13, <1>14, CellsAre DEF Lua!regs

-----------------------------------------------------------------------------
(* What changes above a slot is seen by no frame below it. *)

Agree(s, t, f) == \A j \in Int : j < f => Slot(t, j) = Slot(s, j)

LEMMA ViewKept ==
    ASSUME NEW s \in Seq(Value), NEW t \in Seq(Value), NEW f \in Int, Agree(s, t, f),
           NEW fr, Shape(fr), fr.base + fr.free <= f, NEW m
    PROVE  View(t, fr, m) = View(s, fr, m)
<1>1. PICK b \in Int, r \in Nat : b = fr.base /\ r = fr.free
  BY DEF Shape
<1>2. \A j \in b..b + r - 1 : j \in Int /\ j < f
  BY <1>1
<1>3. \A j \in b..b + r - 1 : Slot(s, j) = Slot(t, j)
  BY <1>2 DEF Agree
<1>4. W(s, b, r) = W(t, b, r)
  BY <1>3, WAgrees
<1> QED BY <1>1, <1>4 DEF View

\* A frame lies below the last one, and all of them above the bottom.
LEMMA ChainUnder ==
    ASSUME NEW d, NEW fs, Chain(d, fs), NEW l, l = Len(fs)
    PROVE  /\ \A k \in d + 1..l - 1 : fs[k].base + fs[k].free <= fs[l].func
           /\ \A k \in d + 1..l : fs[k].func >= 1 /\ fs[k].base >= 1
<1>1. PICK n \in Nat : n = Len(fs) /\ d \in Nat /\ n >= d + 1
  BY ChainEnds
<1>2. \A k \in d + 1..n - 1 : fs[k].base + fs[k].free <= fs[n].func
  <2>1. ASSUME NEW k \in d + 1..n - 1 PROVE fs[k].base + fs[k].free <= fs[n].func
    <3>1. n \in d + 2..n
      BY <1>1
    <3> QED BY <1>1, <3>1 DEF Chain, Ordered
  <2> QED BY <2>1
<1>3. ASSUME NEW k \in d + 1..n PROVE fs[k].func >= 1 /\ fs[k].base >= 1
  <2>1. PICK f \in Int, b \in Int : f = fs[k].func /\ b = fs[k].base /\ f <= b
    BY <1>1 DEF Chain, Shape
  <2>2. d + 1 \in d + 1..n /\ fs[d + 1].base = d + 1 /\ fs[d + 1].func = 1
    BY <1>1 DEF Chain, Grounded
  <2>3. f >= 1
    <3>1. CASE k = d + 1
      BY <3>1, <2>1, <2>2
    <3>2. CASE k # d + 1
      <4>1. k \in d + 2..n /\ d + 1 \in d + 1..k - 1
        BY <3>2, <1>1
      <4>2. fs[d + 1].base + fs[d + 1].free <= fs[k].func
        BY <4>1, <1>1 DEF Chain, Ordered
      <4>3. PICK r \in Nat : r = fs[d + 1].free
        BY <2>2, <1>1 DEF Chain, Shape
      <4>4. d + 1 + r <= f
        BY <4>2, <4>3, <2>1, <2>2
      <4> QED BY <4>4, <1>1
    <3> QED BY <3>1, <3>2
  <2> QED BY <2>1, <2>3
<1> QED BY <1>1, <1>2, <1>3

\* Open upvalues lie below the end of the last frame.
LEMMA OpenUnder ==
    ASSUME NEW d, NEW fs, Chain(d, fs), NEW l, l = Len(fs), NEW us, UpsShape(us), Housed(d, us, fs),
           NEW u \in Upvalues, us.var[u].state = "open"
    PROVE  /\ us.var[u].slot \in Int /\ us.var[u].slot >= 1
           /\ us.var[u].slot < fs[l].base + fs[l].free
<1>1. PICK n \in Nat : n = Len(fs) /\ d \in Nat /\ n >= d + 1 /\ n \in d + 1..n
  BY ChainEnds
<1>2. PICK k \in d + 1..n : Holds(fs[k], us.var[u].slot)
  BY <1>1 DEF Housed
<1>3. PICK x \in Int, b \in Int, r \in Nat : x = us.var[u].slot /\ b = fs[k].base /\ r = fs[k].free
  BY <1>1, <1>2 DEF UpsShape, Chain, Shape
<1>4. b <= x /\ x < b + r
  BY <1>2, <1>3 DEF Holds, Inside
<1>5. fs[k].base >= 1
  BY <1>1, <1>2, ChainUnder
<1>6. PICK bn \in Int, rn \in Nat, fn \in Int : bn = fs[n].base /\ rn = fs[n].free /\ fn = fs[n].func /\ fn <= bn
  BY <1>1 DEF Chain, Shape
<1>7. x < bn + rn
  <2>1. CASE k = n
    BY <2>1, <1>3, <1>4, <1>6
  <2>2. CASE k # n
    <3>1. k \in d + 1..n - 1
      BY <2>2, <1>1
    <3>2. b + r <= fn
      BY <3>1, <1>1, <1>3, <1>6, ChainUnder
    <3> QED BY <3>2, <1>4, <1>6, SMTT(30)
  <2> QED BY <2>1, <2>2
<1> QED BY <1>1, <1>3, <1>4, <1>5, <1>6, <1>7, SMTT(30)

LEMMA CellsKept ==
    ASSUME NEW d, NEW fs, Chain(d, fs), NEW l, l = Len(fs), NEW us, UpsShape(us), Housed(d, us, fs),
           NEW s, NEW t, NEW f \in Int, fs[l].base + fs[l].free <= f, Agree(s, t, f)
    PROVE  CellOf(t, us) = CellOf(s, us)
<1>1. ASSUME NEW u \in Upvalues, us.var[u].state = "open"
      PROVE  Slot(t, us.var[u].slot) = Slot(s, us.var[u].slot)
  <2>1. us.var[u].slot \in Int /\ us.var[u].slot < fs[l].base + fs[l].free
    BY <1>1, OpenUnder
  <2>2. PICK n \in Nat : n = Len(fs) /\ Shape(fs[n])
    BY ChainEnds
  <2>3. PICK x \in Int, b \in Int, r \in Nat : x = us.var[u].slot /\ b = fs[l].base /\ r = fs[l].free
    BY <2>1, <2>2 DEF Shape
  <2>4. x < f
    BY <2>1, <2>3
  <2> QED BY <2>3, <2>4 DEF Agree
<1> QED BY <1>1, CellSame

\* The frames from the n-th to the l-th look the same.
Views(s, t, fs, n, l) == \A k \in n..l : \A m : View(t, fs[k], m) = View(s, fs[k], m)

\* The frames below the last one.
LEMMA ViewsKept ==
    ASSUME NEW d, NEW fs, Chain(d, fs), NEW l, l = Len(fs), NEW s \in Seq(Value), NEW t \in Seq(Value),
           NEW f \in Int, Agree(s, t, f), fs[l].func <= f
    PROVE  Views(s, t, fs, d + 1, l - 1)
<1>1. PICK n \in Nat : n = Len(fs) /\ d \in Nat /\ Shape(fs[n])
  BY ChainEnds
<1>2. ASSUME NEW k \in d + 1..n - 1, NEW m PROVE View(t, fs[k], m) = View(s, fs[k], m)
  <2>1. fs[k].base + fs[k].free <= fs[n].func
    BY <1>1, ChainUnder
  <2>2. k \in d + 1..n
    BY <1>1
  <2>3. Shape(fs[k])
    BY <2>2, <1>1 DEF Chain
  <2>4. PICK x \in Int, y \in Int : x = fs[k].base + fs[k].free /\ y = fs[n].func
    <3>1. fs[k].base + fs[k].free \in Int /\ fs[n].func \in Int
      BY <2>3, <1>1, SMTT(30) DEF Shape
    <3> QED BY <3>1
  <2>5. x <= f
    BY <2>1, <2>4, <1>1
  <2> QED BY <2>3, <2>4, <2>5, ViewKept
<1> QED BY <1>1, <1>2 DEF Views

\* All of them.
LEMMA AllKept ==
    ASSUME NEW d, NEW fs, Chain(d, fs), NEW l, l = Len(fs), NEW s \in Seq(Value), NEW t \in Seq(Value),
           NEW f \in Int, Agree(s, t, f), fs[l].base + fs[l].free <= f
    PROVE  Views(s, t, fs, d + 1, l)
<1>1. PICK n \in Nat : n = Len(fs) /\ d \in Nat /\ Shape(fs[n])
  BY ChainEnds
<1>2. PICK fn \in Int, b \in Int, r \in Nat : fn = fs[n].func /\ b = fs[n].base /\ r = fs[n].free /\ fn <= b
  BY <1>1 DEF Shape
<1>3. fn <= f
  BY <1>1, <1>2, SMTT(30)
<1>4. \A k \in d + 1..n - 1 : \A m : View(t, fs[k], m) = View(s, fs[k], m)
  <2>1. fs[l].func <= f
    BY <1>1, <1>2, <1>3
  <2>2. Views(s, t, fs, d + 1, l - 1)
    BY <2>1, ViewsKept
  <2> QED BY <1>1, <2>2 DEF Views
<1>5. \A m : View(t, fs[n], m) = View(s, fs[n], m)
  BY <1>1, ViewKept
<1>6. \A k \in d + 1..n : k = n \/ k \in d + 1..n - 1
  BY <1>1
<1> QED BY <1>1, <1>4, <1>5, <1>6 DEF Views

-----------------------------------------------------------------------------
(* Instructions that go on in the running frame. *)

\* The running activation at pc, with n registers and the open list m.
Now(s, pc, n, m) ==
    [proto |-> cur.proto, pc |-> pc, regs |-> W(s, cur.base, n), more |-> m,
     varargs |-> cur.varargs]

OpenFrom(s, t, n, open) ==
    IF open THEN W(s, cur.base + n, t - cur.base - n) ELSE <<>>

\* What the compiler says of the next instruction.
LEMMA LeadsTo ==
    ASSUME Compiled(Live, Held), NEW p \in Protos, NEW pc, NEW n, NEW held, NEW open \in BOOLEAN,
           Leads(Live, Held, p, pc, n, held, open)
    PROVE  /\ pc \in DOMAIN Code[p] /\ n = Live[p][pc] /\ n \in Nat /\ n <= Room[p]
           /\ held \subseteq Held[p][pc] /\ Held[p][pc] \subseteq 1..n
           /\ Consumes(p, pc) <=> open
<1>1. pc \in DOMAIN Code[p] /\ n = Live[p][pc] /\ held \subseteq Held[p][pc] /\ (Consumes(p, pc) <=> open)
  BY DEF Leads
<1>2. Live[p] \in [DOMAIN Code[p] -> 0..Room[p]] /\ Held[p][pc] \subseteq 1..Live[p][pc]
  BY <1>1 DEF Compiled
<1>3. n \in 0..Room[p] /\ Room[p] \in Nat
  BY <1>1, <1>2, ProtoAssumption
<1> QED BY <1>1, <1>2, <1>3

LEMMA Advance ==
    ASSUME StackInvariant, StackInvariant', Calling, Compiled(Live, Held), status = "run",
           cur.proto # Nil, status' = "run", thread' = thread,
           NEW pc, NEW n, NEW held, NEW open \in BOOLEAN, frames' = Goto(pc, n),
           Leads(Live, Held, cur.proto, pc, n, held, open), open => top' >= cur.base + n,
           Agree(stack, stack', cur.base), Housed(Below, ups', frames')
    PROVE  /\ Calling' /\ Chain(Below, frames')
           /\ Changed(Activated', Activated, Lua!depth, Now(stack', pc, n, OpenFrom(stack', top', n, open)))
           /\ Homes' = HomeOf(ups', frames', Below) /\ Contents' = CellOf(stack', ups')
           /\ Used' = UsedOf(ups') /\ Final' = <<>>
<1>1. /\ Chain(Below, frames) /\ Shape(cur) /\ cur.proto \in Protos
  BY Finds
<1>2. PICK l \in Nat, d \in Nat : l = Len(frames) /\ d = Below /\ l >= d + 1 /\ l \in 1..l
  BY <1>1, ChainEnds
<1>3. /\ pc \in DOMAIN Code[cur.proto] /\ n = Live[cur.proto][pc] /\ n \in Nat /\ n <= Room[cur.proto]
      /\ Consumes(cur.proto, pc) <=> open
  BY <1>1, LeadsTo
<1>4. PICK c : c = [cur EXCEPT !.pc = pc, !.free = n]
  OBVIOUS
<1>5. /\ c = [proto |-> cur.proto, func |-> cur.func, base |-> cur.base, nargs |-> cur.nargs,
             ctop |-> cur.ctop, nres |-> cur.nres, varargs |-> cur.varargs, cont |-> cur.cont,
             pc |-> pc, free |-> n]
  <2>1. PICK p, f, b, na, ct, nr, va, co, q, fr :
            cur = [proto |-> p, func |-> f, base |-> b, nargs |-> na, ctop |-> ct, nres |-> nr,
                   varargs |-> va, cont |-> co, pc |-> q, free |-> fr]
    BY <1>1 DEF Shape
  <2> QED BY <1>4, <2>1
<1>6. Shape(c)
  BY <1>1, <1>3, <1>5 DEF Shape
<1>7. frames' = [frames EXCEPT ![l] = c] /\ cur = frames[l]
  BY <1>2, <1>4 DEF Goto, cur
<1>8. /\ Chain(d, frames') /\ FramesOK(frames') /\ Len(frames') = l /\ frames'[l] = c
      /\ \A k \in 1..l - 1 : frames'[k] = frames[k]
  <2>1. /\ c.func = frames[l].func /\ c.base = frames[l].base /\ c.nres = frames[l].nres
        /\ c.cont = frames[l].cont /\ c.proto # Nil /\ Chain(d, frames)
    BY <1>1, <1>2, <1>5, <1>7
  <2>2. Changed(frames', frames, Len(frames), c)
    BY <1>2, <1>7 DEF Changed
  <2> QED BY <2>1, <2>2, <1>2, <1>6, LastChanged
<1>9. PICK m : m = OpenFrom(stack', top', n, open)
  OBVIOUS
<1>10. OpenListAt(status', stack', frames', top') = m
  BY <1>3, <1>5, <1>8, <1>9, SMTT(30) DEF OpenListAt, OpenFrom
<1>11. RunsAt(frames', top')
  <2>1. c.proto # Nil /\ c.free = Live[c.proto][c.pc] /\ (Consumes(c.proto, c.pc) => top' >= c.base + c.free)
    BY <1>3, <1>5
  <2>2. frames'[Len(frames')] = c
    BY <1>8
  <2> QED BY <2>1, <2>2 DEF RunsAt
<1>12. Progress(d, status', ups', frames', top', pending')
  BY <1>2, <1>8, <1>11 DEF Progress
<1>13. FramesOK(frames) /\ stack \in Seq(Value) /\ stack' \in Seq(Value)
  BY <1>1 DEF Chain, Grounded, StackInvariant, Body
<1>14. Views(stack, stack', frames, d + 1, l - 1)
  <2>1. PICK f \in Int, b \in Int : f = cur.func /\ b = cur.base /\ f <= b
    BY <1>1 DEF Shape
  <2>2. frames[l].func <= b /\ Agree(stack, stack', b)
    BY <2>1, <1>7
  <2> QED BY <2>2, <1>1, <1>2, <1>13, ViewsKept
<1>15. \A k \in d + 1..l - 1 : View(stack', frames'[k], <<>>) = View(stack, frames[k], <<>>)
  <2>1. \A k \in d + 1..l - 1 : k \in 1..l - 1
    BY <1>2
  <2> QED BY <2>1, <1>8, <1>14 DEF Views
<1>16. Changed(ActsOf(stack', frames', d, m), ActsOf(stack, frames, d, Pending), l - d, View(stack', c, m))
  <2>1. d < Len(frames) /\ Len(frames') = Len(frames)
    BY <1>2, <1>8
  <2>2. \A k \in d + 1..Len(frames) - 1 : View(stack', frames'[k], <<>>) = View(stack, frames[k], <<>>)
    BY <1>2, <1>15
  <2>3. Changed(ActsOf(stack', frames', d, m), ActsOf(stack, frames, d, Pending), Len(frames) - d,
                View(stack', frames'[Len(frames')], m))
    BY <2>1, <2>2, <1>8, <1>13, ActsChanged
  <2> QED BY <2>3, <1>2, <1>8
<1>17. View(stack', c, m) = Now(stack', pc, n, m)
  BY <1>5 DEF View, Now
<1>18. Activated = ActsOf(stack, frames, d, Pending) /\ Lua!depth = l - d
  BY <1>2, Sees
<1>19. Lands(Below, ActsOf(stack', frames', d, m), HomeOf(ups', frames', Below), CellOf(stack', ups'), UsedOf(ups'))
  BY <1>2, <1>10, <1>12 DEF Lands, Over
<1>20. /\ Calling' /\ Activated' = ActsOf(stack', frames', d, m) /\ Homes' = HomeOf(ups', frames', Below)
       /\ Contents' = CellOf(stack', ups') /\ Used' = UsedOf(ups') /\ Final' = <<>>
  BY <1>19, Landing
<1>21. Changed(Activated', Activated, Lua!depth, Now(stack', pc, n, m))
  BY <1>16, <1>17, <1>18, <1>20
<1> QED BY <1>2, <1>8, <1>9, <1>20, <1>21

\* With the open upvalues as they are.
LEMMA Steps ==
    ASSUME StackInvariant, StackInvariant', Calling, Compiled(Live, Held), status = "run",
           cur.proto # Nil, status' = "run", thread' = thread, ups' = ups,
           NEW pc, NEW n, NEW open \in BOOLEAN, frames' = Goto(pc, n),
           Leads(Live, Held, cur.proto, pc, n, Held[cur.proto][cur.pc], open),
           open => top' >= cur.base + n, Agree(stack, stack', cur.base)
    PROVE  /\ Calling'
           /\ Changed(Activated', Activated, Lua!depth, Now(stack', pc, n, OpenFrom(stack', top', n, open)))
           /\ Homes' = Homes /\ Contents' = CellOf(stack', ups) /\ Used' = Used /\ Final' = Final
<1>1. /\ Chain(Below, frames) /\ Shape(cur) /\ cur.proto \in Protos /\ Housed(Below, ups, frames)
  BY Finds
<1>2. PICK l \in Nat, d \in Nat : l = Len(frames) /\ d = Below /\ l >= d + 1 /\ l \in 1..l
  BY <1>1, ChainEnds
<1>3. /\ pc \in DOMAIN Code[cur.proto] /\ n \in Nat /\ n <= Room[cur.proto]
      /\ Held[cur.proto][cur.pc] \subseteq Held[cur.proto][pc] /\ Held[cur.proto][pc] \subseteq 1..n
  BY <1>1, LeadsTo
<1>4. PICK c : c = [cur EXCEPT !.pc = pc, !.free = n]
  OBVIOUS
<1>5. /\ c = [proto |-> cur.proto, func |-> cur.func, base |-> cur.base, nargs |-> cur.nargs,
             ctop |-> cur.ctop, nres |-> cur.nres, varargs |-> cur.varargs, cont |-> cur.cont,
             pc |-> pc, free |-> n]
  <2>1. PICK p, f, b, na, ct, nr, va, co, q, fr :
            cur = [proto |-> p, func |-> f, base |-> b, nargs |-> na, ctop |-> ct, nres |-> nr,
                   varargs |-> va, cont |-> co, pc |-> q, free |-> fr]
    BY <1>1 DEF Shape
  <2> QED BY <1>4, <2>1
<1>6. Shape(c)
  BY <1>1, <1>3, <1>5 DEF Shape
<1>7. frames' = [frames EXCEPT ![l] = c] /\ cur = frames[l]
  BY <1>2, <1>4 DEF Goto, cur
<1>8. /\ Chain(d, frames') /\ FramesOK(frames') /\ Len(frames') = l /\ frames'[l] = c
      /\ \A k \in 1..l - 1 : frames'[k] = frames[k]
  <2>1. /\ c.func = frames[l].func /\ c.base = frames[l].base /\ c.nres = frames[l].nres
        /\ c.cont = frames[l].cont /\ c.proto # Nil /\ Chain(d, frames)
    BY <1>1, <1>2, <1>5, <1>7
  <2>2. Changed(frames', frames, Len(frames), c)
    BY <1>2, <1>7 DEF Changed
  <2> QED BY <2>1, <2>2, <1>2, <1>6, LastChanged
<1>9. UpsShape(ups)
  BY DEF StackInvariant, FramesInvariant, UpsOK
<1>10. \A r \in Held[cur.proto][cur.pc] : r <= n /\ r \in Held[cur.proto][pc]
  BY <1>3
<1>11. Housed(d, ups, frames') /\ HomeOf(ups, frames', d) = HomeOf(ups, frames, d)
  <2>1. /\ frames'[l].base = frames[l].base /\ frames'[l].proto = frames[l].proto
        /\ Chain(d, frames) /\ Housed(d, ups, frames)
    BY <1>1, <1>2, <1>5, <1>7, <1>8
  <2>2. \A r \in Held[frames'[l].proto][frames[l].pc] :
           r \in 1..frames[l].free => r <= frames'[l].free /\ r \in Held[frames'[l].proto][frames'[l].pc]
    BY <1>5, <1>7, <1>8, <1>10, SMTT(30)
  <2> QED BY <2>1, <2>2, <1>2, <1>8, <1>9, HousedLast
<1>12. /\ Calling'
       /\ Changed(Activated', Activated, Lua!depth, Now(stack', pc, n, OpenFrom(stack', top', n, open)))
       /\ Homes' = HomeOf(ups', frames', Below) /\ Contents' = CellOf(stack', ups')
       /\ Used' = UsedOf(ups') /\ Final' = <<>>
  BY <1>2, <1>11, Advance
<1>13. Homes = HomeOf(ups, frames, Below) /\ Used = UsedOf(ups) /\ Final = <<>>
  BY Sees
<1> QED BY <1>2, <1>11, <1>12, <1>13

\* The stack t is s but for the slot x, which holds v.
Written(s, t, x, v) == \A j \in Int : Slot(t, j) = IF j = x THEN v ELSE Slot(s, j)

\* The contents e when the register r of the activation i gets v.
Rewritten(e, h, i, r, v) == [u \in Upvalues |-> IF h[u] = <<i, r>> THEN v ELSE e[u]]

\* A register of the last frame is written: the variable that lives there changes.
LEMMA CellPut ==
    ASSUME NEW d, NEW fs, Chain(d, fs), NEW us, UpsShape(us), Housed(d, us, fs),
           NEW r \in Nat, r >= 1, NEW s, NEW t, NEW v, Written(s, t, fs[Len(fs)].base + r - 1, v)
    PROVE  CellOf(t, us) = Rewritten(CellOf(s, us), HomeOf(us, fs, d), Len(fs) - d, r, v)
<1>1. PICK l \in Nat : l = Len(fs) /\ d \in Nat /\ l >= d + 1 /\ l \in d + 1..l /\ Shape(fs[l])
  BY ChainEnds
<1>2. PICK b \in Int, n \in Nat : b = fs[l].base /\ n = fs[l].free
  BY <1>1 DEF Shape
<1>3. ASSUME NEW u \in Upvalues
      PROVE  CellOf(t, us)[u] = IF HomeOf(us, fs, d)[u] = <<l - d, r>> THEN v ELSE CellOf(s, us)[u]
  <2>1. CASE us.var[u].state = "open"
    <3>1. PICK k \in d + 1..l : /\ Holds(fs[k], us.var[u].slot)
                                /\ HomeOf(us, fs, d)[u] = <<k - d, us.var[u].slot - fs[k].base + 1>>
      <4>1. \E k \in d + 1..Len(fs) :
                /\ Holds(fs[k], us.var[u].slot) /\ k - d \in 1..Len(fs) - d
                /\ us.var[u].slot - fs[k].base + 1 \in 1..fs[k].free
                /\ HomeOf(us, fs, d)[u] = <<k - d, us.var[u].slot - fs[k].base + 1>>
        BY <2>1, HomeIn
      <4> QED BY <1>1, <4>1
    <3>2. PICK x \in Int, c \in Int : x = us.var[u].slot /\ c = fs[k].base
      BY <1>1, <3>1 DEF UpsShape, Chain, Shape
    <3>3. CellOf(t, us)[u] = Slot(t, x) /\ CellOf(s, us)[u] = Slot(s, x)
      BY <2>1, <3>2 DEF CellOf
    <3>4. Slot(t, x) = IF x = b + r - 1 THEN v ELSE Slot(s, x)
      BY <1>1, <1>2 DEF Written
    <3>5. x < b + n
      BY <1>1, <1>2, <2>1, <3>2, OpenUnder
    <3>6. x = b + r - 1 <=> k = l /\ x - c + 1 = r
      <4>1. CASE k = l
        <5>1. c = b
          BY <4>1, <1>2, <3>2
        <5>2. x = b + r - 1 <=> x - b + 1 = r
          OBVIOUS
        <5> QED BY <4>1, <5>1, <5>2
      <4>2. CASE k # l
        <5>1. x # b + r - 1
          <6>1. SUFFICES ASSUME x = b + r - 1 PROVE FALSE
            OBVIOUS
          <6>2. Inside(fs[l], x)
            BY <1>2, <3>5, <6>1 DEF Inside
          <6>3. Inside(fs[k], x)
            BY <3>1, <3>2 DEF Holds
          <6> QED BY <1>1, <4>2, <6>2, <6>3, OneOwner
        <5> QED BY <4>2, <5>1
      <4> QED BY <4>1, <4>2
    <3>7. <<k - d, x - c + 1>> = <<l - d, r>> <=> k = l /\ x - c + 1 = r
      BY <1>1
    <3> QED BY <3>1, <3>2, <3>3, <3>4, <3>6, <3>7
  <2>2. CASE us.var[u].state # "open"
    <3>1. HomeOf(us, fs, d)[u] = <<0, 0>>
      BY <2>2, HomeNot
    <3>2. <<0, 0>> # <<l - d, r>>
      BY <1>1
    <3>3. CellOf(t, us)[u] = CellOf(s, us)[u]
      BY <2>2 DEF CellOf
    <3> QED BY <3>1, <3>2, <3>3
  <2> QED BY <2>1, <2>2
<1>4. CellOf(t, us) = [u \in Upvalues |-> CellOf(t, us)[u]]
  BY DEF CellOf
<1>5. PICK a : a = CellOf(t, us)
  OBVIOUS
<1>6. \A u \in Upvalues : a[u] = IF HomeOf(us, fs, d)[u] = <<Len(fs) - d, r>> THEN v ELSE CellOf(s, us)[u]
  BY <1>1, <1>3, <1>5
<1>7. a = [u \in Upvalues |-> a[u]]
  BY <1>4, <1>5
<1> QED BY <1>5, <1>6, <1>7 DEF Rewritten

\* Where the registers of the running function lie.
LEMMA Rooms ==
    ASSUME StackInvariant, Calling, Compiled(Live, Held), status = "run", cur.proto # Nil
    PROVE  \E b \in Int, n \in Nat, l \in Nat, q \in Nat :
              /\ b = cur.base /\ n = cur.free /\ l = Len(stack) /\ q = Room[cur.proto]
              /\ b >= 1 /\ n <= q /\ b + q - 1 <= l /\ stack \in Seq(Value)
              /\ \A r \in Int : Reg(r) = b + r - 1
<1>1. FramesInvariant /\ Body
  BY DEF StackInvariant
<1>2. Shape(cur) /\ cur.proto \in Protos
  BY Finds
<1>3. FrameIn(cur, Len(stack)) /\ Len(stack) \in Nat
  BY <1>1, FoundLaid
<1>4. cur.base \in Int /\ cur.base >= 1 /\ cur.free \in Nat /\ cur.free <= Room[cur.proto]
  BY <1>2, <1>3 DEF Shape, FrameIn
<1>5. Room[cur.proto] \in Nat /\ cur.base + Room[cur.proto] - 1 <= Len(stack)
  BY <1>2, <1>3, ProtoAssumption DEF FrameIn
<1> QED BY <1>1, <1>3, <1>4, <1>5 DEF Body, Reg

\* The activation a at pc y, with the registers x and the open list e.
Gone(a, y, x) == [a EXCEPT !.pc = y, !.regs = x]
LEMMA GoneIs ==
    ASSUME NEW a, a = [proto |-> a.proto, pc |-> a.pc, regs |-> a.regs, more |-> a.more, varargs |-> a.varargs],
           NEW b, b = [proto |-> b.proto, pc |-> b.pc, regs |-> b.regs, more |-> b.more, varargs |-> b.varargs],
           b.proto = a.proto, b.more = a.more, b.varargs = a.varargs
    PROVE  b = Gone(a, b.pc, b.regs)
<1>1. PICK c : c = [a EXCEPT !.pc = b.pc]
  OBVIOUS
<1>2. c = [proto |-> a.proto, pc |-> b.pc, regs |-> a.regs, more |-> a.more, varargs |-> a.varargs]
  BY <1>1
<1>3. [c EXCEPT !.regs = b.regs] = [proto |-> a.proto, pc |-> b.pc, regs |-> b.regs, more |-> a.more, varargs |-> a.varargs]
  BY <1>2
<1> QED BY <1>1, <1>3 DEF Gone

LEMMA Assigns ==
    ASSUME StackInvariant, StackInvariant', Calling, Compiled(Live, Held), status = "run",
           cur.proto # Nil, ~ Consumes(cur.proto, cur.pc), status' = status, thread' = thread,
           ups' = ups, NEW r \in 1..cur.free + 1, NEW v \in Value, Assign(r, v),
           Leads(Live, Held, cur.proto, cur.pc + 1, Max({cur.free, r}), Held[cur.proto][cur.pc], FALSE)
    PROVE  Calling' /\ Lua!Assign(r, v)
<1>1. PICK b \in Int, n \in Nat, l \in Nat, q \in Nat :
              /\ b = cur.base /\ n = cur.free /\ l = Len(stack) /\ q = Room[cur.proto]
              /\ b >= 1 /\ n <= q /\ b + q - 1 <= l /\ stack \in Seq(Value)
              /\ \A i \in Int : Reg(i) = b + i - 1
  BY Rooms
<1>s. /\ stack \in Seq(Value) /\ b >= 1 /\ n <= q /\ b + q - 1 <= l
  BY <1>1
<1>2. r \in 1..n + 1 /\ r \in Nat /\ r >= 1 /\ Reg(r) = b + r - 1
  BY <1>1
<1>3. PICK m : m = Max({n, r})
  OBVIOUS
<1>4. m = IF r > n THEN n + 1 ELSE n
  BY <1>2, <1>3, MaxOfTwo
<1>5. /\ cur.proto \in Protos /\ Chain(Below, frames) /\ Housed(Below, ups, frames) /\ Shape(cur)
      /\ Pending = <<>>
  BY Finds
<1>6. m <= q
  BY <1>1, <1>3, <1>5, LeadsTo
<1>7. r <= q /\ b + r - 1 \in 1..l
  <2>1. r <= m
    BY <1>2, <1>4
  <2>2. m \in Int
    BY <1>2, <1>4
  <2>3. r <= q
    BY <2>1, <2>2, <1>2, <1>6
  <2> QED BY <2>3, <1>s, <1>2
<1>8. stack' = Put(stack, b + r - 1, <<v>>) /\ frames' = Goto(cur.pc + 1, m)
  BY <1>1, <1>2, <1>3 DEF Assign
<1>9. \A j \in Int : Slot(stack', j) = IF j = b + r - 1 THEN v ELSE Slot(stack, j)
  <2>1. ASSUME NEW j \in Int PROVE Slot(stack', j) = IF j = b + r - 1 THEN v ELSE Slot(stack, j)
    <3>1. PICK x \in Int : x = b + r - 1
      OBVIOUS
    <3>2. PICK vs \in Seq(Value) : vs = <<v>> /\ Len(vs) = 1 /\ vs[1] = v
      BY OneValue
    <3>6. stack' = Put(stack, x, vs)
      BY <1>8, <3>1, <3>2
    <3>7. Slot(Put(stack, x, vs), j) = IF j \in x..x + Len(vs) - 1 /\ j \in 1..Len(stack) THEN vs[j - x + 1]
                                       ELSE Slot(stack, j)
      BY <1>s, PutSlot
    <3>3. Slot(stack', j) = IF j \in x..x + 1 - 1 /\ j \in 1..Len(stack) THEN vs[j - x + 1] ELSE Slot(stack, j)
      BY <3>2, <3>6, <3>7
    <3>4. CASE j = x
      <4>0. j \in 1..l /\ l = Len(stack)
        BY <1>1, <1>7, <3>1, <3>4
      <4>1. j \in x..x + 1 - 1 /\ j \in 1..Len(stack) /\ j - x + 1 = 1
        BY <4>0, <3>4
      <4> QED BY <3>1, <3>2, <3>3, <3>4, <4>1
    <3>5. CASE j # x
      <4>1. j \notin x..x + 1 - 1
        BY <3>5
      <4> QED BY <3>1, <3>3, <3>5, <4>1
    <3> QED BY <3>4, <3>5
  <2> QED BY <2>1
<1>10. Agree(stack, stack', cur.base)
  <2>1. \A j \in Int : j < b => j # b + r - 1
    BY <1>2
  <2> QED BY <1>1, <1>9, <2>1 DEF Agree
<1>11. /\ Calling'
       /\ Changed(Activated', Activated, Lua!depth, Now(stack', cur.pc + 1, m, OpenFrom(stack', top', m, FALSE)))
       /\ Homes' = Homes /\ Contents' = CellOf(stack', ups) /\ Used' = Used /\ Final' = Final
  BY <1>1, <1>3, <1>8, <1>10, Steps
<1>12. stack' \in Seq(Value)
  BY DEF StackInvariant, Body
<1>13. W(stack', b, m) = IF r > n THEN Append(W(stack, b, n), v) ELSE [W(stack, b, n) EXCEPT ![r] = v]
  <2>1. CASE r > n
    <3>1. r = n + 1 /\ m = n + 1
      BY <1>2, <1>4, <2>1
    <3>2. \A j \in b..b + n - 1 : j \in Int /\ j # b + r - 1
      BY <3>1
    <3>6. \A j \in b..b + n - 1 : Slot(stack', j) = Slot(stack, j)
      BY <1>9, <3>2
    <3>3. W(stack', b, n) = W(stack, b, n)
      BY <1>s, <1>12, <3>6, WAgrees
    <3>4. Slot(stack', b + n) = v
      BY <1>9, <3>1
    <3>5. W(stack', b, n + 1) = Append(W(stack', b, n), Slot(stack', b + n))
      BY <1>12, WAppend
    <3> QED BY <2>1, <3>1, <3>3, <3>4, <3>5
  <2>2. CASE ~ (r > n)
    <3>1. r \in 1..n /\ m = n
      BY <1>2, <1>4, <2>2
    <3>2. \A j \in b..b + n - 1 : j # b + r - 1 => Slot(stack', j) = Slot(stack, j)
      BY <1>9
    <3>3. W(stack', b, n) = [W(stack, b, n) EXCEPT ![r] = Slot(stack', b + r - 1)]
      BY <1>s, <1>12, <3>1, <3>2, WExcept
    <3>4. Slot(stack', b + r - 1) = v
      BY <1>9, <3>1
    <3> QED BY <2>2, <3>1, <3>3, <3>4
  <2> QED BY <2>1, <2>2
<1>14. PICK a : a = Lua!cur /\ a = View(stack, cur, <<>>)
  BY <1>5, Sees
<1>15. a = [proto |-> cur.proto, pc |-> cur.pc, regs |-> W(stack, b, n), more |-> <<>>, varargs |-> cur.varargs]
  BY <1>1, <1>14 DEF View
<1>16. Len(W(stack, b, n)) = n
  <2>1. b \in Int
    OBVIOUS
  <2>2. n \in Int /\ n >= 0
    OBVIOUS
  <2>3. Len(W(stack, b, n)) = IF n > 0 THEN n ELSE 0
    BY <1>s, <2>1, <2>2, WIsList
  <2> QED BY <2>2, <2>3
<1>17. Now(stack', cur.pc + 1, m, <<>>)
          = [a EXCEPT !.pc = @ + 1, !.regs = IF r > Len(@) THEN Append(@, v) ELSE [@ EXCEPT ![r] = v]]
  <2>1. PICK w, x : w = W(stack, b, n) /\ x = W(stack', b, m)
    OBVIOUS
  <2>2. x = IF r > Len(w) THEN Append(w, v) ELSE [w EXCEPT ![r] = v]
    BY <1>13, <1>16, <2>1
  <2>3. a.pc + 1 = cur.pc + 1 /\ a.regs = w
    BY <1>15, <2>1
  <2>4. PICK o : o = Now(stack', cur.pc + 1, m, <<>>)
    OBVIOUS
  <2>5. /\ o = [proto |-> o.proto, pc |-> o.pc, regs |-> o.regs, more |-> o.more, varargs |-> o.varargs]
        /\ o.proto = a.proto /\ o.more = a.more /\ o.varargs = a.varargs /\ o.pc = cur.pc + 1 /\ o.regs = x
    BY <1>1, <1>15, <2>1, <2>4 DEF Now
  <2>6. a = [proto |-> a.proto, pc |-> a.pc, regs |-> a.regs, more |-> a.more, varargs |-> a.varargs]
    BY <1>15
  <2>7. o = Gone(a, o.pc, o.regs)
    BY <2>5, <2>6, GoneIs
  <2>8. o = Gone(a, a.pc + 1, IF r > Len(a.regs) THEN Append(a.regs, v) ELSE [a.regs EXCEPT ![r] = v])
    BY <2>2, <2>3, <2>5, <2>7
  <2> QED BY <2>4, <2>8 DEF Gone
<1>18. Lua!Become([Lua!cur EXCEPT !.pc = @ + 1, !.regs = IF r > Len(@) THEN Append(@, v) ELSE [@ EXCEPT ![r] = v]])
  BY <1>11, <1>14, <1>17 DEF Lua!Become, Changed, OpenFrom
<1>19. Contents' = [u \in Upvalues |-> IF Homes[u] = <<Lua!depth, r>> THEN v ELSE Contents[u]]
  <2>1. Written(stack, stack', frames[Len(frames)].base + r - 1, v)
    BY <1>1, <1>9 DEF cur, Written
  <2>2. UpsShape(ups)
    BY DEF StackInvariant, FramesInvariant, UpsOK
  <2>3. CellOf(stack', ups) = Rewritten(CellOf(stack, ups), HomeOf(ups, frames, Below), Len(frames) - Below, r, v)
    <3>1. Chain(Below, frames) /\ Housed(Below, ups, frames)
      BY <1>5
    <3>2. PICK fs, us, s, t, d, i : fs = frames /\ us = ups /\ s = stack /\ t = stack' /\ d = Below /\ i = r
      OBVIOUS
    <3>3. /\ Chain(d, fs) /\ Housed(d, us, fs) /\ Written(s, t, fs[Len(fs)].base + i - 1, v) /\ UpsShape(us)
          /\ i \in Nat /\ i >= 1
      BY <1>2, <2>1, <2>2, <3>1, <3>2
    <3>4. CellOf(t, us) = Rewritten(CellOf(s, us), HomeOf(us, fs, d), Len(fs) - d, i, v)
      BY <3>3, CellPut
    <3> QED BY <3>2, <3>4
  <2>4. Homes = HomeOf(ups, frames, Below) /\ Contents = CellOf(stack, ups) /\ Lua!depth = Len(frames) - Below
    BY Sees
  <2> QED BY <1>11, <2>3, <2>4 DEF Rewritten
<1> QED BY <1>11, <1>18, <1>19 DEF Lua!Assign

\* What an instruction finds, in both machines.
LEMMA Finding ==
    ASSUME StackInvariant, Calling, Compiled(Live, Held), NEW op, At(op)
    PROVE  /\ FramesInvariant /\ Body /\ status = "run" /\ cur.proto # Nil /\ ins.op = op
           /\ cur.proto \in Protos /\ cur.pc \in DOMAIN Code[cur.proto] /\ ins = Code[cur.proto][cur.pc]
           /\ Orderly(Live, Held, cur.proto, cur.pc) /\ cur.free = Live[cur.proto][cur.pc]
           /\ cur.free \in Nat /\ Lua!At(op) /\ Lua!ins = ins
           /\ Consumes(cur.proto, cur.pc) <=> (op \in {"CALL", "TAILCALL", "RETURN", "SETLIST"} /\ ins.b = 0)
<1>1. FramesInvariant /\ Body /\ status = "run" /\ cur.proto # Nil /\ ins.op = op
  BY DEF StackInvariant, At
<1>2. /\ cur.proto \in Protos /\ cur.pc \in DOMAIN Code[cur.proto] /\ ins = Code[cur.proto][cur.pc]
      /\ Orderly(Live, Held, cur.proto, cur.pc) /\ cur.free = Live[cur.proto][cur.pc] /\ Shape(cur)
  BY <1>1, Finds
<1>3. Lua!ins = ins /\ Lua!cur.proto = cur.proto
  BY <1>1, Sees
<1>4. Lua!At(op)
  BY <1>1, <1>3 DEF Lua!At
<1>5. cur.free \in Nat
  BY <1>2 DEF Shape
<1>6. Consumes(cur.proto, cur.pc) <=> (op \in {"CALL", "TAILCALL", "RETURN", "SETLIST"} /\ ins.b = 0)
  BY <1>1, <1>2 DEF Consumes
<1> QED BY <1>1, <1>2, <1>3, <1>4, <1>5, <1>6

LEMMA RegisterIs ==
    ASSUME StackInvariant, Calling, Compiled(Live, Held), status = "run", cur.proto # Nil,
           NEW r \in 1..cur.free
    PROVE  Lua!regs[r] = R(r)
<1>1. PICK b \in Int, n \in Nat : b = cur.base /\ n = cur.free /\ stack \in Seq(Value) /\ Reg(r) = b + r - 1
  <2>1. r \in Int
    BY Finding
  <2> QED BY Rooms, <2>1
<1>2. Lua!regs = W(stack, b, n)
  BY <1>1, Sees
<1>3. W(stack, b, n)[r] = Slot(stack, b + r - 1)
  BY <1>1 DEF W
<1> QED BY <1>1, <1>2, <1>3 DEF R

LEMMA LoadKIs ==
    ASSUME StackInvariant, StackInvariant', Calling, Compiled(Live, Held), LoadK
    PROVE  Calling' /\ Lua!LoadK
<1>1. At("LOADK") /\ Assign(ins.a, ins.b) /\ ups' = ups /\ status' = status /\ thread' = thread
  BY DEF LoadK
<1>2. /\ FramesInvariant /\ status = "run" /\ cur.proto # Nil /\ ins.op = "LOADK"
      /\ ins = Code[cur.proto][cur.pc] /\ Orderly(Live, Held, cur.proto, cur.pc)
      /\ cur.free = Live[cur.proto][cur.pc] /\ Lua!At("LOADK") /\ Lua!ins = ins
      /\ ~ Consumes(cur.proto, cur.pc)
  BY <1>1, Finding
<1>3. ins.b \in Value
  BY <1>1, <1>2, Operands
<1>4. /\ ins.a \in 1..cur.free + 1
      /\ Leads(Live, Held, cur.proto, cur.pc + 1, Max({cur.free, ins.a}), Held[cur.proto][cur.pc], FALSE)
  BY <1>2 DEF Orderly
<1>5. Calling' /\ Lua!Assign(ins.a, ins.b)
  BY <1>1, <1>2, <1>3, <1>4, Assigns
<1> QED BY <1>2, <1>5 DEF Lua!LoadK

LEMMA MoveIs ==
    ASSUME StackInvariant, StackInvariant', Calling, Compiled(Live, Held), Move
    PROVE  Calling' /\ Lua!Move
<1>1. At("MOVE") /\ Assign(ins.a, R(ins.b)) /\ ups' = ups /\ status' = status /\ thread' = thread
  BY DEF Move
<1>2. /\ Body /\ status = "run" /\ cur.proto # Nil /\ ins.op = "MOVE"
      /\ ins = Code[cur.proto][cur.pc] /\ Orderly(Live, Held, cur.proto, cur.pc)
      /\ cur.free = Live[cur.proto][cur.pc] /\ Lua!At("MOVE") /\ Lua!ins = ins
      /\ ~ Consumes(cur.proto, cur.pc)
  BY <1>1, Finding
<1>3. R(ins.b) \in Value
  BY <1>2, RegisterValue
<1>4. /\ ins.a \in 1..cur.free + 1 /\ ins.b \in 1..cur.free
      /\ Leads(Live, Held, cur.proto, cur.pc + 1, Max({cur.free, ins.a}), Held[cur.proto][cur.pc], FALSE)
  BY <1>2 DEF Orderly
<1>5. Calling' /\ Lua!Assign(ins.a, R(ins.b))
  BY <1>1, <1>2, <1>3, <1>4, Assigns
<1>6. Lua!regs[ins.b] = R(ins.b)
  BY <1>2, <1>4, RegisterIs
<1> QED BY <1>2, <1>5, <1>6 DEF Lua!Move

LEMMA GetUpvalueIs ==
    ASSUME StackInvariant, StackInvariant', Calling, Compiled(Live, Held), GetUpvalue
    PROVE  Calling' /\ Lua!GetUpvalue
<1>1. PICK u \in Used : Assign(ins.a, Content(u))
  BY DEF GetUpvalue
<1>2. At("GETUPVAL") /\ ups' = ups /\ status' = status /\ thread' = thread
  BY DEF GetUpvalue
<1>3. /\ Body /\ status = "run" /\ cur.proto # Nil /\ ins.op = "GETUPVAL"
      /\ ins = Code[cur.proto][cur.pc] /\ Orderly(Live, Held, cur.proto, cur.pc)
      /\ cur.free = Live[cur.proto][cur.pc] /\ Lua!At("GETUPVAL") /\ Lua!ins = ins
      /\ ~ Consumes(cur.proto, cur.pc)
  BY <1>2, Finding
<1>4. u \in Upvalues /\ Contents[u] = Content(u)
  BY DEF Used, Contents
<1>5. Content(u) \in Value
  BY <1>3, <1>4, SlotValue DEF Content, Body, UpsIn
<1>6. /\ ins.a \in 1..cur.free + 1
      /\ Leads(Live, Held, cur.proto, cur.pc + 1, Max({cur.free, ins.a}), Held[cur.proto][cur.pc], FALSE)
  BY <1>3 DEF Orderly
<1>7. Calling' /\ Lua!Assign(ins.a, Content(u))
  BY <1>1, <1>2, <1>3, <1>5, <1>6, Assigns
<1> QED BY <1>3, <1>4, <1>7 DEF Lua!GetUpvalue

\* The running activation a at pc y, with the registers x, or the open list e, or both.
Passed(a, y) == [a EXCEPT !.pc = y]
Opens(a, y, e) == [a EXCEPT !.pc = y, !.more = e]
Takes3(a, y, x, e) == [a EXCEPT !.pc = y, !.regs = x, !.more = e]

LEMMA NowIs ==
    ASSUME StackInvariant, Calling, status = "run", NEW s, NEW y, NEW n, NEW m
    PROVE  LET o == Now(s, y, n, m)
               x == W(s, cur.base, n)
           IN  /\ m = Pending => o = Gone(Lua!cur, y, x)
               /\ m = Pending /\ x = Lua!regs => o = Passed(Lua!cur, y)
               /\ x = Lua!regs => o = Opens(Lua!cur, y, m)
               /\ o = Takes3(Lua!cur, y, x, m)
<1>1. PICK a : a = Lua!cur /\ a = View(stack, cur, Pending)
  BY Sees
<1>2. PICK p, q, w, e, z : a = [proto |-> p, pc |-> q, regs |-> w, more |-> e, varargs |-> z]
                           /\ p = cur.proto /\ z = cur.varargs /\ e = Pending /\ w = Lua!regs
  BY <1>1, Sees DEF View
<1>3. PICK x, o : x = W(s, cur.base, n) /\ o = Now(s, y, n, m)
  OBVIOUS
<1>4. o = [proto |-> p, pc |-> y, regs |-> x, more |-> m, varargs |-> z]
  BY <1>2, <1>3 DEF Now
<1>5. PICK b : b = [a EXCEPT !.pc = y]
  OBVIOUS
<1>6. b = [proto |-> p, pc |-> y, regs |-> w, more |-> e, varargs |-> z]
  BY <1>2, <1>5
<1>7. PICK c : c = [b EXCEPT !.regs = x]
  OBVIOUS
<1>8. c = [proto |-> p, pc |-> y, regs |-> x, more |-> e, varargs |-> z]
  BY <1>6, <1>7
<1>9. [c EXCEPT !.more = m] = [proto |-> p, pc |-> y, regs |-> x, more |-> m, varargs |-> z]
  BY <1>8
<1>10. [b EXCEPT !.more = m] = [proto |-> p, pc |-> y, regs |-> w, more |-> m, varargs |-> z]
  BY <1>6
<1>11. m = Pending => o = Gone(a, y, x)
  BY <1>2, <1>4, <1>5, <1>7, <1>8 DEF Gone
<1>12. m = Pending /\ x = Lua!regs => o = Passed(a, y)
  BY <1>2, <1>4, <1>5, <1>6 DEF Passed
<1>13. x = Lua!regs => o = Opens(a, y, m)
  BY <1>2, <1>4, <1>5, <1>10 DEF Opens
<1>14. o = Takes3(a, y, x, m)
  BY <1>4, <1>5, <1>7, <1>9 DEF Takes3
<1> QED BY <1>1, <1>3, <1>11, <1>12, <1>13, <1>14

\* A part of the registers.
LEMMA RegsPart ==
    ASSUME StackInvariant, Calling, Compiled(Live, Held), status = "run", cur.proto # Nil,
           NEW i \in Int, NEW j \in Int, i >= 1, j <= cur.free
    PROVE  /\ SubSeq(Lua!regs, i, j) = W(stack, Reg(i), j - i + 1)
           /\ Len(Lua!regs) = cur.free
<1>1. PICK b \in Int, n \in Nat : b = cur.base /\ n = cur.free /\ stack \in Seq(Value) /\ Reg(i) = b + i - 1
  BY Rooms
<1>2. Lua!regs = W(stack, b, n)
  BY <1>1, Sees
<1>3. stack \in Seq(Value) /\ j <= n
  BY <1>1
<1>4. SubSeq(W(stack, b, n), i, j) = W(stack, b + i - 1, j - i + 1) /\ Len(W(stack, b, n)) = n
  BY <1>3, WSub, WIsList
<1> QED BY <1>1, <1>2, <1>4

LEMMA RegsUpto ==
    ASSUME StackInvariant, Calling, Compiled(Live, Held), status = "run", cur.proto # Nil,
           NEW j \in Int, j <= cur.free
    PROVE  W(stack, cur.base, j) = SubSeq(Lua!regs, 1, j)
<1>0. PICK i \in Int : i = 1
  OBVIOUS
<1>1. PICK b \in Int, n \in Nat : b = cur.base /\ Reg(i) = b + i - 1
  BY Rooms
<1>2. b + i - 1 = b /\ j - i + 1 = j
  BY <1>0
<1>3. SubSeq(Lua!regs, i, j) = W(stack, Reg(i), j - i + 1)
  BY <1>0, RegsPart
<1> QED BY <1>0, <1>1, <1>2, <1>3

LEMMA JumpIs ==
    ASSUME StackInvariant, StackInvariant', Calling, Compiled(Live, Held), Jump
    PROVE  Calling' /\ Lua!Jump
<1>1. /\ At("JMP") /\ frames' = Goto(ins.b, cur.free) /\ stack' = stack /\ ups' = ups
      /\ status' = status /\ thread' = thread
  BY DEF Jump
<1>2. /\ Body /\ status = "run" /\ cur.proto # Nil /\ ins.op = "JMP"
      /\ ins = Code[cur.proto][cur.pc] /\ Orderly(Live, Held, cur.proto, cur.pc)
      /\ cur.free = Live[cur.proto][cur.pc] /\ Lua!At("JMP") /\ Lua!ins = ins
      /\ ~ Consumes(cur.proto, cur.pc)
  BY <1>1, Finding
<1>3. Leads(Live, Held, cur.proto, ins.b, cur.free, Held[cur.proto][cur.pc], FALSE)
  BY <1>2 DEF Orderly
<1>4. Agree(stack, stack', cur.base)
  BY <1>1 DEF Agree
<1>5. /\ Calling'
      /\ Changed(Activated', Activated, Lua!depth, Now(stack', ins.b, cur.free, OpenFrom(stack', top', cur.free, FALSE)))
      /\ Homes' = Homes /\ Contents' = CellOf(stack', ups) /\ Used' = Used /\ Final' = Final
  BY <1>1, <1>2, <1>3, <1>4, Steps
<1>6. Pending = <<>> /\ Lua!regs = W(stack, cur.base, cur.free) /\ Contents = CellOf(stack, ups)
  BY <1>2, Finds, Sees
<1>7. Now(stack, ins.b, cur.free, <<>>) = Passed(Lua!cur, ins.b)
  BY <1>2, <1>6, NowIs
<1>8. Lua!Become([Lua!cur EXCEPT !.pc = ins.b])
  BY <1>1, <1>5, <1>7 DEF Lua!Become, Changed, OpenFrom, Passed
<1> QED BY <1>1, <1>2, <1>5, <1>6, <1>8 DEF Lua!Jump

LEMMA TestIs ==
    ASSUME StackInvariant, StackInvariant', Calling, Compiled(Live, Held), Test
    PROVE  Calling' /\ Lua!Jump
<1>1. PICK skip \in {1, 2} : frames' = Goto(cur.pc + skip, cur.free)
  BY DEF Test
<1>2. At("TEST") /\ stack' = stack /\ ups' = ups /\ status' = status /\ thread' = thread
  BY DEF Test
<1>3. /\ Body /\ status = "run" /\ cur.proto # Nil /\ ins.op = "TEST"
      /\ ins = Code[cur.proto][cur.pc] /\ Orderly(Live, Held, cur.proto, cur.pc)
      /\ cur.free = Live[cur.proto][cur.pc] /\ Lua!At("TEST") /\ Lua!ins = ins
      /\ ~ Consumes(cur.proto, cur.pc)
  BY <1>2, Finding
<1>4. Leads(Live, Held, cur.proto, cur.pc + skip, cur.free, Held[cur.proto][cur.pc], FALSE)
  BY <1>3 DEF Orderly
<1>5. Agree(stack, stack', cur.base)
  BY <1>2 DEF Agree
<1>6. PICK pc : pc = cur.pc + skip
  OBVIOUS
<1>7. /\ Calling'
      /\ Changed(Activated', Activated, Lua!depth, Now(stack', pc, cur.free, OpenFrom(stack', top', cur.free, FALSE)))
      /\ Homes' = Homes /\ Contents' = CellOf(stack', ups) /\ Used' = Used /\ Final' = Final
  BY <1>1, <1>2, <1>3, <1>4, <1>5, <1>6, Steps
<1>8. /\ Pending = <<>> /\ Lua!regs = W(stack, cur.base, cur.free) /\ Contents = CellOf(stack, ups)
      /\ Lua!cur.pc = cur.pc
  BY <1>3, Finds, Sees
<1>9. Now(stack, pc, cur.free, <<>>) = Passed(Lua!cur, pc)
  BY <1>3, <1>8, NowIs
<1>10. Lua!Become([Lua!cur EXCEPT !.pc = @ + skip])
  <2>1. Lua!cur.pc + skip = pc
    BY <1>6, <1>8
  <2> QED BY <1>2, <1>7, <1>9, <2>1 DEF Lua!Become, Changed, OpenFrom, Passed
<1> QED BY <1>2, <1>3, <1>7, <1>8, <1>10 DEF Lua!Jump

LEMMA SetListIs ==
    ASSUME StackInvariant, StackInvariant', Calling, Compiled(Live, Held), SetList
    PROVE  Calling' /\ Lua!SetList
<1>1. /\ At("SETLIST") /\ frames' = Goto(cur.pc + 1, ins.a) /\ stack' = stack /\ ups' = ups
      /\ status' = status /\ thread' = thread
  BY DEF SetList
<1>2. /\ Body /\ status = "run" /\ cur.proto # Nil /\ ins.op = "SETLIST"
      /\ ins = Code[cur.proto][cur.pc] /\ Orderly(Live, Held, cur.proto, cur.pc)
      /\ cur.free = Live[cur.proto][cur.pc] /\ cur.free \in Nat /\ Lua!At("SETLIST") /\ Lua!ins = ins
  BY <1>1, Finding
<1>3. /\ Leads(Live, Held, cur.proto, cur.pc + 1, ins.a, Held[cur.proto][cur.pc], FALSE)
      /\ ins.a \in 1..cur.free
  BY <1>2 DEF Orderly
<1>4. Agree(stack, stack', cur.base)
  BY <1>1 DEF Agree
<1>6. PICK pc : pc = cur.pc + 1
  OBVIOUS
<1>7. /\ Calling'
      /\ Changed(Activated', Activated, Lua!depth, Now(stack', pc, ins.a, OpenFrom(stack', top', ins.a, FALSE)))
      /\ Homes' = Homes /\ Contents' = CellOf(stack', ups) /\ Used' = Used /\ Final' = Final
  BY <1>1, <1>2, <1>3, <1>4, <1>6, Steps
<1>8. /\ Lua!regs = W(stack, cur.base, cur.free) /\ Contents = CellOf(stack, ups)
      /\ Lua!cur.pc = cur.pc
  BY <1>2, Sees
<1>9. Now(stack, pc, ins.a, <<>>) = Takes3(Lua!cur, pc, W(stack, cur.base, ins.a), <<>>)
  BY <1>2, NowIs
<1>10. W(stack, cur.base, ins.a) = SubSeq(Lua!regs, 1, ins.a)
  BY <1>2, <1>3, <1>8, RegsUpto, SMTT(30)
<1>11. Lua!Become([Lua!cur EXCEPT !.pc = @ + 1, !.regs = Upto(@, ins.a), !.more = <<>>])
  <2>1. Lua!cur.pc + 1 = pc
    BY <1>6, <1>8
  <2>2. Takes3(Lua!cur, pc, SubSeq(Lua!regs, 1, ins.a), <<>>)
            = [Lua!cur EXCEPT !.pc = @ + 1, !.regs = Upto(@, ins.a), !.more = <<>>]
    BY <2>1 DEF Takes3, Upto, Lua!regs
  <2> QED BY <1>1, <1>7, <1>9, <1>10, <2>2 DEF Lua!Become, Changed, OpenFrom
<1> QED BY <1>1, <1>2, <1>7, <1>8, <1>11 DEF Lua!SetList, Upto, Lua!Upto

\* The running frame at pc with n registers, as the last one of the frames fs.
Going(fs, pc, n) ==
    /\ Chain(Below, fs) /\ FramesOK(fs) /\ Len(fs) = Len(frames)
    /\ \A k \in 1..Len(frames) - 1 : fs[k] = frames[k]
    /\ LET c == fs[Len(frames)]
       IN  /\ c.proto = cur.proto /\ c.func = cur.func /\ c.base = cur.base /\ c.nres = cur.nres
           /\ c.cont = cur.cont /\ c.varargs = cur.varargs /\ c.pc = pc /\ c.free = n /\ Shape(c)

LEMMA GoneChain ==
    ASSUME StackInvariant, Calling, Compiled(Live, Held), status = "run", cur.proto # Nil,
           NEW pc \in DOMAIN Code[cur.proto], NEW n \in Nat, n <= Room[cur.proto]
    PROVE  Going(Goto(pc, n), pc, n)
<1>1. Chain(Below, frames) /\ Shape(cur) /\ cur.proto \in Protos
  BY Finds
<1>4. PICK c : c = [cur EXCEPT !.pc = pc, !.free = n]
  OBVIOUS
<1>5. /\ c = [proto |-> cur.proto, func |-> cur.func, base |-> cur.base, nargs |-> cur.nargs,
             ctop |-> cur.ctop, nres |-> cur.nres, varargs |-> cur.varargs, cont |-> cur.cont,
             pc |-> pc, free |-> n]
  <2>1. PICK p, f, b, na, ct, nr, va, co, q, fr :
            cur = [proto |-> p, func |-> f, base |-> b, nargs |-> na, ctop |-> ct, nres |-> nr,
                   varargs |-> va, cont |-> co, pc |-> q, free |-> fr]
    BY <1>1 DEF Shape
  <2> QED BY <1>4, <2>1
<1>6. Shape(c)
  BY <1>1, <1>5 DEF Shape
<1>7. /\ Changed(Goto(pc, n), frames, Len(frames), c)
  BY <1>4 DEF Goto, cur, Changed
<1>8. /\ c.func = frames[Len(frames)].func /\ c.base = frames[Len(frames)].base
      /\ c.nres = frames[Len(frames)].nres /\ c.cont = frames[Len(frames)].cont /\ c.proto # Nil
  BY <1>5 DEF cur
<1>9. /\ Chain(Below, Goto(pc, n)) /\ FramesOK(Goto(pc, n)) /\ Len(Goto(pc, n)) = Len(frames)
      /\ Goto(pc, n)[Len(frames)] = c /\ \A k \in 1..Len(frames) - 1 : Goto(pc, n)[k] = frames[k]
  BY <1>1, <1>6, <1>7, <1>8, LastChanged
<1> QED BY <1>5, <1>6, <1>9 DEF Going

\* Values put on the stack from slot r on, where slots are made for them.
LEMMA PutGrown ==
    ASSUME NEW s \in Seq(Value), NEW m \in Int, NEW r \in Int, r >= 1, NEW vs \in Seq(Value),
           vs = <<>> \/ r + Len(vs) - 1 <= m, NEW t, t = Put(Grow(s, m), r, vs)
    PROVE  /\ t \in Seq(Value) /\ Agree(s, t, r) /\ W(t, r, Len(vs)) = vs
           /\ \A j \in Int : j >= r + Len(vs) => Slot(t, j) = Slot(s, j)
<1>1. PICK g \in Seq(Value) : g = Grow(s, m) /\ Len(g) = IF m > Len(s) THEN m ELSE Len(s)
  BY GrowLaid
<1>2. PICK v \in Nat : v = Len(vs)
  OBVIOUS
<1>3. PICK y \in Seq(Value) : y = Put(g, r, vs) /\ y = t
  BY <1>1, PutLaid
<1>4. \A j \in Int : Slot(y, j) = IF j \in r..r + v - 1 /\ j \in 1..Len(g) THEN vs[j - r + 1] ELSE Slot(g, j)
  BY <1>1, <1>2, <1>3, PutSlot
<1>5. \A j \in Int : Slot(g, j) = Slot(s, j)
  BY <1>1, GrowSlot
<1>6. \A j \in Int : j < r => j \notin r..r + v - 1
  OBVIOUS
<1>7. \A j \in Int : j >= r + v => j \notin r..r + v - 1
  OBVIOUS
<1>8. Agree(s, y, r)
  BY <1>4, <1>5, <1>6 DEF Agree
<1>9. \A j \in Int : j >= r + v => Slot(y, j) = Slot(s, j)
  BY <1>4, <1>5, <1>7
<1>10. W(y, r, v) = vs
  <2>1. CASE vs = <<>>
    <3>1. v = 0
      BY <1>2, <2>1
    <3> QED BY <2>1, <3>1, WNone
  <2>2. CASE r + v - 1 <= m
    <3>1. r + v - 1 <= Len(g)
      <4>1. PICK h \in Nat : h = Len(s)
        OBVIOUS
      <4>2. r + v - 1 <= (IF m > h THEN m ELSE h)
        BY <2>2
      <4> QED BY <1>1, <4>1, <4>2
    <3> QED BY <1>1, <1>2, <1>3, <3>1, WPut
  <2> QED BY <1>2, <2>1, <2>2
<1> QED BY <1>2, <1>3, <1>8, <1>9, <1>10

\* Captured variables lie below the registers that no closure may hold.
LEMMA CellsUnder ==
    ASSUME NEW d, NEW fs, Chain(d, fs), NEW us, UpsShape(us), Housed(d, us, fs), NEW n \in Nat,
           fs[Len(fs)].proto # Nil => Held[fs[Len(fs)].proto][fs[Len(fs)].pc] \subseteq 1..n,
           NEW s, NEW t, NEW f \in Int, fs[Len(fs)].base + n <= f, Agree(s, t, f)
    PROVE  CellOf(t, us) = CellOf(s, us)
<1>1. PICK l \in Nat : l = Len(fs) /\ d \in Nat /\ l >= d + 1 /\ l \in d + 1..l /\ Shape(fs[l])
  BY ChainEnds
<1>2. PICK b \in Int, fn \in Int : b = fs[l].base /\ fn = fs[l].func /\ fn <= b
  BY <1>1 DEF Shape
<1>3. b + n <= f
  BY <1>1, <1>2
<1>4. ASSUME NEW u \in Upvalues, us.var[u].state = "open"
      PROVE  Slot(t, us.var[u].slot) = Slot(s, us.var[u].slot)
  <2>1. PICK k \in d + 1..l : Holds(fs[k], us.var[u].slot)
    BY <1>1, <1>4 DEF Housed
  <2>2. PICK x \in Int, c \in Int, e \in Nat : x = us.var[u].slot /\ c = fs[k].base /\ e = fs[k].free
    BY <1>1, <2>1 DEF UpsShape, Chain, Shape
  <2>3. x < b + n
    <3>1. CASE k = l
      <4>1. x - b + 1 \in 1..n
        BY <1>1, <1>2, <2>1, <2>2, <3>1 DEF Holds
      <4> QED BY <4>1
    <3>2. CASE k # l
      <4>1. k \in d + 1..l - 1
        BY <1>1, <3>2
      <4>2. c + e <= fn
        BY <4>1, <1>1, <1>2, <2>2, ChainUnder
      <4>3. x < c + e
        BY <2>1, <2>2 DEF Holds, Inside
      <4> QED BY <1>2, <4>2, <4>3
    <3> QED BY <3>1, <3>2
  <2>4. x < f
    BY <1>3, <2>3
  <2> QED BY <2>2, <2>4 DEF Agree
<1> QED BY <1>4, CellSame

LEMMA VarargIs ==
    ASSUME StackInvariant, StackInvariant', Calling, Compiled(Live, Held), Vararg
    PROVE  Calling' /\ Lua!Vararg
<1>1. /\ At("VARARG") /\ ups' = ups /\ status' = status /\ thread' = thread
  BY DEF Vararg
<1>2. /\ Body /\ status = "run" /\ cur.proto # Nil /\ ins.op = "VARARG" /\ FramesInvariant
      /\ ins = Code[cur.proto][cur.pc] /\ Orderly(Live, Held, cur.proto, cur.pc)
      /\ cur.free = Live[cur.proto][cur.pc] /\ cur.free \in Nat /\ Lua!At("VARARG") /\ Lua!ins = ins
      /\ ~ Consumes(cur.proto, cur.pc)
  BY <1>1, Finding
<1>3. Shape(cur) /\ Pending = <<>> /\ Chain(Below, frames) /\ Housed(Below, ups, frames)
  BY <1>2, Finds
<1>4. PICK xs \in Seq(Value) : xs = cur.varargs
  BY <1>3 DEF Shape
<1>5. PICK a \in Nat, e \in Nat : a = ins.a /\ e = ins.b
  BY <1>1, <1>2, Operands
<1>6. PICK vs \in Seq(Value) : vs = Adjust(xs, e - 1) /\ Len(vs) = IF e = 0 THEN Len(xs) ELSE e - 1
  <2>1. e - 1 \in Int /\ (e - 1 = MultRet <=> e = 0) /\ (e # 0 => e - 1 >= 0)
    BY <1>5 DEF MultRet
  <2>2. Adjust(xs, e - 1) \in Seq(Value)
    BY <2>1, AdjustIs
  <2>3. Len(Adjust(xs, e - 1)) = IF e - 1 = MultRet THEN Len(xs) ELSE IF e - 1 > 0 THEN e - 1 ELSE 0
    BY <2>1, AdjustIs
  <2>4. Len(Adjust(xs, e - 1)) = IF e = 0 THEN Len(xs) ELSE e - 1
    BY <2>1, <2>3
  <2> QED BY <2>2, <2>4
<1>7. PICK v \in Nat : v = Len(vs)
  OBVIOUS
<1>8. PICK b \in Int, n \in Nat : /\ b = cur.base /\ n = cur.free /\ b >= 1 /\ stack \in Seq(Value)
                                  /\ \A i \in Int : Reg(i) = b + i - 1
  BY <1>2, Rooms
<1>s. stack \in Seq(Value) /\ stack' \in Seq(Value)
  BY DEF StackInvariant, Body
<1>9. PICK r \in Int : r = b + a - 1
  OBVIOUS
<1>10. /\ a \in 1..n + 1 /\ Held[cur.proto][cur.pc] \subseteq 1..a - 1
       /\ IF e = 0 THEN a = n + 1 /\ Leads(Live, Held, cur.proto, cur.pc + 1, n, Held[cur.proto][cur.pc], TRUE)
          ELSE Leads(Live, Held, cur.proto, cur.pc + 1, a + e - 2, Held[cur.proto][cur.pc], FALSE)
  BY <1>2, <1>5, <1>8 DEF Orderly
<1>11. r >= b /\ r >= 1
  <2>1. b >= 1 /\ a >= 1
    BY <1>8, <1>10
  <2> QED BY <1>9, <2>1
<1>r. Reg(ins.a) = r
  <2>1. a \in Int
    OBVIOUS
  <2> QED BY <1>5, <1>8, <1>9, <2>1
<1>12. PICK g \in Int : g = IF vs = <<>> THEN 0 ELSE r + v - 1
  OBVIOUS
<1>13. stack' = Put(Grow(stack, g), r, vs)
  BY <1>4, <1>5, <1>6, <1>7, <1>r, <1>12 DEF Vararg
<1>14. /\ top' = IF e = 0 THEN r + v ELSE top
       /\ frames' = Goto(cur.pc + 1, IF e = 0 THEN a - 1 ELSE a - 1 + v)
  BY <1>4, <1>5, <1>6, <1>7, <1>r DEF Vararg
<1>15. /\ stack' \in Seq(Value) /\ Agree(stack, stack', r) /\ W(stack', r, v) = vs
  <2>1. vs = <<>> \/ r + Len(vs) - 1 <= g
    BY <1>7, <1>12
  <2> QED BY <1>7, <1>s, <1>11, <1>13, <2>1, PutGrown
<1>16. Agree(stack, stack', cur.base)
  <2>1. \A j \in Int : j < b => j < r
    BY <1>11
  <2> QED BY <1>8, <1>15, <2>1 DEF Agree
<1>17. Contents' = CellOf(stack', ups) => Contents' = Contents
  <2>1. a - 1 \in Nat /\ b + (a - 1) <= r
    BY <1>9, <1>10
  <2>2. frames[Len(frames)] = cur /\ UpsShape(ups)
    BY DEF cur, StackInvariant, FramesInvariant, UpsOK
  <2>3. Held[cur.proto][cur.pc] \subseteq 1..(a - 1) /\ cur.base + (a - 1) <= r
    BY <1>8, <1>10, <2>1
  <2>4. CellOf(stack', ups) = CellOf(stack, ups)
    BY <1>3, <1>15, <2>1, <2>2, <2>3, CellsUnder
  <2>5. Contents = CellOf(stack, ups)
    BY <1>2, Sees
  <2> QED BY <2>4, <2>5
<1>18. PICK pc : pc = cur.pc + 1 /\ pc = Lua!cur.pc + 1
  BY <1>2, Sees
<1>19. Lua!regs = W(stack, b, n) /\ Lua!cur.varargs = xs
  BY <1>2, <1>4, <1>8, Sees
<1>20. CASE e = 0
  <2>1. a - 1 = n /\ r = b + n /\ vs = xs
    <3>1. a - 1 = n /\ r = b + n /\ e - 1 = MultRet
      BY <1>9, <1>10, <1>20 DEF MultRet
    <3> QED BY <3>1, <1>6, AdjustAll
  <2>2. top' >= cur.base + n
    BY <1>8, <1>14, <1>20, <2>1
  <2>3. /\ Calling'
        /\ Changed(Activated', Activated, Lua!depth, Now(stack', pc, n, OpenFrom(stack', top', n, TRUE)))
        /\ Homes' = Homes /\ Contents' = CellOf(stack', ups) /\ Used' = Used /\ Final' = Final
    BY <1>1, <1>2, <1>10, <1>14, <1>16, <1>18, <1>20, <2>1, <2>2, Steps
  <2>4. OpenFrom(stack', top', n, TRUE) = xs
    <3>1. top' - b - n = v
      BY <1>14, <1>20, <2>1
    <3>2. OpenFrom(stack', top', n, TRUE) = W(stack', b + n, top' - b - n)
      BY <1>8 DEF OpenFrom
    <3> QED BY <1>15, <2>1, <3>1, <3>2
  <2>5. W(stack', b, n) = Lua!regs
    <3>1. \A j \in b..b + n - 1 : Slot(stack', j) = Slot(stack, j)
      BY <1>15, <2>1 DEF Agree
    <3> QED BY <1>s, <1>19, <3>1, WAgrees
  <2>6. Now(stack', pc, n, xs) = Opens(Lua!cur, pc, xs)
    BY <1>2, <1>8, <2>5, NowIs
  <2>7. Lua!Become([Lua!cur EXCEPT !.pc = @ + 1, !.more = Lua!cur.varargs])
    BY <1>18, <1>19, <2>3, <2>4, <2>6 DEF Lua!Become, Changed, Opens
  <2> QED BY <1>1, <1>2, <1>5, <1>17, <1>20, <2>3, <2>7 DEF Lua!Vararg
<1>21. CASE e # 0
  <2>1. PICK w \in Nat : w = a - 1 /\ v = e - 1
    BY <1>6, <1>7, <1>10, <1>21
  <2>2. w + v = a + e - 2 /\ w + v = a - 1 + v /\ w <= n /\ b + w = r
    BY <1>9, <1>10, <2>1
  <2>3. PICK x \in Nat : x = w + v
    OBVIOUS
  <2>4. /\ Calling'
        /\ Changed(Activated', Activated, Lua!depth, Now(stack', pc, x, OpenFrom(stack', top', x, FALSE)))
        /\ Homes' = Homes /\ Contents' = CellOf(stack', ups) /\ Used' = Used /\ Final' = Final
    <3>1. frames' = Goto(pc, x)
      BY <1>14, <1>18, <1>21, <2>2, <2>3
    <3>2. Leads(Live, Held, cur.proto, pc, x, Held[cur.proto][cur.pc], FALSE)
      BY <1>10, <1>18, <1>21, <2>2, <2>3
    <3> QED BY <1>1, <1>2, <1>16, <3>1, <3>2, Steps
  <2>5. Now(stack', pc, x, <<>>) = Gone(Lua!cur, pc, W(stack', cur.base, x))
    BY <1>2, <1>3, NowIs
  <2>6. W(stack', b, x) = SubSeq(Lua!regs, 1, w) \o vs
    <3>1. W(stack', b, w) \o W(stack', b + w, v) = W(stack', b, w + v)
      <4>1. Joined(stack', b, w, v)
        BY <1>s, WJoin
      <4> QED BY <4>1 DEF Joined
    <3>2. \A j \in b..b + w - 1 : Slot(stack', j) = Slot(stack, j)
      BY <1>15, <2>2 DEF Agree
    <3>3. W(stack', b, w) = W(stack, b, w)
      BY <1>s, <3>2, WAgrees
    <3>4. w <= cur.free
      BY <1>8, <2>2
    <3>5. W(stack, cur.base, w) = SubSeq(Lua!regs, 1, w)
      BY <1>2, <3>4, RegsUpto
    <3> QED BY <1>8, <1>15, <2>2, <2>3, <3>1, <3>3, <3>5
  <2>7. Lua!Become([Lua!cur EXCEPT !.pc = @ + 1,
                                   !.regs = Upto(@, ins.a - 1) \o Adjust(Lua!cur.varargs, ins.b - 1)])
    <3>1. Gone(Lua!cur, pc, SubSeq(Lua!regs, 1, w) \o vs)
             = [Lua!cur EXCEPT !.pc = @ + 1, !.regs = Upto(@, ins.a - 1) \o Adjust(Lua!cur.varargs, ins.b - 1)]
      BY <1>5, <1>6, <1>18, <1>19, <2>1 DEF Gone, Upto, Lua!regs
    <3> QED BY <1>8, <2>4, <2>5, <2>6, <3>1 DEF Lua!Become, Changed, OpenFrom
  <2> QED BY <1>1, <1>2, <1>5, <1>17, <1>21, <2>4, <2>7
      DEF Lua!Vararg, Upto, Lua!Upto, Adjust, Lua!Adjust, MultRet, Lua!MultRet
<1> QED BY <1>20, <1>21

LEMMA CloseIs ==
    ASSUME StackInvariant, StackInvariant', Calling, Compiled(Live, Held), Close
    PROVE  Calling' /\ Lua!Close
<1>1. /\ At("CLOSE") /\ ups' = Closed(ups, stack, Reg(ins.a)) /\ frames' = Goto(cur.pc + 1, ins.a - 1)
      /\ stack' = stack /\ status' = status /\ thread' = thread
  BY DEF Close
<1>2. /\ Body /\ status = "run" /\ cur.proto # Nil /\ ins.op = "CLOSE" /\ FramesInvariant
      /\ ins = Code[cur.proto][cur.pc] /\ Orderly(Live, Held, cur.proto, cur.pc) /\ cur.proto \in Protos
      /\ cur.free = Live[cur.proto][cur.pc] /\ cur.free \in Nat /\ Lua!At("CLOSE") /\ Lua!ins = ins
      /\ ~ Consumes(cur.proto, cur.pc)
  BY <1>1, Finding
<1>3. Pending = <<>> /\ Chain(Below, frames) /\ Housed(Below, ups, frames)
  BY <1>2, Finds
<1>4. ins.a \in Nat /\ ins.a \in 1..cur.free + 1
      /\ Leads(Live, Held, cur.proto, cur.pc + 1, ins.a - 1, Held[cur.proto][cur.pc] \cap 1..ins.a - 1, FALSE)
  BY <1>1, <1>2, Operands DEF Orderly
<1>5. PICK n \in Nat : n = ins.a - 1 /\ n <= cur.free
  <2>1. ins.a - 1 \in Nat /\ ins.a - 1 <= cur.free
    BY <1>2, <1>4
  <2> QED BY <2>1
<1>6. PICK pc : pc = cur.pc + 1 /\ pc = Lua!cur.pc + 1
  BY <1>2, Sees
<1>7. Leads(Live, Held, cur.proto, pc, n, Held[cur.proto][cur.pc] \cap 1..n, FALSE)
  BY <1>4, <1>5, <1>6
<1>8. /\ pc \in DOMAIN Code[cur.proto] /\ n <= Room[cur.proto]
      /\ Held[cur.proto][cur.pc] \cap 1..n \subseteq Held[cur.proto][pc]
  <2>1. PICK h : h = Held[cur.proto][cur.pc] \cap 1..n
    OBVIOUS
  <2>2. Leads(Live, Held, cur.proto, pc, n, h, FALSE)
    BY <1>7, <2>1
  <2>3. pc \in DOMAIN Code[cur.proto] /\ n <= Room[cur.proto] /\ h \subseteq Held[cur.proto][pc]
    BY <1>2, <2>2, LeadsTo
  <2> QED BY <2>1, <2>3
<1>9. frames' = Goto(pc, n)
  BY <1>1, <1>5, <1>6
<1>10. Going(frames', pc, n)
  BY <1>2, <1>8, <1>9, GoneChain
<1>11. PICK b \in Int : b = cur.base /\ \A r \in Int : Reg(r) = b + r - 1
  BY <1>2, Rooms
<1>12. Reg(ins.a) = b + n
  <2>1. PICK a \in Int : a = ins.a /\ a = n + 1
    BY <1>4, <1>5
  <2>2. Reg(a) = b + a - 1 /\ b + a - 1 = b + n
    BY <1>11, <2>1
  <2> QED BY <2>1, <2>2
<1>13. PICK l \in Nat, d \in Nat : l = Len(frames) /\ d = Below /\ l \in d + 1..l
  BY <1>3, ChainEnds
<1>14. PICK us : us = ups' /\ us = Closed(ups, stack, frames[l].base + n)
  BY <1>1, <1>11, <1>12, <1>13 DEF cur
<1>15. UpsOK(ups)
  BY <1>2 DEF FramesInvariant
<1>16. /\ UpsOK(us) /\ Housed(d, us, frames)
       /\ HomeOf(us, frames, d) = Forgotten(HomeOf(ups, frames, d), l - d, n)
       /\ \A u \in Upvalues : us.var[u].state = "open" =>
                ups.var[u].state = "open" /\ us.var[u].slot = ups.var[u].slot
                /\ ups.var[u].slot < frames[l].base + n
  <2>1. n <= frames[l].free
    BY <1>5, <1>13 DEF cur
  <2>2. Chain(d, frames) /\ Housed(d, ups, frames) /\ l \in d + 1..Len(frames)
    BY <1>3, <1>13
  <2>3. ClosedFrom(us, ups, stack, frames, l, n)
    BY <1>14 DEF ClosedFrom
  <2>4. PICK fs, vs, s, k, m, c : fs = frames /\ vs = ups /\ s = stack /\ k = l /\ m = n /\ c = us
    OBVIOUS
  <2>5. /\ Chain(d, fs) /\ UpsOK(vs) /\ Housed(d, vs, fs) /\ k \in d + 1..Len(fs) /\ m \in Nat
        /\ m <= fs[k].free /\ ClosedFrom(c, vs, s, fs, k, m)
    BY <1>15, <2>1, <2>2, <2>3, <2>4
  <2>6. d \in Nat
    BY <1>13
  <2>7. /\ UpsOK(c) /\ Housed(d, c, fs)
        /\ HomesFrom(HomeOf(c, fs, d), HomeOf(vs, fs, d), k, d, m)
        /\ OpenBelow(c, vs, fs, k, m)
    BY <2>5, <2>6, HomeForget
  <2> QED BY <2>4, <2>7 DEF HomesFrom, OpenBelow
<1>17. UpsShape(us)
  BY <1>16 DEF UpsOK
<1>18. ASSUME NEW u \in Upvalues, us.var[u].state = "open"
       PROVE  \E k \in d + 1..Len(frames) : /\ k \in d + 1..Len(frames') /\ frames'[k].base = frames[k].base
                                /\ Holds(frames[k], us.var[u].slot) /\ Holds(frames'[k], us.var[u].slot)
  <2>1. PICK k \in d + 1..l : Holds(frames[k], us.var[u].slot)
    BY <1>13, <1>16, <1>18 DEF Housed
  <2>2. Len(frames') = l
    BY <1>10, <1>13 DEF Going
  <2>3. CASE k # l
    <3>1. k \in 1..l - 1
      BY <1>13, <2>3
    <3>2. frames'[k] = frames[k]
      BY <1>10, <1>13, <3>1 DEF Going
    <3> QED BY <1>13, <2>1, <2>2, <3>2
  <2>4. CASE k = l
    <3>1. /\ frames'[l].proto = cur.proto /\ frames'[l].base = b /\ frames'[l].pc = pc /\ frames'[l].free = n
      BY <1>10, <1>11, <1>13 DEF Going
    <3>2. frames[l].base = b /\ frames[l].proto = cur.proto /\ frames[l].pc = cur.pc
      BY <1>11, <1>13 DEF cur
    <3>3. PICK x \in Int : x = us.var[u].slot /\ x < b + n
      BY <1>16, <1>17, <1>18, <3>2 DEF UpsShape
    <3>4. b <= x /\ x - b + 1 \in Held[cur.proto][cur.pc]
      BY <2>1, <2>4, <3>2, <3>3 DEF Holds, Inside
    <3>5. x - b + 1 \in 1..n
      BY <3>3, <3>4
    <3>6. x - b + 1 \in Held[cur.proto][pc]
      BY <1>8, <3>4, <3>5
    <3>7. Holds(frames'[l], x)
      BY <1>2, <3>1, <3>3, <3>4, <3>6 DEF Holds, Inside
    <3> QED BY <1>13, <2>1, <2>2, <2>4, <3>1, <3>2, <3>3, <3>7
  <2> QED BY <2>3, <2>4
<1>19. Housed(d, us, frames') /\ HomeOf(us, frames', d) = HomeOf(us, frames, d)
  <2>1. Chain(d, frames) /\ Chain(d, frames')
    BY <1>3, <1>10, <1>13 DEF Going
  <2> QED BY <1>17, <1>18, <2>1, HomeKept
<1>20. Agree(stack, stack', cur.base)
  BY <1>1 DEF Agree
<1>21. /\ Calling'
       /\ Changed(Activated', Activated, Lua!depth, Now(stack', pc, n, OpenFrom(stack', top', n, FALSE)))
       /\ Homes' = HomeOf(ups', frames', Below) /\ Contents' = CellOf(stack', ups')
       /\ Used' = UsedOf(ups') /\ Final' = <<>>
  <2>1. Housed(Below, ups', frames') /\ status' = "run"
    BY <1>1, <1>2, <1>13, <1>14, <1>19
  <2> QED BY <1>1, <1>2, <1>7, <1>9, <1>20, <2>1, Advance
<1>22. /\ Homes = HomeOf(ups, frames, d) /\ Contents = CellOf(stack, ups) /\ Used = UsedOf(ups)
       /\ Final = <<>> /\ Lua!depth = l - d
  BY <1>2, <1>13, Sees
<1>23. CellOf(stack, us) = CellOf(stack, ups) /\ UsedOf(us) = UsedOf(ups)
  <2>1. b = frames[l].base
    BY <1>11, <1>13 DEF cur
  <2>2. b + n \in Int
    OBVIOUS
  <2>3. us = Closed(ups, stack, b + n)
    BY <1>14, <2>1
  <2> QED BY <1>15, <2>2, <2>3, CellClosed
<1>24. Contents' = Contents /\ Used' = Used /\ Final' = Final
  BY <1>1, <1>14, <1>21, <1>22, <1>23
<1>25. Homes' = Forgotten(Homes, Lua!depth, n)
  BY <1>13, <1>14, <1>16, <1>19, <1>21, <1>22
<1>26. Lua!Forget(Lua!depth, ins.a - 1)
  BY <1>5, <1>25 DEF Lua!Forget, Forgotten, Lua!Nowhere
<1>27. Now(stack', pc, n, <<>>) = Gone(Lua!cur, pc, W(stack', cur.base, n))
  BY <1>2, <1>3, NowIs
<1>28. W(stack', cur.base, n) = SubSeq(Lua!regs, 1, n)
  BY <1>1, <1>2, <1>5, RegsUpto, SMTT(30)
<1>29. Lua!Become([Lua!cur EXCEPT !.pc = @ + 1, !.regs = Lua!Upto(@, ins.a - 1)])
  <2>1. Gone(Lua!cur, pc, SubSeq(Lua!regs, 1, n))
           = [Lua!cur EXCEPT !.pc = @ + 1, !.regs = Lua!Upto(@, ins.a - 1)]
    BY <1>5, <1>6 DEF Gone, Lua!Upto, Lua!regs
  <2> QED BY <1>21, <1>27, <1>28, <2>1 DEF Lua!Become, Changed, OpenFrom
<1> QED BY <1>1, <1>2, <1>21, <1>24, <1>26, <1>29 DEF Lua!Close

\* The list has an upvalue for a register exactly if a variable lives there.
LEMMA HomeAt ==
    ASSUME NEW d \in Nat, NEW fs, Chain(d, fs), NEW us, UpsOK(us), Housed(d, us, fs), NEW r \in Nat, r >= 1,
           r <= fs[Len(fs)].free, NEW k \in Int, k = fs[Len(fs)].base + r - 1
    PROVE  Shared(us, k) <=> \E u \in UsedOf(us) : HomeOf(us, fs, d)[u] = <<Len(fs) - d, r>>
<1>1. PICK l \in Nat : l = Len(fs) /\ l >= d + 1 /\ l \in d + 1..l
  BY ChainEnds
<1>2. PICK b \in Int, n \in Nat : b = fs[l].base /\ n = fs[l].free /\ r <= n /\ k = b + r - 1
  BY <1>1 DEF Chain, Shape
<1>s. PICK y \in Int : y = k /\ y = b + r - 1 /\ r <= n /\ r >= 1
  BY <1>2
<1>3. UpsShape(us)
  BY DEF UpsOK
<1>4. ASSUME Shared(us, k)
      PROVE  \E u \in UsedOf(us) : HomeOf(us, fs, d)[u] = <<l - d, r>>
  <2>1. PICK u \in Upvalues : us.var[u].state = "open" /\ us.var[u].slot = k
    BY <1>4, SharedIs
  <2>2. b <= y /\ y < b + n /\ y - b + 1 = r
    BY <1>s
  <2>3. Inside(fs[l], us.var[u].slot) /\ us.var[u].slot \in Int /\ us.var[u].slot - fs[l].base + 1 = r
    BY <2>1, <2>2, <1>2, <1>s DEF Inside
  <2>4. HomeOf(us, fs, d)[u] = <<l - d, us.var[u].slot - fs[l].base + 1>>
    <3>1. PICK i \in d + 1..Len(fs) : i = l
      BY <1>1
    <3>2. Inside(fs[i], us.var[u].slot)
      BY <2>3, <3>1
    <3>3. HomeOf(us, fs, d)[u] = <<i - d, us.var[u].slot - fs[i].base + 1>>
      BY <2>1, <2>3, <3>2, HomeIs
    <3> QED BY <3>1, <3>3
  <2>5. HomeOf(us, fs, d)[u] = <<l - d, r>>
    BY <2>3, <2>4
  <2>6. u \in UsedOf(us)
    BY <2>1 DEF UsedOf
  <2> QED BY <2>5, <2>6
<1>5. ASSUME NEW u \in UsedOf(us), HomeOf(us, fs, d)[u] = <<l - d, r>>
      PROVE  Shared(us, k)
  <2>1. u \in Upvalues
    BY DEF UsedOf
  <2>2. us.var[u].state = "open"
    <3>1. ASSUME us.var[u].state # "open" PROVE FALSE
      <4>1. HomeOf(us, fs, d)[u] = <<0, 0>>
        BY <2>1, <3>1, HomeNot
      <4>2. r = 0
        BY <4>1, <1>5
      <4> QED BY <4>2
    <3> QED BY <3>1
  <2>3. PICK j \in d + 1..Len(fs) : HomeOf(us, fs, d)[u] = <<j - d, us.var[u].slot - fs[j].base + 1>>
    BY <2>1, <2>2, <1>3, HomeIn
  <2>4. PICK x \in Int : x = us.var[u].slot
    BY <2>1, <1>3 DEF UpsShape
  <2>5. j - d = l - d /\ x - fs[j].base + 1 = r
    BY <2>3, <2>4, <1>5
  <2>6. j = l
    BY <2>5, <1>1
  <2>7. x - b + 1 = r
    BY <2>5, <2>6, <1>2
  <2>8. x = k
    BY <2>7, <1>2, SMTT(30)
  <2> QED BY <2>1, <2>2, <2>4, <2>8, SharedIs
<1> QED BY <1>1, <1>4, <1>5

\* Wherever the running frame goes, its variables stay.
LEMMA HousedOn ==
    ASSUME StackInvariant, Calling, Compiled(Live, Held), status = "run", cur.proto # Nil,
           NEW pc, NEW n, NEW open \in BOOLEAN,
           Leads(Live, Held, cur.proto, pc, n, Held[cur.proto][cur.pc], open)
    PROVE  /\ Going(Goto(pc, n), pc, n) /\ Housed(Below, ups, Goto(pc, n))
           /\ HomeOf(ups, Goto(pc, n), Below) = HomeOf(ups, frames, Below)
<1>1. /\ Chain(Below, frames) /\ Shape(cur) /\ cur.proto \in Protos /\ Housed(Below, ups, frames)
  BY Finds
<1>2. PICK l \in Nat, d \in Nat : l = Len(frames) /\ d = Below /\ l >= d + 1 /\ l \in 1..l
  BY <1>1, ChainEnds
<1>3. /\ pc \in DOMAIN Code[cur.proto] /\ n \in Nat /\ n <= Room[cur.proto]
      /\ Held[cur.proto][cur.pc] \subseteq Held[cur.proto][pc] /\ Held[cur.proto][pc] \subseteq 1..n
  BY <1>1, LeadsTo
<1>4. PICK gs : gs = Goto(pc, n)
  OBVIOUS
<1>5. Going(gs, pc, n)
  BY <1>3, <1>4, GoneChain
<1>6. /\ Chain(d, gs) /\ Len(gs) = l /\ \A k \in 1..l - 1 : gs[k] = frames[k]
      /\ gs[l].base = frames[l].base /\ gs[l].proto = frames[l].proto /\ gs[l].pc = pc /\ gs[l].free = n
      /\ frames[l].pc = cur.pc /\ frames[l].proto = cur.proto
  BY <1>2, <1>5 DEF Going, cur
<1>7. UpsShape(ups)
  BY DEF StackInvariant, FramesInvariant, UpsOK
<1>8. \A r \in Held[gs[l].proto][frames[l].pc] :
           r \in 1..frames[l].free => r <= gs[l].free /\ r \in Held[gs[l].proto][gs[l].pc]
  <2>1. \A r \in Held[cur.proto][cur.pc] : r <= n /\ r \in Held[cur.proto][pc]
    BY <1>3
  <2> QED BY <2>1, <1>6
<1>9. Chain(d, frames) /\ Housed(d, ups, frames)
  BY <1>1, <1>2
<1>10. Housed(d, ups, gs) /\ HomeOf(ups, gs, d) = HomeOf(ups, frames, d)
  BY <1>9, <1>2, <1>6, <1>7, <1>8, HousedLast
<1> QED BY <1>2, <1>4, <1>5, <1>10

\* The running frame writes the register behind its last one.
LEMMA GetsNext ==
    ASSUME StackInvariant, StackInvariant', Calling, Compiled(Live, Held), status = "run", cur.proto # Nil,
           NEW n \in Nat, n = cur.free, n + 1 <= Room[cur.proto], NEW v \in Value,
           stack' = Put(stack, Reg(n + 1), <<v>>)
    PROVE  /\ Agree(stack, stack', cur.base + n)
           /\ W(stack', cur.base, n + 1) = Append(W(stack, cur.base, n), v)
<1>1. PICK b \in Int, l \in Nat, q \in Nat :
              /\ b = cur.base /\ l = Len(stack) /\ q = Room[cur.proto]
              /\ b >= 1 /\ b + q - 1 <= l /\ stack \in Seq(Value)
              /\ \A i \in Int : Reg(i) = b + i - 1
  BY Rooms
<1>s. stack \in Seq(Value) /\ b >= 1 /\ b + q - 1 <= l
  BY <1>1
<1>2. Reg(n + 1) = b + n /\ n + 1 <= q
  <2>1. PICK i \in Int : i = n + 1 /\ b + i - 1 = b + n
    OBVIOUS
  <2>2. Reg(i) = b + i - 1
    BY <1>1
  <2> QED BY <2>1, <2>2, <1>1
<1>3. PICK x \in Int : x = b + n /\ x \in 1..l
  BY <1>2, <1>s
<1>4. PICK vs \in Seq(Value) : vs = <<v>> /\ Len(vs) = 1 /\ vs[1] = v
  BY OneValue
<1>5. stack' = Put(stack, x, vs)
  BY <1>2, <1>3, <1>4
<1>6. ASSUME NEW j \in Int
      PROVE  Slot(Put(stack, x, vs), j) = IF j \in x..x + Len(vs) - 1 /\ j \in 1..Len(stack) THEN vs[j - x + 1]
                                          ELSE Slot(stack, j)
  BY <1>s, PutSlot
<1>7. \A j \in Int : j < x => Slot(stack', j) = Slot(stack, j)
  <2>1. \A j \in Int : j < x => j \notin x..x + Len(vs) - 1
    OBVIOUS
  <2> QED BY <1>5, <1>6, <2>1
<1>8. Slot(stack', x) = v
  <2>1. x \in x..x + 1 - 1 /\ x \in 1..l /\ x - x + 1 = 1
    <3>1. x \in 1..l /\ x \in Int
      BY <1>3
    <3> QED BY <3>1
  <2>2. Slot(Put(stack, x, vs), x) = IF x \in x..x + 1 - 1 /\ x \in 1..l THEN vs[x - x + 1] ELSE Slot(stack, x)
    BY <1>1, <1>4, <1>6
  <2> QED BY <1>4, <1>5, <2>1, <2>2
<1>9. stack' \in Seq(Value)
  BY DEF StackInvariant, Body
<1>10. W(stack', b, n + 1) = Append(W(stack', b, n), Slot(stack', b + n))
  BY <1>9, WAppend
<1>11. W(stack', b, n) = W(stack, b, n)
  <2>1. \A j \in b..b + n - 1 : j \in Int /\ j < x
    BY <1>3
  <2>2. \A j \in b..b + n - 1 : Slot(stack', j) = Slot(stack, j)
    BY <2>1, <1>7
  <2>3. PICK m \in Int : m = n
    OBVIOUS
  <2>4. \A j \in b..b + m - 1 : Slot(stack', j) = Slot(stack, j)
    BY <2>2, <2>3
  <2>5. W(stack', b, m) = W(stack, b, m)
    BY <1>s, <1>9, <2>4, WAgrees
  <2> QED BY <2>3, <2>5
<1> QED BY <1>1, <1>3, <1>7, <1>8, <1>10, <1>11 DEF Agree

\* us is vs with the upvalue u opened at slot k.
OpensAt(us, vs, k, u) == us = Opened(vs, k, u)
LEMMA OpensVar ==
    ASSUME NEW vs, UpsShape(vs), NEW k \in Int, NEW u \in Upvalues, NEW us, OpensAt(us, vs, k, u)
    PROVE  /\ us.var[u].state = "open" /\ us.var[u].slot = k
           /\ \A v \in Upvalues : v # u => us.var[v] = vs.var[v]
<1>1. us.var = [vs.var EXCEPT ![u] = [state |-> "open", slot |-> k, val |-> Nil]]
  BY DEF OpensAt, Opened
<1>2. vs.var = [v \in Upvalues |-> vs.var[v]]
  BY DEF UpsShape
<1>3. us.var[u] = [state |-> "open", slot |-> k, val |-> Nil]
  BY <1>1, <1>2
<1>4. us.var[u].state = "open" /\ us.var[u].slot = k
  BY <1>3
<1>5. \A v \in Upvalues : v # u => us.var[v] = vs.var[v]
  BY <1>1, <1>2
<1> QED BY <1>4, <1>5

\* The home of an upvalue with this state and slot.
HomeAs(state, slot, fs, d) ==
    IF state # "open" THEN <<0, 0>>
    ELSE IF Owners(fs, d, slot) = {} THEN <<-1, -1>>
    ELSE LET i == CHOOSE i \in Owners(fs, d, slot) : TRUE
         IN  <<i, slot - fs[i + d].base + 1>>

LEMMA HomeVar ==
    ASSUME NEW us, NEW fs, NEW d, NEW v \in Upvalues
    PROVE  HomeOf(us, fs, d)[v] = HomeAs(us.var[v].state, us.var[v].slot, fs, d)
BY DEF HomeOf, HomeAs

LEMMA ClosureIs ==
    ASSUME StackInvariant, StackInvariant', Calling, Compiled(Live, Held), Closure
    PROVE  Calling' /\ Lua!Closure
<1>1. /\ At("CLOSURE") /\ Assign(ins.a, Fun) /\ status' = status /\ thread' = thread
      /\ \/ Shared(ups, Reg(ins.b)) /\ ups' = ups
         \/ /\ ~ Shared(ups, Reg(ins.b))
            /\ \E u \in Upvalues : ups.var[u].state # "open" /\ ups' = Opened(ups, Reg(ins.b), u)
  BY DEF Closure
<1>2. /\ Body /\ status = "run" /\ cur.proto # Nil /\ ins.op = "CLOSURE" /\ FramesInvariant
      /\ ins = Code[cur.proto][cur.pc] /\ Orderly(Live, Held, cur.proto, cur.pc) /\ cur.proto \in Protos
      /\ cur.free = Live[cur.proto][cur.pc] /\ cur.free \in Nat /\ Lua!At("CLOSURE") /\ Lua!ins = ins
      /\ ~ Consumes(cur.proto, cur.pc)
  BY <1>1, Finding
<1>3. Pending = <<>> /\ Chain(Below, frames) /\ Housed(Below, ups, frames)
  BY <1>2, Finds
<1>p. PICK pc : pc = cur.pc + 1
  OBVIOUS
<1>4. PICK n \in Nat, r \in Nat :
          n = cur.free /\ r = ins.b /\ r \in 1..n /\ pc = cur.pc + 1 /\ ins.a = n + 1 /\ pc = Lua!cur.pc + 1
  <2>1. ins.b \in Nat
    BY <1>1, <1>2, Operands
  <2>2. cur.pc + 1 = Lua!cur.pc + 1
    BY <1>2, Sees
  <2>3. ins.a = cur.free + 1 /\ ins.b \in 1..cur.free
    BY <1>2 DEF Orderly
  <2> QED BY <1>2, <1>p, <2>1, <2>2, <2>3
<1>5. PICK held : held = Held[cur.proto][cur.pc] \cup {r}
  OBVIOUS
<1>6. Leads(Live, Held, cur.proto, pc, n + 1, held, FALSE)
  BY <1>2, <1>4, <1>5 DEF Orderly
<1>7. /\ Leads(Live, Held, cur.proto, pc, n + 1, Held[cur.proto][cur.pc], FALSE)
      /\ r \in Held[cur.proto][pc]
  BY <1>5, <1>6 DEF Leads
<1>8. n + 1 <= Room[cur.proto]
  BY <1>2, <1>6, LeadsTo
<1>9. /\ stack' = Put(stack, Reg(n + 1), <<Fun>>) /\ frames' = Goto(pc, n + 1)
  <2>1. PICK m \in Int : m = n + 1 /\ n >= 0
    OBVIOUS
  <2>2. Max({n, m}) = m
    BY <2>1, MaxOfTwo
  <2> QED BY <1>1, <1>4, <2>1, <2>2 DEF Assign
<1>10. PICK b \in Int : b = cur.base /\ \A i \in Int : Reg(i) = b + i - 1
  BY <1>2, Rooms
<1>11. /\ Agree(stack, stack', b + n)
       /\ W(stack', b, n + 1) = Append(W(stack, b, n), Fun)
  BY <1>2, <1>4, <1>8, <1>9, <1>10, GetsNext, NilValue
<1>12. Agree(stack, stack', cur.base)
  <2>1. \A j \in Int : j < b => j < b + n
    OBVIOUS
  <2> QED BY <2>1, <1>10, <1>11 DEF Agree
<1>13. PICK l \in Nat, d \in Nat : l = Len(frames) /\ d = Below /\ l \in d + 1..l /\ Lua!depth = l - d /\ cur = frames[l]
  BY <1>2, <1>3, ChainEnds, Sees DEF cur
<1>14. PICK k \in Int : k = Reg(ins.b) /\ k = b + r - 1
  <2>1. Reg(r) = b + r - 1
    BY <1>10
  <2> QED BY <1>4, <2>1
<1>15. /\ Homes = HomeOf(ups, frames, d) /\ Contents = CellOf(stack, ups) /\ Used = UsedOf(ups) /\ Final = <<>>
       /\ Lua!regs[r] = Slot(stack, k)
  <2>1. Lua!regs[r] = R(r)
    BY <1>2, <1>4, RegisterIs
  <2> QED BY <1>2, <1>4, <1>13, <1>14, <2>1, Sees DEF R
<1>16. UpsOK(ups) /\ UpsShape(ups)
  BY <1>2 DEF FramesInvariant, UpsOK
<1>17. Shared(ups, k) <=> \E u \in Used : Homes[u] = <<Lua!depth, r>>
  <2>1. PICK fs, us, x, y : fs = frames /\ us = ups /\ x = r /\ y = k /\ x \in Nat /\ y \in Int
    BY <1>4, <1>14
  <2>2. /\ Chain(d, fs) /\ UpsOK(us) /\ Housed(d, us, fs) /\ x >= 1 /\ x <= fs[Len(fs)].free
        /\ y = fs[Len(fs)].base + x - 1
    <3>1. fs[Len(fs)] = cur /\ x >= 1 /\ x <= n
      BY <1>4, <1>13, <2>1
    <3> QED BY <1>3, <1>4, <1>10, <1>13, <1>14, <1>16, <2>1, <3>1
  <2>4. d \in Nat /\ x \in Nat /\ y \in Int
    BY <1>13, <2>1
  <2>3. Shared(us, y) <=> \E u \in UsedOf(us) : HomeOf(us, fs, d)[u] = <<Len(fs) - d, x>>
    BY <2>2, <2>4, HomeAt, ZenonT(60)
  <2> QED BY <1>13, <1>15, <2>1, <2>3
<1>18. CellOf(stack', ups) = CellOf(stack, ups)
  <2>1. PICK f \in Int : f = b + n
    OBVIOUS
  <2>2. Agree(stack, stack', f) /\ frames[Len(frames)].base + frames[Len(frames)].free <= f
    <3>1. frames[Len(frames)].base = b /\ frames[Len(frames)].free = n
      BY <1>4, <1>10 DEF cur
    <3> QED BY <3>1, <1>11, <2>1
  <2> QED BY <1>3, <1>16, <2>2, CellsKept
<1>19. /\ Going(frames', pc, n + 1) /\ Housed(Below, ups, frames')
       /\ HomeOf(ups, frames', Below) = HomeOf(ups, frames, Below)
  BY <1>2, <1>7, <1>9, HousedOn
<1>20. ASSUME Changed(Activated', Activated, Lua!depth, Now(stack', pc, n + 1, OpenFrom(stack', top', n + 1, FALSE)))
       PROVE  Lua!Become([Lua!cur EXCEPT !.pc = @ + 1, !.regs = Append(@, Fun)])
  <2>1. Now(stack', pc, n + 1, <<>>) = Gone(Lua!cur, pc, W(stack', cur.base, n + 1))
    BY <1>2, <1>3, NowIs
  <2>2. Lua!regs = W(stack, b, n)
    BY <1>2, <1>4, <1>10, Sees
  <2>3. W(stack', cur.base, n + 1) = Append(Lua!cur.regs, Fun)
    BY <1>10, <1>11, <2>2 DEF Lua!regs
  <2>4. Gone(Lua!cur, pc, Append(Lua!cur.regs, Fun)) = [Lua!cur EXCEPT !.pc = @ + 1, !.regs = Append(@, Fun)]
    BY <1>4 DEF Gone
  <2> QED BY <1>20, <2>1, <2>3, <2>4 DEF Lua!Become, Changed, OpenFrom
<1>21. CASE Shared(ups, k) /\ ups' = ups
  <2>1. /\ Calling'
        /\ Changed(Activated', Activated, Lua!depth, Now(stack', pc, n + 1, OpenFrom(stack', top', n + 1, FALSE)))
        /\ Homes' = Homes /\ Contents' = CellOf(stack', ups) /\ Used' = Used /\ Final' = Final
    BY <1>1, <1>2, <1>7, <1>9, <1>12, <1>21, Steps
  <2>2. Contents' = Contents
    BY <2>1, <1>15, <1>18
  <2> QED BY <1>1, <1>2, <1>4, <1>17, <1>20, <1>21, <2>1, <2>2 DEF Lua!Closure
<1>22. CASE ~ Shared(ups, k) /\ \E u \in Upvalues : ups.var[u].state # "open" /\ ups' = Opened(ups, k, u)
  <2>1. PICK u \in Upvalues : ups.var[u].state # "open" /\ OpensAt(ups', ups, k, u)
    BY <1>22 DEF OpensAt
  <2>2. PICK us : us = ups' /\ OpensAt(us, ups, k, u)
    BY <2>1
  <2>3. /\ us.var[u].state = "open" /\ us.var[u].slot = k
        /\ \A v \in Upvalues : v # u => us.var[v] = ups.var[v]
    BY <1>16, <2>2, OpensVar
  <2>4. /\ Len(frames') = l /\ frames'[l].base = b /\ frames'[l].free = n + 1 /\ frames'[l].pc = pc
        /\ frames'[l].proto = cur.proto /\ Chain(d, frames')
    BY <1>10, <1>13, <1>19 DEF Going
  <2>5. Inside(frames'[l], k) /\ Holds(frames'[l], k)
    <3>1. b <= k /\ k < b + (n + 1) /\ k - b + 1 = r
      BY <1>4, <1>14
    <3> QED BY <1>2, <1>7, <2>4, <3>1 DEF Inside, Holds
  <2>6. Housed(d, us, frames')
    <3>1. ASSUME NEW v \in Upvalues, us.var[v].state = "open"
          PROVE  \E j \in d + 1..Len(frames') : Holds(frames'[j], us.var[v].slot)
      <4>1. CASE v = u
        BY <4>1, <1>13, <2>3, <2>4, <2>5
      <4>2. CASE v # u
        <5>1. us.var[v] = ups.var[v]
          BY <4>2, <2>3
        <5> QED BY <5>1, <3>1, <1>13, <1>19 DEF Housed
      <4> QED BY <4>1, <4>2
    <3> QED BY <3>1 DEF Housed
  <2>7. HomeOf(us, frames', d)[u] = <<l - d, r>>
    <3>1. PICK j \in d + 1..Len(frames') : j = l
      BY <1>13, <2>4
    <3>2. us.var[u].slot \in Int /\ Inside(frames'[j], us.var[u].slot)
      BY <2>3, <2>5, <3>1
    <3>3. HomeOf(us, frames', d)[u] = <<j - d, us.var[u].slot - frames'[j].base + 1>>
      BY <2>3, <2>4, <3>2, HomeIs, SMTT(30)
    <3>4. us.var[u].slot - frames'[j].base + 1 = r
      BY <1>14, <2>3, <2>4, <3>1
    <3> QED BY <3>1, <3>3, <3>4
  <2>8. \A v \in Upvalues : v # u => HomeOf(us, frames', d)[v] = HomeOf(ups, frames', d)[v]
    <3>1. ASSUME NEW v \in Upvalues, v # u
          PROVE  HomeOf(us, frames', d)[v] = HomeOf(ups, frames', d)[v]
      <4>1. us.var[v] = ups.var[v]
        BY <2>3, <3>1
      <4> QED BY <4>1, HomeVar
    <3> QED BY <3>1
  <2>9. /\ Calling'
        /\ Changed(Activated', Activated, Lua!depth, Now(stack', pc, n + 1, OpenFrom(stack', top', n + 1, FALSE)))
        /\ Homes' = HomeOf(ups', frames', Below) /\ Contents' = CellOf(stack', ups')
        /\ Used' = UsedOf(ups') /\ Final' = <<>>
    <3>1. Housed(Below, ups', frames') /\ status' = "run"
      BY <1>1, <1>2, <1>13, <2>2, <2>6
    <3> QED BY <1>1, <1>2, <1>7, <1>9, <1>12, <3>1, Advance
  <2>10. Homes' = [Homes EXCEPT ![u] = <<Lua!depth, r>>]
    <3>1. PICK g, h : g = Homes' /\ h = Homes
      OBVIOUS
    <3>2. /\ g = [v \in Upvalues |-> g[v]] /\ h = [v \in Upvalues |-> h[v]]
      BY <3>1, <1>15, <2>9 DEF HomeOf
    <3>3. g[u] = <<l - d, r>> /\ \A v \in Upvalues : v # u => g[v] = h[v]
      BY <3>1, <1>13, <1>15, <1>19, <2>2, <2>7, <2>8, <2>9
    <3>4. g = [h EXCEPT ![u] = <<l - d, r>>]
      BY <3>2, <3>3
    <3> QED BY <1>13, <3>1, <3>4
  <2>11. Contents' = [Contents EXCEPT ![u] = Lua!regs[r]]
    <3>1. PICK g, h : g = Contents' /\ h = Contents
      OBVIOUS
    <3>2. /\ g = [v \in Upvalues |-> g[v]] /\ h = [v \in Upvalues |-> h[v]]
      BY <3>1, <1>15, <2>9 DEF CellOf
    <3>3. ASSUME NEW v \in Upvalues, v # u PROVE g[v] = h[v]
      <4>1. g[v] = CellOf(stack', ups)[v]
        BY <3>1, <3>3, <2>2, <2>3, <2>9 DEF CellOf
      <4> QED BY <4>1, <3>1, <1>15, <1>18
    <3>4. g[u] = Slot(stack', k)
      BY <3>1, <2>2, <2>3, <2>9 DEF CellOf
    <3>5. Slot(stack', k) = Slot(stack, k)
      <4>1. k < b + n
        BY <1>4, <1>14
      <4> QED BY <4>1, <1>11 DEF Agree
    <3>6. PICK x : x = Slot(stack, k)
      OBVIOUS
    <3>7. g = [h EXCEPT ![u] = x]
      BY <3>2, <3>3, <3>4, <3>5, <3>6
    <3> QED BY <1>15, <3>1, <3>6, <3>7
  <2>12. Used' = Used \cup {u}
    BY <1>15, <2>2, <2>3, <2>9 DEF UsedOf
  <2>13. Homes[u] = <<0, 0>>
    BY <1>15, <2>1, HomeNot
  <2>14. Lua!Become([Lua!cur EXCEPT !.pc = @ + 1, !.regs = Append(@, Fun)])
    BY <1>20, <2>9
  <2>15. Final' = Final
    BY <1>15, <2>9
  <2> QED BY <1>1, <1>2, <1>4, <1>17, <1>22, <2>9, <2>10, <2>11, <2>12, <2>13, <2>14, <2>15
          DEF Lua!Closure, Lua!Nowhere
<1> QED BY <1>1, <1>14, <1>21, <1>22

LEMMA PutWritten ==
    ASSUME NEW s \in Seq(Value), NEW x \in 1..Len(s), NEW v \in Value, NEW t, t = Put(s, x, <<v>>)
    PROVE  Written(s, t, x, v)
<1>1. PICK vs \in Seq(Value) : vs = <<v>> /\ Len(vs) = 1 /\ vs[1] = v
  BY OneValue
<1>2. ASSUME NEW j \in Int PROVE Slot(t, j) = IF j = x THEN v ELSE Slot(s, j)
  <2>1. Slot(Put(s, x, vs), j) = IF j \in x..x + Len(vs) - 1 /\ j \in 1..Len(s) THEN vs[j - x + 1] ELSE Slot(s, j)
    BY PutSlot
  <2>2. Slot(t, j) = IF j \in x..x + 1 - 1 /\ j \in 1..Len(s) THEN vs[j - x + 1] ELSE Slot(s, j)
    BY <1>1, <2>1
  <2>3. CASE j = x
    <3>1. j \in x..x + 1 - 1 /\ j \in 1..Len(s) /\ j - x + 1 = 1
      BY <2>3
    <3> QED BY <1>1, <2>2, <2>3, <3>1
  <2>4. CASE j # x
    <3>1. j \notin x..x + 1 - 1
      BY <2>4
    <3> QED BY <2>2, <2>4, <3>1
  <2> QED BY <2>3, <2>4
<1> QED BY <1>2 DEF Written

\* The activation a with v in register r.
Sets(a, r, v) == [a EXCEPT !.regs = [a.regs EXCEPT ![r] = v]]

LEMMA WChanged ==
    ASSUME NEW s \in Seq(Value), NEW t \in Seq(Value), NEW k \in Int, NEW n \in Nat, NEW r \in 1..n,
           NEW x \in Int, k + r - 1 = x, NEW v, Written(s, t, x, v)
    PROVE  Changed(W(t, k, n), W(s, k, n), r, v)
<1>1. PICK A, B : A = W(s, k, n) /\ B = W(t, k, n)
  OBVIOUS
<1>2. A = [i \in 1..n |-> A[i]] /\ B = [i \in 1..n |-> B[i]]
  BY <1>1 DEF W
<1>3. ASSUME NEW i \in 1..n PROVE A[i] = Slot(s, k + i - 1) /\ B[i] = Slot(t, k + i - 1)
  BY <1>1 DEF W
<1>4. ASSUME NEW i \in 1..n, i # r PROVE B[i] = A[i]
  <2>1. PICK y \in Int : y = k + i - 1
    OBVIOUS
  <2>2. y # x
    BY <1>4, <2>1
  <2>3. Slot(t, y) = Slot(s, y)
    BY <2>2 DEF Written
  <2> QED BY <1>3, <2>1, <2>3
<1>5. B[r] = v
  <2>1. Slot(t, x) = v
    BY DEF Written
  <2> QED BY <1>3, <2>1
<1>6. B = [A EXCEPT ![r] = v]
  BY <1>2, <1>4, <1>5
<1> QED BY <1>1, <1>6 DEF Changed

\* A register of some frame is written, only its activation changes.
LEMMA ActsStore ==
    ASSUME NEW d, NEW fs, Chain(d, fs), NEW s \in Seq(Value), NEW t \in Seq(Value), NEW x \in Int, NEW v,
           Written(s, t, x, v), NEW k \in d + 1..Len(fs), Inside(fs[k], x), NEW m,
           NEW i, i = k - d, NEW r, r = x - fs[k].base + 1
    PROVE  Changed(ActsOf(t, fs, d, m), ActsOf(s, fs, d, m), i, Sets(ActsOf(s, fs, d, m)[i], r, v))
<1>1. PICK l \in Nat : l = Len(fs) /\ l >= d + 1 /\ d \in Nat
  BY ChainEnds
<1>2. PICK b \in Int, n \in Nat : b = fs[k].base /\ n = fs[k].free /\ b <= x /\ x < b + n
  BY <1>1 DEF Chain, Shape, Inside
<1>s. b <= x /\ x < b + n /\ d \in Nat /\ k \in d + 1..l
  BY <1>1, <1>2
<1>3. PICK q \in 1..n : q = x - b + 1 /\ b + q - 1 = x
  BY <1>s
<1>4. q = r
  BY <1>2, <1>3
<1>5. PICK p \in 1..l - d : p = k - d /\ p + d = k
  BY <1>s
<1>6. p = i
  BY <1>5
<1>7. FramesOK(fs) /\ d <= Len(fs)
  BY <1>1 DEF Chain, Grounded
<1>8. PICK A, B : A = ActsOf(s, fs, d, m) /\ B = ActsOf(t, fs, d, m)
  OBVIOUS
<1>9. ActsAre(A, s, fs, d, m) /\ ActsAre(B, t, fs, d, m)
  BY <1>1, <1>7, <1>8, ActsList
<1>10. /\ (\E T : A \in Seq(T)) /\ (\E T : B \in Seq(T)) /\ Len(A) = l - d /\ Len(B) = l - d
       /\ \A j \in 1..l - d : /\ A[j] = View(s, fs[j + d], IF j + d = l THEN m ELSE <<>>)
                              /\ B[j] = View(t, fs[j + d], IF j + d = l THEN m ELSE <<>>)
  BY <1>1, <1>9 DEF ActsAre
<1>11. ASSUME NEW j \in 1..l - d, j # p
       PROVE  B[j] = A[j]
  <2>1. PICK h \in d + 1..l : h = j + d /\ h # k
    BY <1>5, <1>11, <1>s
  <2>2. PICK bh \in Int, nh \in Nat : bh = fs[h].base /\ nh = fs[h].free
    BY <1>1 DEF Chain, Shape
  <2>3. ~ Inside(fs[h], x)
    <3>1. k \in d + 1..Len(fs) /\ h \in d + 1..Len(fs)
      BY <1>1, <2>1
    <3> QED BY <3>1, <2>1, OneOwner
  <2>4. ~ (bh <= x /\ x < bh + nh)
    BY <2>2, <2>3 DEF Inside
  <2>5. \A y \in bh..bh + nh - 1 : y \in Int /\ y # x
    BY <2>4
  <2>6. \A y \in bh..bh + nh - 1 : Slot(s, y) = Slot(t, y)
    BY <2>5 DEF Written
  <2>7. W(s, bh, nh) = W(t, bh, nh)
    BY <2>6, WAgrees
  <2>8. \A o : View(t, fs[h], o) = View(s, fs[h], o)
    BY <2>2, <2>7 DEF View
  <2> QED BY <1>10, <2>1, <2>8
<1>12. W(t, b, n) = [W(s, b, n) EXCEPT ![q] = v]
  <2>2. Changed(W(t, b, n), W(s, b, n), q, v)
    BY <1>3, WChanged
  <2> QED BY <2>2 DEF Changed
<1>13. B[p] = Sets(A[p], q, v)
  <2>1. PICK o : o = IF k = l THEN m ELSE <<>>
    OBVIOUS
  <2>2. A[p] = View(s, fs[k], o) /\ B[p] = View(t, fs[k], o)
    BY <1>5, <1>10, <2>1
  <2>3. PICK w, y : w = W(s, b, n) /\ y = W(t, b, n) /\ y = [w EXCEPT ![q] = v]
    BY <1>12
  <2>4. /\ A[p] = [proto |-> fs[k].proto, pc |-> fs[k].pc, regs |-> w, more |-> o, varargs |-> fs[k].varargs]
        /\ B[p] = [proto |-> fs[k].proto, pc |-> fs[k].pc, regs |-> y, more |-> o, varargs |-> fs[k].varargs]
    BY <1>2, <2>2, <2>3 DEF View
  <2>5. PICK e, f : e = A[p] /\ f = B[p]
    OBVIOUS
  <2>6. /\ e = [proto |-> e.proto, pc |-> e.pc, regs |-> w, more |-> e.more, varargs |-> e.varargs]
        /\ f = [proto |-> e.proto, pc |-> e.pc, regs |-> y, more |-> e.more, varargs |-> e.varargs]
    BY <2>4, <2>5
  <2>7. f = [e EXCEPT !.regs = y] /\ e.regs = w
    BY <2>6, SMTT(30)
  <2>8. f = [e EXCEPT !.regs = [e.regs EXCEPT ![q] = v]]
    BY <2>3, <2>7
  <2> QED BY <2>5, <2>8 DEF Sets
<1>14. B = [A EXCEPT ![p] = Sets(A[p], q, v)]
  <2>1. PICK T, U : A \in Seq(T) /\ B \in Seq(U)
    BY <1>10
  <2>2. A = [j \in 1..l - d |-> A[j]] /\ B = [j \in 1..l - d |-> B[j]]
    <3>1. A \in [1..Len(A) -> T] /\ B \in [1..Len(B) -> U]
      BY <2>1
    <3> QED BY <3>1, <1>10
  <2> QED BY <2>2, <1>11, <1>13
<1> QED BY <1>4, <1>6, <1>8, <1>14 DEF Changed

\* What the upvalue at slot x holds.
LEMMA CellStore ==
    ASSUME NEW us, UpsOK(us), NEW u \in Upvalues, us.var[u].state = "open", NEW s, NEW t, NEW x \in Int,
           x = us.var[u].slot, NEW v, Written(s, t, x, v)
    PROVE  Changed(CellOf(t, us), CellOf(s, us), u, v)
<1>1. UpsShape(us)
  BY DEF UpsOK
<1>2. PICK A, B : A = CellOf(s, us) /\ B = CellOf(t, us)
  OBVIOUS
<1>3. A = [w \in Upvalues |-> A[w]] /\ B = [w \in Upvalues |-> B[w]]
  BY <1>2 DEF CellOf
<1>4. B[u] = v
  <2>1. Slot(t, x) = v
    BY DEF Written
  <2> QED BY <1>2, <2>1 DEF CellOf
<1>5. ASSUME NEW w \in Upvalues, w # u PROVE B[w] = A[w]
  <2>1. CASE us.var[w].state = "open"
    <3>1. us.var[w].slot \in Int /\ us.var[w].slot # x
      BY <1>1, <1>5, <2>1, SlotOnce DEF UpsShape
    <3>2. Slot(t, us.var[w].slot) = Slot(s, us.var[w].slot)
      BY <3>1 DEF Written
    <3> QED BY <1>2, <2>1, <3>2 DEF CellOf
  <2>2. CASE us.var[w].state # "open"
    BY <1>2, <2>2 DEF CellOf
  <2> QED BY <2>1, <2>2
<1>6. B = [A EXCEPT ![u] = v]
  BY <1>3, <1>4, <1>5
<1> QED BY <1>2, <1>6 DEF Changed

\* us is vs with v in the closed upvalue u.
Keeps(us, vs, u, v) == us = [vs EXCEPT !.var[u].val = v]
LEMMA KeepsIs ==
    ASSUME NEW vs, UpsShape(vs), NEW u \in Upvalues, vs.var[u].state = "closed", NEW v, NEW us, Keeps(us, vs, u, v)
    PROVE  /\ \A w \in Upvalues : us.var[w].state = vs.var[w].state /\ us.var[w].slot = vs.var[w].slot
           /\ UsedOf(us) = UsedOf(vs)
           /\ \A s : Changed(CellOf(s, us), CellOf(s, vs), u, v)
           /\ \A fs, d : HomeOf(us, fs, d) = HomeOf(vs, fs, d)
           /\ \A fs, d : Housed(d, vs, fs) => Housed(d, us, fs)
<1>1. us = [vs EXCEPT !.var = [vs.var EXCEPT ![u] = [vs.var[u] EXCEPT !.val = v]]]
  BY DEF Keeps
<1>2. /\ vs = [open |-> vs.open, var |-> vs.var] /\ vs.var = [w \in Upvalues |-> vs.var[w]]
      /\ vs.var[u] = [state |-> vs.var[u].state, slot |-> vs.var[u].slot, val |-> vs.var[u].val]
  BY DEF UpsShape
<1>3. us.var = [vs.var EXCEPT ![u] = [vs.var[u] EXCEPT !.val = v]]
  BY <1>1, <1>2
<1>4. PICK y : y = [vs.var[u] EXCEPT !.val = v]
  OBVIOUS
<1>5. y.state = "closed" /\ y.slot = vs.var[u].slot /\ y.val = v
  BY <1>2, <1>4
<1>6. us.var[u] = y /\ \A w \in Upvalues : w # u => us.var[w] = vs.var[w]
  BY <1>2, <1>3, <1>4
<1>7. \A w \in Upvalues : us.var[w].state = vs.var[w].state /\ us.var[w].slot = vs.var[w].slot
  BY <1>5, <1>6
<1>8. UsedOf(us) = UsedOf(vs)
  BY <1>7 DEF UsedOf
<1>9. ASSUME NEW s PROVE Changed(CellOf(s, us), CellOf(s, vs), u, v)
  <2>1. PICK A, B : A = CellOf(s, vs) /\ B = CellOf(s, us)
    OBVIOUS
  <2>2. A = [w \in Upvalues |-> A[w]] /\ B = [w \in Upvalues |-> B[w]]
    BY <2>1 DEF CellOf
  <2>3. B[u] = v
    BY <1>5, <1>6, <2>1 DEF CellOf
  <2>4. ASSUME NEW w \in Upvalues, w # u PROVE B[w] = A[w]
    <3>1. us.var[w] = vs.var[w]
      BY <1>6, <2>4
    <3> QED BY <2>1, <3>1 DEF CellOf
  <2>5. B = [A EXCEPT ![u] = v]
    BY <2>2, <2>3, <2>4
  <2> QED BY <2>1, <2>5 DEF Changed
<1>10. ASSUME NEW fs, NEW d PROVE HomeOf(us, fs, d) = HomeOf(vs, fs, d)
  <2>1. ASSUME NEW w \in Upvalues PROVE HomeOf(us, fs, d)[w] = HomeOf(vs, fs, d)[w]
    <3>1. us.var[w].state = vs.var[w].state /\ us.var[w].slot = vs.var[w].slot
      BY <1>7
    <3> QED BY <3>1, HomeVar
  <2>2. PICK A, B : A = HomeOf(vs, fs, d) /\ B = HomeOf(us, fs, d)
    OBVIOUS
  <2>3. A = [w \in Upvalues |-> A[w]] /\ B = [w \in Upvalues |-> B[w]]
    BY <2>2 DEF HomeOf
  <2> QED BY <2>1, <2>2, <2>3
<1>11. \A fs, d : Housed(d, vs, fs) => Housed(d, us, fs)
  BY <1>7 DEF Housed
<1> QED BY <1>7, <1>8, <1>9, <1>10, <1>11

\* The stack t and the upvalues vs are s and us after v was stored in u.
Stored(s, us, t, vs, u, v) ==
    \/ us.var[u].state = "open" /\ t = Put(s, us.var[u].slot, <<v>>) /\ vs = us
    \/ us.var[u].state = "closed" /\ Keeps(vs, us, u, v) /\ t = s

\* The activations b are a after v was stored in the variable with the home h.
StoredIn(b, a, h, v) ==
    b = IF h = <<0, 0>> THEN a ELSE [a EXCEPT ![h[1]] = Sets(a[h[1]], h[2], v)]

LEMMA StoreIs ==
    ASSUME NEW d, NEW fs, Chain(d, fs), NEW us, UpsOK(us), Housed(d, us, fs), NEW s \in Seq(Value),
           UpsIn(us, Len(s)), NEW u \in UsedOf(us), NEW v \in Value, NEW t \in Seq(Value), NEW vs,
           Stored(s, us, t, vs, u, v), NEW m
    PROVE  /\ Housed(d, vs, fs) /\ HomeOf(vs, fs, d) = HomeOf(us, fs, d) /\ UsedOf(vs) = UsedOf(us)
           /\ Changed(CellOf(t, vs), CellOf(s, us), u, v)
           /\ StoredIn(ActsOf(t, fs, d, m), ActsOf(s, fs, d, m), HomeOf(us, fs, d)[u], v)
<1>1. u \in Upvalues /\ UpsShape(us)
  BY DEF UsedOf, UpsOK
<1>2. CASE us.var[u].state = "open" /\ t = Put(s, us.var[u].slot, <<v>>) /\ vs = us
  <2>1. PICK l \in Nat : l = Len(fs) /\ l >= d + 1 /\ d \in Nat
    BY ChainEnds
  <2>2. PICK x \in Int : x = us.var[u].slot /\ x >= 1
    BY <1>1, <1>2, OpenUnder
  <2>3. x \in 1..Len(s)
    <3>1. us.var[u].slot \in 0..Len(s)
      BY <1>1 DEF UpsIn
    <3> QED BY <2>2, <3>1
  <2>4. Written(s, t, x, v)
    BY <1>2, <2>2, <2>3, PutWritten
  <2>5. Changed(CellOf(t, us), CellOf(s, us), u, v)
    BY <1>1, <1>2, <2>2, <2>4, CellStore
  <2>6. PICK k \in d + 1..l : /\ Holds(fs[k], x)
                              /\ HomeOf(us, fs, d)[u] = <<k - d, us.var[u].slot - fs[k].base + 1>>
    <3>1. PICK j \in d + 1..Len(fs) : /\ Holds(fs[j], us.var[u].slot)
                              /\ HomeOf(us, fs, d)[u] = <<j - d, us.var[u].slot - fs[j].base + 1>>
      BY <1>1, <1>2, HomeIn
    <3>2. j \in d + 1..l
      BY <2>1
    <3> QED BY <2>2, <3>1, <3>2
  <2>7. PICK i, r : i = k - d /\ r = x - fs[k].base + 1
    OBVIOUS
  <2>8. HomeOf(us, fs, d)[u] = <<i, r>>
    BY <2>2, <2>6, <2>7
  <2>9. Changed(ActsOf(t, fs, d, m), ActsOf(s, fs, d, m), i, Sets(ActsOf(s, fs, d, m)[i], r, v))
    <3>1. k \in d + 1..Len(fs) /\ Inside(fs[k], x)
      BY <2>1, <2>6 DEF Holds
    <3> QED BY <2>4, <2>7, <3>1, ActsStore
  <2>10. <<i, r>> # <<0, 0>>
    <3>1. k - d # 0
      BY <2>1
    <3>2. i # 0
      BY <2>7, <3>1
    <3> QED BY <3>2
  <2>11. StoredIn(ActsOf(t, fs, d, m), ActsOf(s, fs, d, m), HomeOf(us, fs, d)[u], v)
    <3>1. PICK A, B, h : A = ActsOf(s, fs, d, m) /\ B = ActsOf(t, fs, d, m) /\ h = HomeOf(us, fs, d)[u]
      OBVIOUS
    <3>2. h = <<i, r>> /\ h # <<0, 0>> /\ h[1] = i /\ h[2] = r
      BY <2>8, <2>10, <3>1
    <3>3. B = [A EXCEPT ![i] = Sets(A[i], r, v)]
      BY <2>9, <3>1 DEF Changed
    <3>4. StoredIn(B, A, h, v)
      BY <3>2, <3>3 DEF StoredIn
    <3> QED BY <3>1, <3>4
  <2> QED BY <1>2, <2>5, <2>11
<1>3. CASE us.var[u].state = "closed" /\ Keeps(vs, us, u, v) /\ t = s
  <2>1. /\ UsedOf(vs) = UsedOf(us) /\ Changed(CellOf(s, vs), CellOf(s, us), u, v)
        /\ HomeOf(vs, fs, d) = HomeOf(us, fs, d) /\ Housed(d, vs, fs)
    BY <1>1, <1>3, KeepsIs
  <2>2. HomeOf(us, fs, d)[u] = <<0, 0>>
    BY <1>1, <1>3, HomeNot
  <2>3. StoredIn(ActsOf(t, fs, d, m), ActsOf(s, fs, d, m), HomeOf(us, fs, d)[u], v)
    BY <1>3, <2>2 DEF StoredIn
  <2> QED BY <1>3, <2>1, <2>3
<1> QED BY <1>2, <1>3 DEF Stored

LEMMA SetUpvalueIs ==
    ASSUME StackInvariant, StackInvariant', Calling, Compiled(Live, Held), SetUpvalue
    PROVE  Calling' /\ Lua!SetUpvalue
<1>1. PICK u \in Used : At("SETUPVAL") /\ Store(u, R(ins.b)) /\ frames' = Goto(cur.pc + 1, cur.free)
                        /\ status' = status /\ thread' = thread
  BY DEF SetUpvalue
<1>2. /\ Body /\ status = "run" /\ cur.proto # Nil /\ ins.op = "SETUPVAL" /\ FramesInvariant
      /\ ins = Code[cur.proto][cur.pc] /\ Orderly(Live, Held, cur.proto, cur.pc) /\ cur.proto \in Protos
      /\ cur.free = Live[cur.proto][cur.pc] /\ cur.free \in Nat /\ Lua!At("SETUPVAL") /\ Lua!ins = ins
      /\ ~ Consumes(cur.proto, cur.pc)
  BY <1>1, Finding
<1>3. Pending = <<>> /\ Chain(Below, frames) /\ Housed(Below, ups, frames)
  BY <1>2, Finds
<1>p. PICK pc : pc = cur.pc + 1
  OBVIOUS
<1>4. PICK n \in Nat : n = cur.free /\ pc = cur.pc + 1 /\ pc = Lua!cur.pc + 1
  BY <1>2, <1>p, Sees
<1>5. ins.b \in 1..cur.free /\ Leads(Live, Held, cur.proto, pc, n, Held[cur.proto][cur.pc], FALSE)
  BY <1>2, <1>4 DEF Orderly
<1>6. PICK gs : gs = frames' /\ gs = Goto(pc, n)
  BY <1>1, <1>4
<1>7. Going(gs, pc, n) /\ Housed(Below, ups, gs) /\ HomeOf(ups, gs, Below) = HomeOf(ups, frames, Below)
  <2>1. PICK o : o = FALSE /\ o \in BOOLEAN
    OBVIOUS
  <2>2. Leads(Live, Held, cur.proto, pc, n, Held[cur.proto][cur.pc], o)
    BY <1>5, <2>1
  <2> QED BY <1>2, <1>6, <2>1, <2>2, HousedOn
<1>8. PICK l \in Nat, d \in Nat : l = Len(frames) /\ d = Below /\ l \in d + 1..l /\ l >= d + 1 /\ Lua!depth = l - d /\ cur = frames[l]
  BY <1>2, <1>3, ChainEnds, Sees DEF cur
<1>9. Chain(d, gs) /\ FramesOK(gs) /\ Len(gs) = l /\ \A k \in 1..l - 1 : gs[k] = frames[k]
  BY <1>7, <1>8 DEF Going
<1>10. /\ Homes = HomeOf(ups, frames, d) /\ Contents = CellOf(stack, ups) /\ Used = UsedOf(ups) /\ Final = <<>>
       /\ Activated = ActsOf(stack, frames, d, <<>>)
  BY <1>2, <1>3, <1>8, Sees
<1>11. PICK v : v = R(ins.b) /\ v = Lua!regs[ins.b]
  BY <1>2, <1>5, RegisterIs
<1>12. stack \in Seq(Value) /\ stack' \in Seq(Value) /\ UpsOK(ups) /\ UpsIn(ups, Len(stack)) /\ v \in Value
  BY <1>11, SlotValue DEF StackInvariant, Body, FramesInvariant, R
<1>13. Stored(stack, ups, stack', ups', u, v)
  BY <1>1, <1>11 DEF Store, Stored, Keeps
<1>14. /\ Housed(d, ups', gs) /\ HomeOf(ups', gs, d) = HomeOf(ups, gs, d) /\ UsedOf(ups') = UsedOf(ups)
       /\ Changed(CellOf(stack', ups'), CellOf(stack, ups), u, v)
       /\ StoredIn(ActsOf(stack', gs, d, <<>>), ActsOf(stack, gs, d, <<>>), HomeOf(ups, gs, d)[u], v)
  <2>1. Housed(d, ups, gs) /\ u \in UsedOf(ups)
    BY <1>7, <1>8, <1>10
  <2> QED BY <1>9, <1>12, <1>13, <2>1, StoreIs
<1>15. ~ Consumes(cur.proto, pc) /\ n = Live[cur.proto][pc]
  BY <1>2, <1>5, LeadsTo
<1>16. gs[l].proto = cur.proto /\ gs[l].pc = pc /\ gs[l].free = n /\ gs[l].base = cur.base /\ gs[l].varargs = cur.varargs
  BY <1>7, <1>8 DEF Going
<1>17. status' = "run"
  BY <1>1, <1>2
<1>18. OpenListAt(status', stack', frames', top') = <<>>
  BY <1>2, <1>6, <1>9, <1>15, <1>16 DEF OpenListAt
<1>19. Progress(d, status', ups', frames', top', pending')
  BY <1>2, <1>6, <1>9, <1>14, <1>15, <1>16, <1>17 DEF Progress, RunsAt
<1>20. PICK a : a = ActsOf(stack', gs, d, <<>>)
  OBVIOUS
<1>21. Lands(Below, a, HomeOf(ups, frames, d), CellOf(stack', ups'), UsedOf(ups'))
  BY <1>6, <1>7, <1>8, <1>14, <1>17, <1>18, <1>19, <1>20 DEF Lands, Over
<1>22. /\ Calling' /\ Activated' = a /\ Homes' = Homes /\ Contents' = CellOf(stack', ups') /\ Used' = Used
       /\ Final' = Final
  BY <1>1, <1>10, <1>14, <1>21, Landing
<1>23. PICK p : p = ActsOf(stack, gs, d, <<>>)
  OBVIOUS
<1>24. p = [Activated EXCEPT ![Lua!depth].pc = @ + 1]
  <2>1. Changed(p, ActsOf(stack, frames, d, <<>>), Len(frames) - d, View(stack, gs[Len(gs)], <<>>))
    <3>1. \A k \in d + 1..Len(frames) - 1 : View(stack, gs[k], <<>>) = View(stack, frames[k], <<>>)
      <4>1. \A k \in d + 1..l - 1 : k \in 1..l - 1
        OBVIOUS
      <4> QED BY <1>8, <1>9, <4>1
    <3>2. FramesOK(frames) /\ Len(gs) = Len(frames) /\ d < Len(frames)
      BY <1>2, <1>8, <1>9 DEF FramesInvariant
    <3> QED BY <1>9, <1>23, <3>1, <3>2, ActsChanged
  <2>2. View(stack, gs[Len(gs)], <<>>) = Now(stack, pc, n, <<>>)
    BY <1>9, <1>16 DEF View, Now
  <2>3. W(stack, cur.base, n) = Lua!regs
    BY <1>2, <1>4, Sees
  <2>4. Now(stack, pc, n, <<>>) = Passed(Lua!cur, pc)
    BY <1>2, <1>3, <2>3, NowIs
  <2>5. PICK x : x = Lua!cur /\ x = Activated[Lua!depth]
    BY DEF Lua!cur
  <2>6. p = [Activated EXCEPT ![Lua!depth] = [x EXCEPT !.pc = x.pc + 1]]
    BY <1>4, <1>8, <1>10, <2>1, <2>2, <2>4, <2>5 DEF Changed, Passed
  <2> QED BY <2>5, <2>6
<1>25. Lua!Store(u, Lua!regs[ins.b])
  <2>1. StoredIn(Activated', p, Homes[u], v)
    BY <1>7, <1>8, <1>10, <1>14, <1>20, <1>22, <1>23
  <2>2. Contents' = [Contents EXCEPT ![u] = v]
    BY <1>10, <1>14, <1>22 DEF Changed
  <2>3. Activated' = IF Homes[u] = <<0, 0>> THEN p ELSE [p EXCEPT ![Homes[u][1]].regs[Homes[u][2]] = v]
    BY <2>1 DEF StoredIn, Sets
  <2> QED BY <1>1, <1>2, <1>11, <1>22, <1>24, <2>2, <2>3 DEF Lua!Store, Lua!Nowhere
<1> QED BY <1>2, <1>22, <1>25 DEF Lua!SetUpvalue

LEMMA OtherSetsIs ==
    ASSUME StackInvariant, StackInvariant', Calling, OtherSets
    PROVE  Calling' /\ Lua!OtherSets
<1>1. PICK u \in Used : /\ status \in {"yield", "done", "dead"} /\ Store(u, Nil) /\ frames' = frames
                        /\ status' = status /\ thread' = thread /\ top' = top /\ pending' = pending
  BY DEF OtherSets
<1>2. stack \in Seq(Value) /\ stack' \in Seq(Value) /\ UpsOK(ups) /\ UpsShape(ups) /\ UpsIn(ups, Len(stack)) /\ Nil \in Value
  BY NilValue DEF StackInvariant, Body, FramesInvariant, UpsOK
<1>3. Contents = CellOf(stack, ups) /\ Used = UsedOf(ups)
  BY CellsAre
<1>4. Stored(stack, ups, stack', ups', u, Nil)
  BY <1>1 DEF Store, Stored, Keeps
<1>5. CASE status = "yield"
  <2>1. Chain(Below, frames) /\ Housed(Below, ups, frames) /\ YieldsAt(frames, pending) /\ ~ Over(status)
    BY <1>5 DEF Calling, Progress, Over
  <2>2. /\ Activated = ActsOf(stack, frames, Below, <<>>)
        /\ Homes = HomeOf(ups, frames, Below) /\ Final = <<>>
    BY <1>5, <2>1, SeenActs, SeenHomes DEF OpenListAt
  <2>3. /\ Housed(Below, ups', frames) /\ HomeOf(ups', frames, Below) = HomeOf(ups, frames, Below)
        /\ UsedOf(ups') = UsedOf(ups) /\ Changed(CellOf(stack', ups'), CellOf(stack, ups), u, Nil)
        /\ StoredIn(ActsOf(stack', frames, Below, <<>>), ActsOf(stack, frames, Below, <<>>), HomeOf(ups, frames, Below)[u], Nil)
    BY <1>2, <1>3, <1>4, <2>1, StoreIs
  <2>4. PICK a : a = ActsOf(stack', frames, Below, <<>>)
    OBVIOUS
  <2>5. Lands(Below, a, HomeOf(ups, frames, Below), CellOf(stack', ups'), UsedOf(ups'))
    BY <1>1, <1>5, <2>1, <2>3, <2>4 DEF Lands, Over, Progress, OpenListAt
  <2>6. /\ Calling' /\ Activated' = a /\ Homes' = Homes /\ Contents' = CellOf(stack', ups') /\ Used' = Used
        /\ Final' = Final
    BY <1>1, <1>3, <2>2, <2>3, <2>5, Landing
  <2>7. Contents' = [Contents EXCEPT ![u] = Nil]
    BY <1>3, <2>3, <2>6 DEF Changed
  <2>8. Activated' = IF Homes[u] = <<0, 0>> THEN Activated ELSE [Activated EXCEPT ![Homes[u][1]].regs[Homes[u][2]] = Nil]
    BY <2>2, <2>3, <2>4, <2>6 DEF StoredIn, Sets
  <2> QED BY <1>1, <1>5, <2>6, <2>7, <2>8 DEF Lua!OtherSets, Lua!Store, Lua!Nowhere
<1>6. CASE status \in {"done", "dead"}
  <2>1. Over(status) /\ Over(status') /\ Rest(Below, status, ups)
    BY <1>1, <1>6 DEF Calling, Over
  <2>2. Activated = <<>> /\ Homes = [w \in Upvalues |-> <<0, 0>>]
    BY <2>1, SeenOver
  <2>3. /\ UsedOf(ups') = UsedOf(ups) /\ Changed(CellOf(stack', ups'), CellOf(stack, ups), u, Nil)
        /\ \A w \in Upvalues : ups'.var[w].state = ups.var[w].state /\ ups'.var[w].slot = ups.var[w].slot
    <3>1. u \in Upvalues /\ u \in UsedOf(ups)
      BY <1>3 DEF Used
    <3>2. CASE ups.var[u].state = "open" /\ stack' = Put(stack, ups.var[u].slot, <<Nil>>) /\ ups' = ups
      <4>1. PICK x \in Int : x = ups.var[u].slot /\ x >= 1 /\ x \in 1..Len(stack)
        <5>1. ups.var[u].slot \in 0..Len(stack) /\ ups.var[u].slot >= 1
          BY <1>2, <2>1, <3>1, <3>2 DEF Rest, UpsIn
        <5> QED BY <5>1, <1>2
      <4>2. Written(stack, stack', x, Nil)
        BY <1>2, <3>2, <4>1, PutWritten
      <4>3. Changed(CellOf(stack', ups), CellOf(stack, ups), u, Nil)
        BY <1>2, <3>1, <3>2, <4>1, <4>2, CellStore
      <4> QED BY <3>2, <4>3
    <3>3. CASE ups.var[u].state = "closed" /\ Keeps(ups', ups, u, Nil) /\ stack' = stack
      BY <1>2, <3>1, <3>3, KeepsIs
    <3> QED BY <1>4, <3>2, <3>3 DEF Stored
  <2>4. Rest(Below, status', ups')
    BY <1>1, <2>1, <2>3 DEF Rest
  <2>5. Ends(Below, CellOf(stack', ups'), UsedOf(ups'))
    BY <2>1, <2>4 DEF Ends
  <2>6. /\ Calling' /\ Activated' = <<>> /\ Homes' = [w \in Upvalues |-> <<0, 0>>]
        /\ Contents' = CellOf(stack', ups') /\ Used' = UsedOf(ups')
    BY <1>1, <2>5, Ending
  <2>7. Final' = Final
    <3>1. CASE status = "done"
      <4>1. u \in Upvalues /\ ups.var[u].state # "open"
        BY <2>1, <3>1, <1>3 DEF Rest, Used
      <4>2. stack' = stack
        BY <4>1, <1>4 DEF Stored
      <4> QED BY <1>1, <4>2 DEF Final
    <3>2. CASE status # "done"
      BY <1>1, <3>2 DEF Final
    <3> QED BY <3>1, <3>2
  <2>8. Contents' = [Contents EXCEPT ![u] = Nil]
    BY <1>3, <2>3, <2>6 DEF Changed
  <2>9. Homes[u] = <<0, 0>>
    BY <1>3, <2>2 DEF Used
  <2>10. Used' = Used
    BY <1>3, <2>3, <2>6
  <2> QED BY <1>1, <1>6, <2>2, <2>6, <2>7, <2>8, <2>9, <2>10 DEF Lua!OtherSets, Lua!Store, Lua!Nowhere
<1> QED BY <1>1, <1>5, <1>6

-----------------------------------------------------------------------------
(* The answer to a call. *)

\* The frames fs end with the caller of a function, or with a protected call
\* that waits for its target; s is the stack and us the upvalues.
Caller(d, s, us, fs) ==
    /\ Chain(d, fs) /\ Housed(d, us, fs) /\ UpsShape(us) /\ s \in Seq(Value)
    /\ fs[Len(fs)].proto # Nil => WaitsIn(fs[Len(fs)])

\* After the step the last activation of fs is g, and the others go on as they are.
LandsWith(d, s, us, fs, g) ==
    \E a : /\ Changed(a, ActsOf(s, fs, d, <<>>), Len(fs) - d, g)
           /\ Lands(d, a, HomeOf(us, fs, d), CellOf(s, us), UsedOf(us))

\* The activation of the frame c at pc, with n registers and the open list m.
Back(c, s, pc, n, m) ==
    [proto |-> c.proto, pc |-> pc, regs |-> W(s, c.base, n), more |-> m, varargs |-> c.varargs]

BackOpen(c, s, t, n, open) == IF open THEN W(s, c.base + n, t - c.base - n) ELSE <<>>
Goes(e, c, pc, n) == e = [c EXCEPT !.pc = pc, !.free = n]

LEMMA Resumes ==
    ASSUME Compiled(Live, Held), NEW d, NEW s, NEW us, NEW fs, Caller(d, s, us, fs),
           NEW c, c = fs[Len(fs)], c.proto # Nil, NEW pc, NEW n, NEW open \in BOOLEAN,
           Leads(Live, Held, c.proto, pc, n, Held[c.proto][c.pc], open),
           NEW r \in Nat, Held[c.proto][c.pc] \subseteq 1..r, NEW f \in Int, c.base + r <= f,
           stack' \in Seq(Value), Agree(s, stack', f),
           NEW e, Goes(e, c, pc, n), Changed(frames', fs, Len(fs), e), ups' = us, status' = "run",
           open => top' >= c.base + n
    PROVE  LandsWith(d, s, us, fs, Back(c, stack', pc, n, BackOpen(c, stack', top', n, open)))
<1>1. PICK l \in Nat : l = Len(fs) /\ l >= d + 1 /\ d \in Nat /\ l \in d + 1..l /\ l \in 1..l /\ Shape(c)
  BY ChainEnds DEF Caller
<1>2. c.proto \in Protos
  BY <1>1 DEF Shape
<1>3. /\ pc \in DOMAIN Code[c.proto] /\ n = Live[c.proto][pc] /\ n \in Nat /\ n <= Room[c.proto]
      /\ Held[c.proto][c.pc] \subseteq Held[c.proto][pc] /\ Held[c.proto][pc] \subseteq 1..n
      /\ Consumes(c.proto, pc) <=> open
  BY <1>2, LeadsTo
<1>4. /\ e = [proto |-> c.proto, func |-> c.func, base |-> c.base, nargs |-> c.nargs,
             ctop |-> c.ctop, nres |-> c.nres, varargs |-> c.varargs, cont |-> c.cont,
             pc |-> pc, free |-> n]
  <2>1. PICK p, fu, b, na, ct, nr, va, co, q, fr :
            c = [proto |-> p, func |-> fu, base |-> b, nargs |-> na, ctop |-> ct, nres |-> nr,
                   varargs |-> va, cont |-> co, pc |-> q, free |-> fr]
    BY <1>1 DEF Shape
  <2> QED BY <2>1 DEF Goes
<1>5. Shape(e)
  BY <1>1, <1>2, <1>3, <1>4 DEF Shape
<1>6. PICK gs : gs = frames'
  OBVIOUS
<1>7. /\ Chain(d, gs) /\ FramesOK(gs) /\ Len(gs) = l /\ gs[l] = e
      /\ \A k \in 1..l - 1 : gs[k] = fs[k]
  <2>1. /\ e.func = fs[Len(fs)].func /\ e.base = fs[Len(fs)].base /\ e.nres = fs[Len(fs)].nres
        /\ e.cont = fs[Len(fs)].cont /\ e.proto # Nil /\ Chain(d, fs) /\ Changed(gs, fs, Len(fs), e)
    BY <1>4, <1>6 DEF Caller
  <2>2. /\ Chain(d, gs) /\ FramesOK(gs) /\ Len(gs) = Len(fs) /\ gs[Len(fs)] = e
        /\ \A k \in 1..Len(fs) - 1 : gs[k] = fs[k]
    BY <2>1, <1>5, LastChanged
  <2> QED BY <2>2, <1>1
<1>8. PICK m : m = BackOpen(c, stack', top', n, open)
  OBVIOUS
<1>9. OpenListAt(status', stack', gs, top') = m
  <2>1. e.proto = c.proto /\ e.pc = pc /\ e.base = c.base /\ e.free = n
    BY <1>4
  <2>2. gs[Len(gs)] = e
    BY <1>7
  <2>3. OpenListAt(status', stack', gs, top')
           = IF Consumes(e.proto, e.pc) THEN W(stack', e.base + e.free, top' - e.base - e.free) ELSE <<>>
    BY <2>1, <2>2 DEF OpenListAt
  <2>4. m = IF open THEN W(stack', c.base + n, top' - c.base - n) ELSE <<>>
    BY <1>8 DEF BackOpen
  <2> QED BY <1>3, <2>1, <2>3, <2>4
<1>10. RunsAt(gs, top')
  <2>1. e.proto # Nil /\ e.free = Live[e.proto][e.pc] /\ (Consumes(e.proto, e.pc) => top' >= e.base + e.free)
    BY <1>3, <1>4
  <2> QED BY <2>1, <1>7 DEF RunsAt
<1>11. Housed(d, us, gs) /\ HomeOf(us, gs, d) = HomeOf(us, fs, d)
  <2>1. /\ gs[l].base = fs[l].base /\ gs[l].proto = fs[l].proto
        /\ Chain(d, fs) /\ Housed(d, us, fs) /\ UpsShape(us)
    BY <1>1, <1>4, <1>7 DEF Caller
  <2>2. \A i \in Held[gs[l].proto][fs[l].pc] :
           i \in 1..fs[l].free => i <= gs[l].free /\ i \in Held[gs[l].proto][gs[l].pc]
    <3>1. \A i \in Held[c.proto][c.pc] : i <= n /\ i \in Held[c.proto][pc]
      BY <1>3, SMTT(30)
    <3> QED BY <3>1, <1>1, <1>4, <1>7, SMTT(30)
  <2> QED BY <2>1, <2>2, <1>1, <1>7, HousedLast, SMTT(30)
<1>12. Progress(d, status', us, gs, top', pending')
  BY <1>7, <1>10, <1>11 DEF Progress
<1>13. Views(s, stack', fs, d + 1, l - 1)
  <2>1. PICK x \in Int, b \in Int : x = c.func /\ b = c.base /\ x <= b
    BY <1>1 DEF Shape
  <2>2. x <= f
    BY <2>1
  <2>3. fs[l].func <= f /\ Chain(d, fs) /\ s \in Seq(Value)
    BY <2>1, <2>2, <1>1 DEF Caller
  <2> QED BY <2>3, <1>1, ViewsKept
<1>14. PICK a : a = ActsOf(stack', gs, d, m)
  OBVIOUS
<1>15. Changed(a, ActsOf(s, fs, d, <<>>), Len(fs) - d, View(stack', e, m))
  <2>1. FramesOK(fs) /\ FramesOK(gs) /\ Len(gs) = Len(fs) /\ d < Len(fs) /\ d \in Nat
    BY <1>1, <1>7 DEF Caller, Chain, Grounded
  <2>2. \A k \in d + 1..Len(fs) - 1 : View(stack', gs[k], <<>>) = View(s, fs[k], <<>>)
    <3>1. \A k \in d + 1..l - 1 : k \in 1..l - 1
      BY <1>1
    <3> QED BY <3>1, <1>1, <1>7, <1>13 DEF Views
  <2>3. Changed(ActsOf(stack', gs, d, m), ActsOf(s, fs, d, <<>>), Len(fs) - d, View(stack', gs[Len(gs)], m))
    BY <2>1, <2>2, ActsChanged
  <2> QED BY <2>3, <1>7, <1>14
<1>16. View(stack', e, m) = Back(c, stack', pc, n, m)
  BY <1>4 DEF View, Back
<1>17. CellOf(stack', us) = CellOf(s, us)
  <2>1. /\ Chain(d, fs) /\ UpsShape(us) /\ Housed(d, us, fs) /\ fs[Len(fs)].base + r <= f
        /\ fs[Len(fs)].proto # Nil => Held[fs[Len(fs)].proto][fs[Len(fs)].pc] \subseteq 1..r
    BY DEF Caller
  <2> QED BY <2>1, CellsUnder
<1>18. Lands(d, a, HomeOf(us, fs, d), CellOf(s, us), UsedOf(us))
  BY <1>6, <1>9, <1>11, <1>12, <1>14, <1>17 DEF Lands, Over
<1> QED BY <1>8, <1>15, <1>16, <1>18 DEF LandsWith

\* The results that the frame c takes, and the slot of its generic for.
Want(c) == IF c.proto = Nil THEN MultRet ELSE Takes(Code[c.proto][c.pc])
Cont(c) == IF c.proto # Nil /\ Code[c.proto][c.pc].op = "TFORLOOP"
           THEN c.base + Code[c.proto][c.pc].a - 1 ELSE 0

\* What an activation becomes when the call that it waits for answers with vs.
Resumed(a, vs) == IF a.proto = Nil THEN [a EXCEPT !.more = vs] ELSE Lua!Answered(a, vs)

\* The results rs of a call lie at slot f, where the frame c expects them.
Answering(d, s, us, fs, c, f, vs, rs, t) ==
    /\ Caller(d, s, us, fs) /\ c = fs[Len(fs)] /\ f = c.base + c.free
    /\ rs = Adjust(vs, Want(c)) /\ W(s, f, Len(rs)) = rs /\ t = f + Len(rs)

LEMMA CodeSays ==
    ASSUME Compiled(Live, Held), NEW p \in Protos, NEW pc \in DOMAIN Code[p]
    PROVE  /\ Orderly(Live, Held, p, pc) /\ Code[p][pc].a \in Nat /\ Code[p][pc].c \in Nat
           /\ Held[p][pc] \subseteq 1..Live[p][pc]
<1>1. Orderly(Live, Held, p, pc) /\ Held[p][pc] \subseteq 1..Live[p][pc]
  BY DEF Compiled
<1>2. Code[p][pc].a \in Nat /\ Code[p][pc].c \in Nat
  BY CodeAssumption
<1> QED BY <1>1, <1>2

\* A protected call that waits for its target.
LEMMA AnswerGuard ==
    ASSUME NEW d, NEW s, NEW us, NEW fs, NEW c, NEW f \in Int, NEW vs \in Seq(Value), NEW rs, NEW t,
           Answering(d, s, us, fs, c, f, vs, rs, t), c.proto = Nil,
           Answer(s, us, fs, t, Want(c), Cont(c)), status' = "run"
    PROVE  LandsWith(d, s, us, fs, Resumed(View(s, c, <<>>), vs))
<1>1. /\ Caller(d, s, us, fs) /\ c = fs[Len(fs)] /\ rs = Adjust(vs, Want(c)) /\ W(s, f, Len(rs)) = rs
      /\ Chain(d, fs)
  BY DEF Answering, Caller
<1>2. PICK l \in Nat : l = Len(fs) /\ l >= d + 1 /\ d \in Nat /\ l \in d + 1..l /\ l \in 1..l /\ Shape(c)
  BY <1>1, ChainEnds
<1>3. rs = vs
  BY <1>1, AdjustAll DEF Want
<1>4. Len(vs) \in Nat
  OBVIOUS
<1>5. PICK m \in Nat : m = Len(vs)
  BY <1>4
<1>6. c.free = 0 /\ c.base = f /\ t = f + m
  <2>1. PICK b \in Int : b = c.base /\ c.free = 0
    BY <1>2 DEF Shape
  <2>2. f = b + 0
    BY <2>1 DEF Answering
  <2>3. t = f + m
    BY <1>3, <1>5 DEF Answering
  <2> QED BY <2>1, <2>2, <2>3
<1>7. stack' = s /\ ups' = us /\ frames' = fs /\ top' = t
  <2>1. Cont(c) = 0
    BY DEF Cont
  <2> QED BY <1>1, <2>1 DEF Answer
<1>8. OpenListAt(status', stack', frames', top') = vs
  <2>1. c.base + c.free = f /\ t - c.base - c.free = m
    <3>1. f + 0 = f /\ f + m - f - 0 = m
      OBVIOUS
    <3> QED BY <3>1, <1>6
  <2> QED BY <1>1, <1>3, <1>5, <1>7, <2>1 DEF OpenListAt
<1>9. Progress(d, status', ups', frames', top', pending')
  <2>1. f + m >= f
    OBVIOUS
  <2>2. t >= c.base
    BY <1>6, <2>1
  <2>3. RunsAt(fs, t)
    BY <1>1, <2>2 DEF RunsAt
  <2> QED BY <1>1, <1>7, <2>3 DEF Progress, Caller
<1>10. PICK a : a = ActsOf(s, fs, d, vs)
  OBVIOUS
<1>11. Changed(a, ActsOf(s, fs, d, <<>>), Len(fs) - d, View(s, c, vs))
  <2>1. FramesOK(fs) /\ d < Len(fs) /\ d \in Nat
    BY <1>1, <1>2 DEF Chain, Grounded
  <2>2. \A k \in d + 1..Len(fs) - 1 : View(s, fs[k], <<>>) = View(s, fs[k], <<>>)
    OBVIOUS
  <2>3. Changed(ActsOf(s, fs, d, vs), ActsOf(s, fs, d, <<>>), Len(fs) - d, View(s, fs[Len(fs)], vs))
    BY <2>1, <2>2, ActsChanged
  <2> QED BY <2>3, <1>1, <1>10
<1>12. View(s, c, vs) = Resumed(View(s, c, <<>>), vs)
  BY DEF View, Resumed
<1>13. Lands(d, a, HomeOf(us, fs, d), CellOf(s, us), UsedOf(us))
  BY <1>7, <1>8, <1>9, <1>10 DEF Lands, Over
<1> QED BY <1>11, <1>12, <1>13 DEF LandsWith

LEMMA OpensIs ==
    ASSUME NEW a, a = [proto |-> a.proto, pc |-> a.pc, regs |-> a.regs, more |-> a.more, varargs |-> a.varargs],
           NEW b, b = [proto |-> b.proto, pc |-> b.pc, regs |-> b.regs, more |-> b.more, varargs |-> b.varargs],
           b.proto = a.proto, b.regs = a.regs, b.varargs = a.varargs
    PROVE  b = Opens(a, b.pc, b.more)
<1>1. PICK c : c = [a EXCEPT !.pc = b.pc]
  OBVIOUS
<1>2. c = [proto |-> a.proto, pc |-> b.pc, regs |-> a.regs, more |-> a.more, varargs |-> a.varargs]
  BY <1>1
<1>3. PICK e : e = [c EXCEPT !.more = b.more]
  OBVIOUS
<1>4. e = [proto |-> a.proto, pc |-> b.pc, regs |-> a.regs, more |-> b.more, varargs |-> a.varargs]
  BY <1>2, <1>3
<1>5. e = b
  BY <1>4
<1> QED BY <1>1, <1>3, <1>5 DEF Opens

LEMMA PassedIs ==
    ASSUME NEW a, a = [proto |-> a.proto, pc |-> a.pc, regs |-> a.regs, more |-> a.more, varargs |-> a.varargs],
           NEW b, b = [proto |-> b.proto, pc |-> b.pc, regs |-> b.regs, more |-> b.more, varargs |-> b.varargs],
           b.proto = a.proto, b.regs = a.regs, b.more = a.more, b.varargs = a.varargs
    PROVE  b = Passed(a, b.pc)
BY DEF Passed

\* Both modules count the results in the same way.
AnsweredAt(a, vs, i) ==
    LET rs == Adjust(vs, Takes(i))
    IN  IF i.op = "TFORLOOP"
        THEN IF rs[1] = Nil
             THEN [a EXCEPT !.pc = @ + 2]
             ELSE [a EXCEPT !.pc = @ + 1, !.regs = Upto(@, i.a + 1) \o <<rs[1]>> \o rs]
        ELSE IF Takes(i) = MultRet
        THEN [a EXCEPT !.pc = @ + 1, !.more = rs]
        ELSE [a EXCEPT !.pc = @ + 1, !.regs = @ \o rs]

LEMMA AnsweredIs ==
    ASSUME NEW a, NEW vs, NEW i, i = Code[a.proto][a.pc]
    PROVE  Lua!Answered(a, vs) = AnsweredAt(a, vs, i)
<1>1. Lua!Takes(i) = Takes(i)
  BY DEF Lua!Takes, Takes, Lua!MultRet, MultRet
<1>2. \A n : Lua!Adjust(vs, n) = Adjust(vs, n)
  BY DEF Lua!Adjust, Adjust, Lua!MultRet, MultRet
<1>3. Lua!MultRet = MultRet /\ \A n, x : Lua!Upto(x, n) = Upto(x, n)
  BY DEF Lua!MultRet, MultRet, Lua!Upto, Upto
<1> QED BY <1>1, <1>2, <1>3 DEF Lua!Answered, AnsweredAt

\* A function that called another one.
LEMMA AnswerCall ==
    ASSUME Compiled(Live, Held), NEW d, NEW s, NEW us, NEW fs, NEW c, NEW f \in Int, NEW vs \in Seq(Value), NEW rs, NEW t,
           Answering(d, s, us, fs, c, f, vs, rs, t), c.proto # Nil, Code[c.proto][c.pc].op # "TFORLOOP",
           Answer(s, us, fs, t, Want(c), Cont(c)), status' = "run"
    PROVE  LandsWith(d, s, us, fs, Resumed(View(s, c, <<>>), vs))
<1>1. /\ Caller(d, s, us, fs) /\ c = fs[Len(fs)] /\ rs = Adjust(vs, Want(c)) /\ W(s, f, Len(rs)) = rs
      /\ Chain(d, fs) /\ s \in Seq(Value)
  BY DEF Answering, Caller
<1>2. PICK l \in Nat : l = Len(fs) /\ l >= d + 1 /\ d \in Nat /\ l \in d + 1..l /\ l \in 1..l /\ Shape(c)
  BY <1>1, ChainEnds
<1>3. c.proto \in Protos /\ c.pc \in DOMAIN Code[c.proto]
  BY <1>2 DEF Shape
<1>4. PICK i : i = Code[c.proto][c.pc]
  OBVIOUS
<1>5. Orderly(Live, Held, c.proto, c.pc) /\ i.a \in Nat /\ i.c \in Nat
  BY <1>3, <1>4, CodeSays
<1>6. i.op \in {"CALL", "TAILCALL"} /\ c.free = i.a - 1
  BY <1>1, <1>4 DEF Caller, WaitsIn
<1>7. PICK b \in Int, n \in Nat : b = c.base /\ n = c.free /\ b + n = f
  BY <1>2 DEF Shape, Answering
<1>8. PICK w \in Int : w = Takes(i) /\ w >= -1 /\ Want(c) = w
  <2>1. CASE i.op = "CALL"
    <3>1. Takes(i) = i.c - 1
      BY <2>1 DEF Takes
    <3> QED BY <3>1, <1>4, <1>5 DEF Want
  <2>2. CASE i.op = "TAILCALL"
    <3>1. Takes(i) = -1
      BY <2>2 DEF Takes, MultRet
    <3> QED BY <3>1, <1>4 DEF Want
  <2> QED BY <1>6, <2>1, <2>2
<1>9. PICK held : held = Held[c.proto][c.pc]
  OBVIOUS
<1>10. /\ held \subseteq 1..i.a - 1
       /\ IF w = MultRet THEN Leads(Live, Held, c.proto, c.pc + 1, i.a - 1, held, TRUE)
          ELSE Leads(Live, Held, c.proto, c.pc + 1, i.a - 1 + w, held, FALSE)
  BY <1>4, <1>5, <1>6, <1>8, <1>9 DEF Orderly
<1>11. held \subseteq 1..n
  BY <1>6, <1>7, <1>10
<1>12. PICK pc : pc = c.pc + 1
  OBVIOUS
<1>13. PICK e : e = [c EXCEPT !.pc = pc, !.free = IF w = MultRet THEN n ELSE n + w]
  OBVIOUS
<1>14. /\ stack' = s /\ ups' = us /\ top' = t /\ Changed(frames', fs, Len(fs), e)
  <2>1. Cont(c) = 0
    BY DEF Cont
  <2>2. frames' = [fs EXCEPT ![Len(fs)] = [fs[Len(fs)] EXCEPT !.pc = @ + 1, !.free = IF Want(c) = MultRet THEN @ ELSE @ + Want(c)]]
    BY <1>1, <2>1 DEF Answer
  <2>3. frames' = [fs EXCEPT ![Len(fs)] = [c EXCEPT !.pc = c.pc + 1, !.free = IF w = MultRet THEN c.free ELSE c.free + w]]
    BY <1>1, <1>8, <2>2
  <2>4. e = [c EXCEPT !.pc = c.pc + 1, !.free = IF w = MultRet THEN c.free ELSE c.free + w]
    BY <1>7, <1>12, <1>13
  <2>5. stack' = s /\ ups' = us /\ top' = t
    BY <2>1 DEF Answer
  <2> QED BY <2>3, <2>4, <2>5 DEF Changed
<1>15. PICK m \in Nat : m = Len(rs) /\ t = f + m /\ (w # MultRet => m = w)
  <2>1. Len(rs) \in Nat /\ (w # MultRet => Len(rs) = w)
    <3>1. rs = Adjust(vs, w)
      BY <1>1, <1>8
    <3>2. PICK q \in Int : q = w /\ Adjust(vs, q) \in Seq(Value) /\ Len(Adjust(vs, q)) = IF q = MultRet THEN Len(vs) ELSE IF q > 0 THEN q ELSE 0
      BY AdjustIs
    <3>3. w # MultRet => w >= 0
      BY <1>8 DEF MultRet
    <3> QED BY <3>1, <3>2, <3>3
  <2> QED BY <2>1 DEF Answering
<1>16. PICK x : x = View(s, c, <<>>)
  OBVIOUS
<1>17. x = [proto |-> c.proto, pc |-> c.pc, regs |-> W(s, b, n), more |-> <<>>, varargs |-> c.varargs]
  BY <1>7, <1>16 DEF View
<1>18. Resumed(x, vs) = IF w = MultRet THEN [x EXCEPT !.pc = @ + 1, !.more = rs]
                        ELSE [x EXCEPT !.pc = @ + 1, !.regs = @ \o rs]
  <2>1. x.proto = c.proto /\ x.pc = c.pc
    BY <1>17
  <2>2. Lua!Answered(x, vs) = IF Takes(i) = MultRet THEN [x EXCEPT !.pc = @ + 1, !.more = Adjust(vs, Takes(i))]
                              ELSE [x EXCEPT !.pc = @ + 1, !.regs = @ \o Adjust(vs, Takes(i))]
    <3>1. Lua!Answered(x, vs) = AnsweredAt(x, vs, i)
      BY <1>4, <2>1, AnsweredIs
    <3> QED BY <1>6, <3>1 DEF AnsweredAt
  <2> QED BY <1>1, <1>8, <2>1, <2>2 DEF Resumed
<1>s. b + n = f
  BY <1>7
<1>19. Agree(s, stack', f) /\ c.base + n <= f /\ stack' \in Seq(Value)
  BY <1>1, <1>7, <1>14 DEF Agree
<1>20. CASE w = MultRet
  <2>1. PICK o : o = TRUE /\ o \in BOOLEAN
    OBVIOUS
  <2>2. Leads(Live, Held, c.proto, pc, n, Held[c.proto][c.pc], o)
    BY <1>6, <1>7, <1>9, <1>10, <1>12, <1>20, <2>1
  <2>3. Goes(e, c, pc, n)
    BY <1>13, <1>20 DEF Goes
  <2>4. top' >= c.base + n
    <3>1. f + m >= f
      OBVIOUS
    <3> QED BY <3>1, <1>7, <1>14, <1>15
  <2>5. LandsWith(d, s, us, fs, Back(c, stack', pc, n, BackOpen(c, stack', top', n, o)))
    BY <1>1, <1>9, <1>11, <1>14, <1>19, <2>1, <2>2, <2>3, <2>4, Resumes
  <2>6. BackOpen(c, stack', top', n, o) = rs
    <3>1. c.base + n = f /\ t - c.base - n = m
      <4>1. (f + m) - b - n = m
        BY <1>s
      <4>2. t - c.base - n = (f + m) - b - n
        BY <1>7, <1>15
      <4> QED BY <4>1, <4>2, <1>7
    <3> QED BY <1>1, <1>14, <1>15, <2>1, <3>1 DEF BackOpen
  <2>7. Back(c, s, pc, n, rs) = [x EXCEPT !.pc = @ + 1, !.more = rs]
    <3>1. PICK y : y = Back(c, s, pc, n, rs)
      OBVIOUS
    <3>2. y = [proto |-> c.proto, pc |-> pc, regs |-> W(s, b, n), more |-> rs, varargs |-> c.varargs]
      BY <1>7, <3>1 DEF Back
    <3>3. y = Opens(x, y.pc, y.more)
      BY <1>17, <3>2, OpensIs
    <3>4. y.pc = x.pc + 1 /\ y.more = rs
      BY <1>12, <1>17, <3>2
    <3> QED BY <3>1, <3>3, <3>4 DEF Opens
  <2> QED BY <1>14, <1>16, <1>18, <1>20, <2>5, <2>6, <2>7
<1>21. CASE w # MultRet
  <2>1. PICK o : o = FALSE /\ o \in BOOLEAN
    OBVIOUS
  <2>2. PICK k \in Nat : k = n + w /\ m = w /\ k = n + m
    BY <1>15, <1>21
  <2>3. Leads(Live, Held, c.proto, pc, k, Held[c.proto][c.pc], o)
    <3>1. i.a - 1 + w = k
      BY <1>6, <1>7, <2>2
    <3> QED BY <3>1, <1>9, <1>10, <1>12, <1>21, <2>1
  <2>4. Goes(e, c, pc, k)
    BY <1>13, <1>21, <2>2 DEF Goes
  <2>5. LandsWith(d, s, us, fs, Back(c, stack', pc, k, BackOpen(c, stack', top', k, o)))
    BY <1>1, <1>9, <1>11, <1>14, <1>19, <2>1, <2>3, <2>4, Resumes
  <2>6. BackOpen(c, stack', top', k, o) = <<>>
    BY <2>1 DEF BackOpen
  <2>7. W(s, b, k) = W(s, b, n) \o rs
    <3>1. Joined(s, b, n, m)
      BY <1>1, WJoin
    <3> QED BY <3>1, <1>1, <1>7, <1>15, <2>2 DEF Joined
  <2>8. Back(c, s, pc, k, <<>>) = [x EXCEPT !.pc = @ + 1, !.regs = @ \o rs]
    <3>1. PICK y, z : y = Back(c, s, pc, k, <<>>) /\ z = W(s, b, n) \o rs
      OBVIOUS
    <3>2. y = [proto |-> c.proto, pc |-> pc, regs |-> z, more |-> <<>>, varargs |-> c.varargs]
      BY <1>7, <2>7, <3>1 DEF Back
    <3>3. y = Gone(x, y.pc, y.regs)
      BY <1>17, <3>2, GoneIs
    <3>4. y.pc = x.pc + 1 /\ y.regs = x.regs \o rs
      BY <1>12, <1>17, <3>1, <3>2
    <3> QED BY <3>1, <3>3, <3>4 DEF Gone
  <2> QED BY <1>14, <1>16, <1>18, <1>21, <2>5, <2>6, <2>8
<1> QED BY <1>20, <1>21

\* A generic for that called its iterator.
LEMMA AnswerFor ==
    ASSUME Compiled(Live, Held), NEW d, NEW s, NEW us, NEW fs, NEW c, NEW f \in Int, NEW vs \in Seq(Value), NEW rs, NEW t,
           Answering(d, s, us, fs, c, f, vs, rs, t), c.proto # Nil, Code[c.proto][c.pc].op = "TFORLOOP",
           Answer(s, us, fs, t, Want(c), Cont(c)), status' = "run"
    PROVE  LandsWith(d, s, us, fs, Resumed(View(s, c, <<>>), vs))
<1>1. /\ Caller(d, s, us, fs) /\ c = fs[Len(fs)] /\ rs = Adjust(vs, Want(c)) /\ W(s, f, Len(rs)) = rs
      /\ Chain(d, fs) /\ s \in Seq(Value)
  BY DEF Answering, Caller
<1>2. PICK l \in Nat : l = Len(fs) /\ l >= d + 1 /\ d \in Nat /\ l \in d + 1..l /\ l \in 1..l /\ Shape(c) /\ c.base >= 1
  BY <1>1, ChainEnds, ChainUnder
<1>3. c.proto \in Protos /\ c.pc \in DOMAIN Code[c.proto]
  BY <1>2 DEF Shape
<1>4. PICK i : i = Code[c.proto][c.pc]
  OBVIOUS
<1>5. Orderly(Live, Held, c.proto, c.pc) /\ i.a \in Nat /\ i.c \in Nat
  BY <1>3, <1>4, CodeSays
<1>6. i.op = "TFORLOOP" /\ c.free = i.a + 2
  BY <1>1, <1>4 DEF Caller, WaitsIn
<1>7. PICK b \in Int, n \in Nat, a \in Nat, w \in Nat : b = c.base /\ n = c.free /\ b + n = f /\ a = i.a /\ n = a + 2 /\ w = i.c
  BY <1>2, <1>5, <1>6 DEF Shape, Answering
<1>8. PICK held : held = Held[c.proto][c.pc]
  OBVIOUS
<1>9. /\ a >= 1 /\ held \subseteq 1..a + 1 /\ w >= 1
      /\ Leads(Live, Held, c.proto, c.pc + 1, a + 2 + w, held, FALSE)
      /\ Leads(Live, Held, c.proto, c.pc + 2, a + 2, held, FALSE)
  BY <1>4, <1>5, <1>6, <1>7, <1>8 DEF Orderly
<1>s. b + n = f /\ n = a + 2 /\ a >= 1 /\ w >= 1 /\ b >= 1 /\ f \in Int
  BY <1>2, <1>7, <1>9
<1>10. Takes(i) = w /\ Want(c) = w /\ w # MultRet
  BY <1>4, <1>6, <1>7 DEF Want, Takes, MultRet
<1>11. rs = Adjust(vs, w) /\ rs \in Seq(Value) /\ Len(rs) = w
  BY <1>1, <1>10, <1>s, AdjustIs
<1>12. PICK v : v = rs[1]
  OBVIOUS
<1>13. Slot(s, f) = v /\ v \in Value
  <2>1. W(s, f, w) = rs
    BY <1>1, <1>11
  <2>2. W(s, f, w)[1] = Slot(s, f + 1 - 1)
    BY <1>s DEF W
  <2>3. v \in Value
    BY <1>11, <1>12, <1>s
  <2> QED BY <1>12, <2>1, <2>2, <2>3
<1>14. PICK co \in Int : co = Cont(c) /\ co # 0 /\ co + 3 = f /\ co + 2 = b + a + 1
  <2>1. Cont(c) = b + a - 1
    BY <1>4, <1>6, <1>7 DEF Cont
  <2>2. b + a - 1 # 0 /\ b + a - 1 + 3 = f /\ b + a - 1 + 2 = b + a + 1
    BY <1>s
  <2> QED BY <2>1, <2>2
<1>15. PICK x : x = View(s, c, <<>>)
  OBVIOUS
<1>16. x = [proto |-> c.proto, pc |-> c.pc, regs |-> W(s, b, n), more |-> <<>>, varargs |-> c.varargs]
  BY <1>7, <1>15 DEF View
<1>17. Resumed(x, vs) = IF v = Nil THEN [x EXCEPT !.pc = @ + 2]
                        ELSE [x EXCEPT !.pc = @ + 1, !.regs = Upto(@, a + 1) \o <<v>> \o rs]
  <2>1. x.proto = c.proto /\ x.pc = c.pc
    BY <1>16
  <2>2. Lua!Answered(x, vs) = AnsweredAt(x, vs, i)
    BY <1>4, <2>1, AnsweredIs
  <2>3. Resumed(x, vs) = AnsweredAt(x, vs, i)
    BY <2>1, <2>2 DEF Resumed
  <2>4. rs = Adjust(vs, Takes(i))
    BY <1>10, <1>11
  <2> QED BY <1>6, <1>7, <1>12, <2>3, <2>4 DEF AnsweredAt
<1>18. ups' = us /\ top' = t
  BY DEF Answer
<1>19. c = fs[Len(fs)] /\ Slot(s, co + 3) = v
  BY <1>1, <1>13, <1>14
<1>20. PICK o : o = FALSE /\ o \in BOOLEAN
  OBVIOUS
<1>21. PICK r \in Nat, g \in Int : r = a + 1 /\ g = co + 2 /\ b + r = g /\ held \subseteq 1..r /\ g < f /\ r + 1 = n
  <2>1. b + (a + 1) = b + a + 1 /\ a + 1 + 1 = n /\ b + a + 1 < f /\ a + 1 \in Nat /\ b + a + 1 \in Int
    BY <1>s
  <2> QED BY <2>1, <1>9, <1>14
<1>22. CASE v = Nil
  <2>1. PICK e : e = [c EXCEPT !.pc = c.pc + 2, !.free = n]
    OBVIOUS
  <2>2. stack' = s /\ Changed(frames', fs, Len(fs), e)
    <3>1. stack' = s
      BY <1>14, <1>19, <1>22 DEF Answer
    <3>2. frames' = [fs EXCEPT ![Len(fs)] = [c EXCEPT !.pc = c.pc + 2, !.free = c.free]]
      BY <1>14, <1>19, <1>22 DEF Answer
    <3> QED BY <3>1, <3>2, <2>1, <1>7 DEF Changed
  <2>3. PICK pc : pc = c.pc + 2
    OBVIOUS
  <2>4. Goes(e, c, pc, n)
    BY <2>1, <2>3 DEF Goes
  <2>5. Leads(Live, Held, c.proto, pc, n, Held[c.proto][c.pc], o)
    BY <1>7, <1>8, <1>9, <1>20, <2>3
  <2>6. Agree(s, stack', g) /\ c.base + r <= g /\ stack' \in Seq(Value)
    BY <1>1, <1>7, <1>21, <2>2 DEF Agree
  <2>7. LandsWith(d, s, us, fs, Back(c, stack', pc, n, BackOpen(c, stack', top', n, o)))
    BY <1>1, <1>8, <1>18, <1>20, <1>21, <2>2, <2>4, <2>5, <2>6, Resumes
  <2>8. BackOpen(c, stack', top', n, o) = <<>>
    BY <1>20 DEF BackOpen
  <2>9. Back(c, s, pc, n, <<>>) = [x EXCEPT !.pc = @ + 2]
    <3>1. PICK y : y = Back(c, s, pc, n, <<>>)
      OBVIOUS
    <3>2. y = [proto |-> c.proto, pc |-> pc, regs |-> W(s, b, n), more |-> <<>>, varargs |-> c.varargs]
      BY <1>7, <3>1 DEF Back
    <3>3. y = Passed(x, y.pc)
      BY <1>16, <3>2, PassedIs
    <3>4. y.pc = x.pc + 2
      BY <1>16, <2>3, <3>2
    <3> QED BY <3>1, <3>3, <3>4 DEF Passed
  <2> QED BY <1>15, <1>17, <1>22, <2>2, <2>7, <2>8, <2>9
<1>23. CASE v # Nil
  <2>1. PICK k \in Nat : k = n + w
    OBVIOUS
  <2>2. PICK e : e = [c EXCEPT !.pc = c.pc + 1, !.free = k]
    OBVIOUS
  <2>3. stack' = Put(s, g, <<v>>) /\ Changed(frames', fs, Len(fs), e)
    <3>1. stack' = Put(s, g, <<v>>)
      BY <1>14, <1>19, <1>21, <1>23 DEF Answer
    <3>2. frames' = [fs EXCEPT ![Len(fs)] = [c EXCEPT !.pc = c.pc + 1, !.free = c.free + w]]
      BY <1>10, <1>14, <1>19, <1>23 DEF Answer
    <3> QED BY <3>1, <3>2, <2>1, <2>2, <1>7 DEF Changed
  <2>4. g \in 1..Len(s)
    <3>1. f \in DOMAIN s
      BY <1>13, <1>23 DEF Slot
    <3>2. f \in 1..Len(s)
      BY <1>1, <3>1
    <3>3. g >= 1
      BY <1>s, <1>21
    <3> QED BY <1>21, <3>2, <3>3
  <2>5. Written(s, stack', g, v) /\ stack' \in Seq(Value)
    <3>1. <<v>> \in Seq(Value)
      BY <1>13, OneValue
    <3>2. stack' \in Seq(Value)
      BY <1>1, <2>3, <3>1, PutLaid
    <3> QED BY <1>1, <1>13, <2>3, <2>4, <3>2, PutWritten
  <2>6. Agree(s, stack', g) /\ c.base + r <= g
    BY <1>7, <1>21, <2>5, SMTT(30) DEF Agree, Written
  <2>7. PICK pc : pc = c.pc + 1
    OBVIOUS
  <2>8. Goes(e, c, pc, k)
    BY <2>2, <2>7 DEF Goes
  <2>9. Leads(Live, Held, c.proto, pc, k, Held[c.proto][c.pc], o)
    BY <1>7, <1>8, <1>9, <1>20, <2>1, <2>7
  <2>10. LandsWith(d, s, us, fs, Back(c, stack', pc, k, BackOpen(c, stack', top', k, o)))
    BY <1>1, <1>8, <1>18, <1>20, <1>21, <2>3, <2>5, <2>6, <2>8, <2>9, Resumes
  <2>11. BackOpen(c, stack', top', k, o) = <<>>
    BY <1>20 DEF BackOpen
  <2>12. W(stack', b, r) = SubSeq(W(s, b, n), 1, r)
    <3>1. \A j \in b..b + r - 1 : j \in Int /\ j # g
      BY <1>21
    <3>2. \A j \in b..b + r - 1 : Slot(stack', j) = Slot(s, j)
      BY <3>1, <2>5 DEF Written
    <3>3. W(stack', b, r) = W(s, b, r)
      BY <1>1, <2>5, <3>2, WAgrees
    <3>4. SubSeq(W(s, b, n), 1, r) = W(s, b, r)
      <4>1. r <= n
        BY <1>21
      <4>2. Upto(W(s, b, n), r) = W(s, b, r)
        BY <1>1, <4>1, WUpto
      <4> QED BY <4>2 DEF Upto
    <3> QED BY <3>3, <3>4
  <2>13. W(stack', g, 1) = <<v>>
    <3>1. W(stack', g, 1) = <<Slot(stack', g)>>
      BY <2>5, WOne
    <3> QED BY <3>1, <2>5 DEF Written
  <2>14. W(stack', f, w) = rs
    <3>1. \A j \in f..f + w - 1 : j \in Int /\ j # g
      BY <1>21
    <3>2. \A j \in f..f + w - 1 : Slot(stack', j) = Slot(s, j)
      BY <3>1, <2>5 DEF Written
    <3>3. W(stack', f, w) = W(s, f, w)
      BY <1>1, <2>5, <3>2, WAgrees
    <3> QED BY <1>1, <1>11, <3>3
  <2>15. W(stack', b, k) = SubSeq(W(s, b, n), 1, r) \o <<v>> \o rs
    <3>1. PICK u \in Nat : u = 1
      OBVIOUS
    <3>2. Joined(stack', b, r, u) /\ Joined(stack', b, n, w)
      BY <2>5, WJoin
    <3>3. W(stack', b, r) \o W(stack', g, 1) = W(stack', b, n)
      BY <1>21, <3>1, <3>2 DEF Joined
    <3>4. W(stack', b, n) \o W(stack', f, w) = W(stack', b, k)
      BY <1>7, <2>1, <3>2 DEF Joined
    <3> QED BY <2>12, <2>13, <2>14, <3>3, <3>4
  <2>16. Back(c, stack', pc, k, <<>>) = [x EXCEPT !.pc = @ + 1, !.regs = Upto(@, a + 1) \o <<v>> \o rs]
    <3>1. PICK y, z : y = Back(c, stack', pc, k, <<>>) /\ z = SubSeq(W(s, b, n), 1, r) \o <<v>> \o rs
      OBVIOUS
    <3>2. y = [proto |-> c.proto, pc |-> pc, regs |-> z, more |-> <<>>, varargs |-> c.varargs]
      BY <1>7, <2>15, <3>1 DEF Back
    <3>3. y = Gone(x, y.pc, y.regs)
      BY <1>16, <3>2, GoneIs
    <3>4. y.pc = x.pc + 1 /\ y.regs = Upto(x.regs, a + 1) \o <<v>> \o rs
      BY <1>16, <1>21, <2>7, <3>1, <3>2 DEF Upto
    <3> QED BY <3>1, <3>3, <3>4 DEF Gone
  <2> QED BY <1>15, <1>17, <1>23, <2>3, <2>10, <2>11, <2>16
<1> QED BY <1>22, <1>23

LEMMA AnswerIs ==
    ASSUME Compiled(Live, Held), NEW d, NEW s, NEW us, NEW fs, NEW c, NEW f \in Int, NEW vs \in Seq(Value), NEW rs, NEW t,
           Answering(d, s, us, fs, c, f, vs, rs, t),
           Answer(s, us, fs, t, Want(c), Cont(c)), status' = "run"
    PROVE  LandsWith(d, s, us, fs, Resumed(View(s, c, <<>>), vs))
BY AnswerGuard, AnswerCall, AnswerFor

\* What happens above the caller's registers changes nothing that it sees.
LEMMA SeesSame ==
    ASSUME NEW d, NEW s, NEW us, NEW fs, Caller(d, s, us, fs), NEW t \in Seq(Value), NEW f \in Int,
           Agree(s, t, f), f = fs[Len(fs)].base + fs[Len(fs)].free
    PROVE  /\ Caller(d, t, us, fs) /\ ActsOf(t, fs, d, <<>>) = ActsOf(s, fs, d, <<>>)
           /\ CellOf(t, us) = CellOf(s, us)
           /\ \A m : View(t, fs[Len(fs)], m) = View(s, fs[Len(fs)], m)
<1>1. Chain(d, fs) /\ Housed(d, us, fs) /\ UpsShape(us) /\ s \in Seq(Value) /\ Caller(d, t, us, fs)
  BY DEF Caller
<1>2. PICK l \in Nat : l = Len(fs) /\ l >= d + 1 /\ d \in Nat /\ l \in d + 1..l /\ Shape(fs[l])
  BY <1>1, ChainEnds
<1>3. PICK b \in Int, n \in Nat : b = fs[l].base /\ n = fs[l].free
  BY <1>2 DEF Shape
<1>4. fs[l].base + fs[l].free <= f
  BY <1>2, <1>3
<1>5. Views(s, t, fs, d + 1, l)
  BY <1>1, <1>2, <1>4, AllKept
<1>6. ActsOf(t, fs, d, <<>>) = ActsOf(s, fs, d, <<>>)
  <2>1. PICK gs : gs = fs
    OBVIOUS
  <2>2. FramesOK(fs) /\ FramesOK(gs) /\ Len(gs) = Len(fs) /\ d \in Nat
    BY <1>1, <1>2, <2>1 DEF Chain, Grounded
  <2>3. \A k \in d + 1..Len(fs) : \A x : View(t, gs[k], x) = View(s, fs[k], x)
    BY <1>2, <1>5, <2>1 DEF Views
  <2>4. PICK m : m = <<>>
    OBVIOUS
  <2>5. ActsOf(t, gs, d, m) = ActsOf(s, fs, d, m)
    BY <2>2, <2>3, ActsSame
  <2> QED BY <2>1, <2>4, <2>5
<1>7. CellOf(t, us) = CellOf(s, us)
  BY <1>1, <1>2, <1>4, CellsKept
<1> QED BY <1>1, <1>2, <1>5, <1>6, <1>7 DEF Views

LEMMA DeliverIs ==
    ASSUME Compiled(Live, Held), NEW d, NEW s, NEW us, NEW fs, Caller(d, s, us, fs), NEW c, c = fs[Len(fs)],
           NEW f \in Int, f = c.base + c.free, NEW t \in Int, t >= f, NEW vs \in Seq(Value),
           Deliver(s, us, fs, t, vs, f, Want(c), Cont(c)), status' = "run"
    PROVE  LandsWith(d, s, us, fs, Resumed(View(s, c, <<>>), vs))
<1>1. /\ Chain(d, fs) /\ s \in Seq(Value)
  BY DEF Caller
<1>2. PICK l \in Nat : l = Len(fs) /\ l >= d + 1 /\ d \in Nat /\ l \in d + 1..l /\ Shape(c) /\ c.base >= 1
  BY <1>1, ChainEnds, ChainUnder
<1>3. PICK g \in Int, q \in Int : g = f /\ q = t /\ g >= 1 /\ g <= q
  <2>1. PICK b \in Int, n \in Nat : b = c.base /\ n = c.free /\ b >= 1
    BY <1>2 DEF Shape
  <2>2. b + n >= 1
    BY <2>1
  <2> QED BY <2>1, <2>2
<1>s. g >= 1 /\ g <= q /\ q >= 1 /\ s \in Seq(Value)
  BY <1>1, <1>3
<1>4. PICK w : w = Want(c)
  OBVIOUS
<1>5. PICK rs \in Seq(Value) : rs = Adjust(vs, w)
  <2>1. w \in Int
    <3>1. CASE c.proto = Nil
      BY <1>4, <3>1 DEF Want, MultRet
    <3>2. CASE c.proto # Nil
      <4>1. c.proto \in Protos /\ c.pc \in DOMAIN Code[c.proto]
        BY <1>2, <3>2 DEF Shape
      <4>2. PICK i : i = Code[c.proto][c.pc] /\ i.c \in Nat /\ i.op \in {"CALL", "TAILCALL", "TFORLOOP"}
        BY <3>2, <4>1, CodeSays DEF Caller, WaitsIn
      <4>3. w = Takes(i)
        BY <1>4, <3>2, <4>2 DEF Want
      <4> QED BY <4>2, <4>3, SMTT(30) DEF Takes, MultRet
    <3> QED BY <3>1, <3>2
  <2> QED BY <2>1, AdjustIs
<1>6. PICK m \in Int, h \in Int : m = q + Len(vs) - 1 /\ h = g + Len(rs) - 1
  OBVIOUS
<1>7. PICK p : p = Put(Grow(s, m), q, vs)
  OBVIOUS
<1>8. p \in Seq(Value) /\ Agree(s, p, q)
  <2>1. vs = <<>> \/ q + Len(vs) - 1 <= m
    BY <1>6
  <2> QED BY <1>s, <1>7, <2>1, PutGrown
<1>9. PICK u : u = Put(Grow(p, h), g, rs)
  OBVIOUS
<1>10. u \in Seq(Value) /\ Agree(p, u, g) /\ W(u, g, Len(rs)) = rs
  <2>1. rs = <<>> \/ g + Len(rs) - 1 <= h
    BY <1>6
  <2> QED BY <1>s, <1>8, <1>9, <2>1, PutGrown
<1>11. Agree(s, u, g)
  <2>1. \A j \in Int : j < g => j < q
    BY <1>s
  <2> QED BY <2>1, <1>8, <1>10 DEF Agree
<1>12. Answer(u, us, fs, g + Len(rs), w, Cont(c))
  BY <1>3, <1>4, <1>5, <1>6, <1>7, <1>9 DEF Deliver
<1>13. /\ Caller(d, u, us, fs) /\ ActsOf(u, fs, d, <<>>) = ActsOf(s, fs, d, <<>>)
       /\ CellOf(u, us) = CellOf(s, us) /\ View(u, c, <<>>) = View(s, c, <<>>)
  <2>1. Agree(s, u, f) /\ f = fs[Len(fs)].base + fs[Len(fs)].free
    BY <1>3, <1>11
  <2>2. /\ Caller(d, u, us, fs) /\ ActsOf(u, fs, d, <<>>) = ActsOf(s, fs, d, <<>>)
        /\ CellOf(u, us) = CellOf(s, us) /\ \A x : View(u, fs[Len(fs)], x) = View(s, fs[Len(fs)], x)
    BY <1>10, <2>1, SeesSame
  <2> QED BY <2>2
<1>14. PICK y : y = g + Len(rs)
  OBVIOUS
<1>15. Answering(d, u, us, fs, c, f, vs, rs, y)
  BY <1>3, <1>4, <1>5, <1>10, <1>13, <1>14 DEF Answering
<1>16. LandsWith(d, u, us, fs, Resumed(View(u, c, <<>>), vs))
  BY <1>4, <1>12, <1>14, <1>15, AnswerIs
<1> QED BY <1>13, <1>16 DEF LandsWith

-----------------------------------------------------------------------------
(* Errors. *)

\* The frames above the first k are dropped and their variables closed.
Popped(d, s, us, fs, k, c, gs) ==
    /\ Chain(d, gs) /\ FramesOK(gs) /\ Len(gs) = k /\ (\A j \in 1..k : gs[j] = fs[j])
    /\ UpsOK(c) /\ Housed(d, c, gs)
    /\ HomeOf(c, gs, d) = Forgotten(HomeOf(us, fs, d), k - d + 1, 0)
    /\ CellOf(s, c) = CellOf(s, us) /\ UsedOf(c) = UsedOf(us)
    /\ \A m : ActsOf(s, gs, d, <<>>) = SubSeq(ActsOf(s, fs, d, m), 1, k - d)

LEMMA PopIs ==
    ASSUME NEW d, NEW s \in Seq(Value), NEW us, NEW fs, Chain(d, fs), Housed(d, us, fs), UpsOK(us),
           NEW k \in Nat, k >= d + 1, k < Len(fs), NEW c, c = Closed(us, s, fs[k + 1].base),
           NEW gs, gs = SubSeq(fs, 1, k)
    PROVE  Popped(d, s, us, fs, k, c, gs)
<1>1. PICK l \in Nat : l = Len(fs) /\ l >= d + 1 /\ d \in Nat /\ l \in d + 1..l
  BY ChainEnds
<1>2. k \in d + 1..Len(fs) /\ k + 1 \in d + 1..Len(fs) /\ k < l /\ k - d \in Nat
  BY <1>1
<1>3. Chain(d, gs) /\ FramesOK(gs) /\ Len(gs) = k /\ \A j \in 1..k : gs[j] = fs[j]
  <2>1. CutAt(gs, fs, k) /\ k \in Int /\ k >= d + 1 /\ k <= Len(fs)
    BY <1>1, <1>2 DEF CutAt
  <2> QED BY <2>1, ChainCut
<1>4. Shape(fs[k + 1]) /\ UpsShape(us) /\ UpsShape(c)
  <2>1. Shape(fs[k + 1])
    BY <1>2 DEF Chain
  <2>2. fs[k + 1].base \in Int
    BY <2>1 DEF Shape
  <2>3. UpsOK(c)
    BY <2>2, ClosedKeeps
  <2> QED BY <2>1, <2>3 DEF UpsOK
<1>5. PICK b \in Int, q \in Nat : b = fs[k + 1].base /\ q = fs[k + 1].free
  BY <1>4 DEF Shape
<1>6. PICK j \in Nat, n \in Nat : j = k + 1 /\ n = 0
  OBVIOUS
<1>7. /\ UpsOK(c) /\ Housed(d, c, fs) /\ HomesFrom(HomeOf(c, fs, d), HomeOf(us, fs, d), j, d, n)
      /\ OpenBelow(c, us, fs, j, n)
  <2>1. b + n = b
    BY <1>6
  <2>2. ClosedFrom(c, us, s, fs, j, n)
    BY <1>5, <1>6, <2>1 DEF ClosedFrom
  <2>3. j \in d + 1..Len(fs) /\ n <= fs[j].free
    BY <1>2, <1>5, <1>6
  <2> QED BY <1>1, <2>2, <2>3, HomeForget
<1>8. HomeOf(c, fs, d) = Forgotten(HomeOf(us, fs, d), k - d + 1, 0)
  <2>1. j - d = k - d + 1
    BY <1>1, <1>6
  <2>2. HomeOf(c, fs, d) = Forgotten(HomeOf(us, fs, d), j - d, n)
    BY <1>7 DEF HomesFrom
  <2> QED BY <2>1, <2>2, <1>6
<1>9. Housed(d, c, gs) /\ HomeOf(c, gs, d) = HomeOf(c, fs, d)
  <2>1. \A u \in Upvalues : c.var[u].state = "open" => c.var[u].slot < fs[k + 1].base
    <3>1. b + n = b
      BY <1>6
    <3>2. \A u \in Upvalues : c.var[u].state = "open" => c.var[u].slot = us.var[u].slot /\ us.var[u].slot < fs[j].base + n
      BY <1>7 DEF OpenBelow
    <3> QED BY <1>5, <1>6, <3>1, <3>2
  <2>2. \A i \in d + 1..k : gs[i] = fs[i]
    <3>1. \A i \in d + 1..k : i \in 1..k
      BY <1>1
    <3> QED BY <3>1, <1>3
  <2>3. k \in Nat /\ k <= Len(fs) /\ k <= Len(gs) /\ k >= d
    BY <1>1, <1>2, <1>3
  <2> QED BY <1>3, <1>4, <1>7, <2>1, <2>2, <2>3, HousedPart
<1>10. CellOf(s, c) = CellOf(s, us) /\ UsedOf(c) = UsedOf(us)
  <2>1. c = Closed(us, s, b)
    BY <1>5
  <2> QED BY <2>1, CellClosed
<1>11. \A m : ActsOf(s, gs, d, <<>>) = SubSeq(ActsOf(s, fs, d, m), 1, k - d)
  <2>1. TAKE m
  <2>2. FramesOK(fs) /\ Len(gs) < Len(fs) /\ d <= Len(gs) /\ d \in Nat
    BY <1>1, <1>2, <1>3 DEF Chain, Grounded
  <2>3. \A i \in d + 1..Len(gs) : View(s, gs[i], <<>>) = View(s, fs[i], <<>>)
    <3>1. \A i \in d + 1..Len(gs) : i \in 1..k
      BY <1>1, <1>3
    <3> QED BY <3>1, <1>3
  <2>4. PICK hs : hs = gs
    OBVIOUS
  <2>5. /\ FramesOK(fs) /\ FramesOK(hs) /\ Len(hs) < Len(fs) /\ d <= Len(hs) /\ d \in Nat
        /\ \A i \in d + 1..Len(hs) : View(s, hs[i], <<>>) = View(s, fs[i], <<>>)
    BY <1>3, <2>2, <2>3, <2>4
  <2>6. ActsOf(s, hs, d, <<>>) = SubSeq(ActsOf(s, fs, d, m), 1, Len(hs) - d)
    <3>1. PICK t : t = s
      OBVIOUS
    <3>2. \A i \in d + 1..Len(hs) : View(t, hs[i], <<>>) = View(s, fs[i], <<>>)
      BY <2>5, <3>1
    <3>3. CutAt(ActsOf(t, hs, d, <<>>), ActsOf(s, fs, d, m), Len(hs) - d)
      BY <2>5, <3>2, ActsCut
    <3> QED BY <3>1, <3>3 DEF CutAt
  <2> QED BY <1>3, <2>4, <2>6
<1> QED BY <1>3, <1>7, <1>8, <1>9, <1>10, <1>11 DEF Popped

\* A thread has no protected call below the function that it was started with.
LEMMA GuardsAbove ==
    ASSUME NEW d, NEW fs, Chain(d, fs)
    PROVE  /\ Guards(fs) \in SUBSET (1..Len(fs))
           /\ \A k : k \in Guards(fs) <=> k \in d + 2..Len(fs) /\ fs[k].proto = Nil
<1>1. PICK l \in Nat : l = Len(fs) /\ l >= d + 1 /\ d \in Nat
  BY ChainEnds
<1>2. d \in {0, 1} /\ fs[d + 1].proto # Nil
  BY DEF Chain, Grounded
<1>3. Guards(fs) = {k \in 2..l : fs[k].proto = Nil}
  BY <1>1 DEF Guards
<1>4. ASSUME NEW k, k \in 2..l, fs[k].proto = Nil PROVE k \in d + 2..l
  <2>1. k # d + 1
    BY <1>2, <1>4
  <2> QED BY <1>2, <1>4, <2>1
<1>5. \A k : k \in d + 2..l => k \in 2..l
  BY <1>1
<1> QED BY <1>1, <1>3, <1>4, <1>5

\* The error reaches the protected call in the last frame.
LEMMA ThrowHere ==
    ASSUME NEW d, NEW s, NEW us, NEW fs, Caller(d, s, us, fs), fs[Len(fs)].proto = Nil, Throw(s, us, fs)
    PROVE  /\ status' = "error"
           /\ Lands(d, ActsOf(s, fs, d, <<>>), HomeOf(us, fs, d), CellOf(s, us), UsedOf(us))
<1>1. Chain(d, fs) /\ Housed(d, us, fs)
  BY DEF Caller
<1>2. PICK l \in Nat : l = Len(fs) /\ l >= d + 1 /\ d \in Nat
  BY <1>1, ChainEnds
<1>3. l \in Guards(fs)
  <2>1. l # d + 1
    BY <1>1, <1>2 DEF Chain, Grounded
  <2>2. l \in d + 2..l
    BY <1>2, <2>1
  <2> QED BY <1>1, <1>2, <2>2, GuardsAbove
<1>4. Max(Guards(fs)) = l
  <2>1. Guards(fs) \in SUBSET (1..l) /\ Guards(fs) # {}
    BY <1>1, <1>2, <1>3, GuardsAbove
  <2>2. Max(Guards(fs)) \in Guards(fs) /\ \A j \in Guards(fs) : j <= Max(Guards(fs))
    BY <2>1, HasMax
  <2>3. PICK k : k = Max(Guards(fs))
    OBVIOUS
  <2>4. k \in 1..l /\ l <= k
    BY <1>3, <2>1, <2>2, <2>3
  <2> QED BY <2>3, <2>4
<1>5. SubSeq(fs, 1, l) = fs
  <2>1. \E T : fs \in Seq(T)
    BY <1>1 DEF Chain, Grounded, FramesOK
  <2> QED BY <1>2, <2>1
<1>6. stack' = s /\ frames' = fs /\ ups' = us /\ status' = "error"
  BY <1>2, <1>3, <1>4, <1>5 DEF Throw
<1>7. Progress(d, status', ups', frames', top', pending')
  BY <1>1, <1>6 DEF Progress
<1>8. OpenListAt(status', stack', frames', top') = <<>>
  BY <1>6 DEF OpenListAt
<1> QED BY <1>6, <1>7, <1>8 DEF Lands, Over

\* The error leaves the functions above the innermost protected call.
LEMMA ThrowOut ==
    ASSUME NEW d, NEW s \in Seq(Value), NEW us, NEW fs, Chain(d, fs), Housed(d, us, fs), UpsOK(us),
           fs[Len(fs)].proto # Nil, Guards(fs) # {}, Throw(s, us, fs)
    PROVE  \E k \in Guards(fs) :
              /\ (\A j \in Guards(fs) : j <= k) /\ k < Len(fs)
              /\ status' = "error"
              /\ \A m : Lands(d, SubSeq(ActsOf(s, fs, d, m), 1, k - d), Forgotten(HomeOf(us, fs, d), k - d + 1, 0),
                              CellOf(s, us), UsedOf(us))
<1>1. PICK l \in Nat : l = Len(fs) /\ l >= d + 1 /\ d \in Nat
  BY ChainEnds
<1>2. PICK k : k = Max(Guards(fs))
  OBVIOUS
<1>3. k \in Guards(fs) /\ \A j \in Guards(fs) : j <= k
  BY <1>1, <1>2, GuardsAbove, HasMax
<1>4. k \in d + 2..l /\ fs[k].proto = Nil
  BY <1>1, <1>3, GuardsAbove
<1>5. k \in Nat /\ k >= d + 1 /\ k < Len(fs) /\ k # l
  BY <1>1, <1>4
<1>6. PICK c, gs : c = Closed(us, s, fs[k + 1].base) /\ gs = SubSeq(fs, 1, k)
  OBVIOUS
<1>7. Popped(d, s, us, fs, k, c, gs)
  BY <1>5, <1>6, PopIs
<1>8. stack' = s /\ frames' = gs /\ ups' = c /\ status' = "error"
  BY <1>1, <1>2, <1>5, <1>6 DEF Throw
<1>9. Progress(d, status', ups', frames', top', pending')
  <2>1. gs[Len(gs)].proto = Nil
    <3>1. k \in 1..k /\ Len(gs) = k
      BY <1>1, <1>4, <1>7 DEF Popped
    <3>2. gs[k] = fs[k]
      BY <3>1, <1>7 DEF Popped
    <3> QED BY <3>1, <3>2, <1>4
  <2> QED BY <1>7, <1>8, <2>1 DEF Progress, Popped
<1>10. OpenListAt(status', stack', frames', top') = <<>>
  BY <1>8 DEF OpenListAt
<1>11. \A m : Lands(d, SubSeq(ActsOf(s, fs, d, m), 1, k - d), Forgotten(HomeOf(us, fs, d), k - d + 1, 0),
                    CellOf(s, us), UsedOf(us))
  BY <1>7, <1>8, <1>9, <1>10 DEF Lands, Over, Popped
<1> QED BY <1>3, <1>5, <1>8, <1>11

\* No protected call is there: the thread dies.
LEMMA ThrowDies ==
    ASSUME NEW d, NEW s \in Seq(Value), NEW us, NEW fs, Chain(d, fs), Housed(d, us, fs), UpsOK(us),
           thread \in {"main", "coroutine"}, d = IF thread = "main" THEN 0 ELSE 1,
           Guards(fs) = {}, Throw(s, us, fs)
    PROVE  status' = "dead" /\ Ends(d, CellOf(s, us), UsedOf(us))
<1>1. stack' = s /\ status' = "dead"
  BY DEF Throw
<1>2. UpsShape(us)
  BY DEF UpsOK
<1>3. \A u \in Upvalues : us.var[u].state = "open" => us.var[u].slot >= 1
  BY <1>2, OpenUnder
<1>4. CASE thread = "main"
  <2>1. PICK i \in Int : i = 1
    OBVIOUS
  <2>2. ups' = Closed(us, s, i)
    BY <1>4, <2>1 DEF Throw
  <2>3. \A u \in Upvalues : ups'.var[u] = ClosedVar(us, s, i, u)
    BY <2>2, ClosedIs
  <2>4. \A u \in Upvalues : ups'.var[u].state # "open"
    <3>1. TAKE u \in Upvalues
    <3>2. CASE us.var[u].state = "open"
      <4>1. us.var[u].slot >= i
        BY <1>3, <2>1, <3>2
      <4>2. ups'.var[u] = [state |-> "closed", slot |-> 0, val |-> Slot(s, us.var[u].slot)]
        BY <2>3, <3>2, <4>1 DEF ClosedVar
      <4> QED BY <4>2
    <3>3. CASE us.var[u].state # "open"
      BY <2>3, <3>3 DEF ClosedVar
    <3> QED BY <3>2, <3>3
  <2>5. CellOf(s, ups') = CellOf(s, us) /\ UsedOf(ups') = UsedOf(us)
    BY <2>2, CellClosed
  <2> QED BY <1>1, <2>4, <2>5 DEF Ends, Over, Rest
<1>5. CASE thread # "main"
  <2>1. ups' = us
    BY <1>5 DEF Throw
  <2> QED BY <1>1, <1>3, <1>5, <2>1 DEF Ends, Over, Rest
<1> QED BY <1>4, <1>5

\* The frames fs are those of the running thread: the same functions wait.
Same(fs) == Len(fs) = Len(frames) /\ \A k \in 1..Len(fs) : fs[k].proto = frames[k].proto

LEMMA BoundariesAre ==
    ASSUME StackInvariant, Calling, status = "run", NEW fs, Chain(Below, fs), Same(fs)
    PROVE  \A i \in Int : i \in Lua!Boundaries <=> i + Below \in Guards(fs)
<1>1. /\ Activated = ActsOf(stack, frames, Below, Pending) /\ Lua!depth = Len(frames) - Below
  BY Sees
<1>2. PICK l \in Nat, d \in Nat : l = Len(frames) /\ d = Below /\ l >= d + 1 /\ Len(fs) = l
  BY ChainEnds DEF Same
<1>3. Chain(d, frames)
  BY <1>2 DEF Calling, Progress, Over
<1>4. \A i \in 1..l - d : Activated[i].proto = frames[i + d].proto
  <2>1. FramesOK(frames) /\ d <= Len(frames)
    BY <1>2, <1>3 DEF Chain, Grounded
  <2>2. ActsAre(Activated, stack, frames, d, Pending)
    BY <1>1, <1>2, <2>1, ActsList
  <2>3. PICK fs1, a1 : fs1 = frames /\ a1 = Activated
    OBVIOUS
  <2>4. ActsAre(a1, stack, fs1, d, Pending) /\ Len(fs1) = l
    BY <1>2, <2>2, <2>3
  <2>5. \A i \in 1..l - d : a1[i] = View(stack, fs1[i + d], IF i + d = l THEN Pending ELSE <<>>)
    BY <2>4 DEF ActsAre
  <2>6. ASSUME NEW i \in 1..l - d PROVE a1[i].proto = fs1[i + d].proto
    <3>1. PICK x, f : x = (IF i + d = l THEN Pending ELSE <<>>) /\ f = fs1[i + d]
      OBVIOUS
    <3>2. a1[i] = View(stack, f, x)
      BY <2>5, <3>1
    <3>3. View(stack, f, x).proto = f.proto
      BY DEF View
    <3> QED BY <3>1, <3>2, <3>3
  <2> QED BY <2>3, <2>6
<1>5. TAKE i \in Int
<1>6. i \in Lua!Boundaries <=> i \in 1..l - d /\ Activated[i].proto = Nil
  BY <1>1, <1>2 DEF Lua!Boundaries
<1>7. i + d \in Guards(fs) <=> i + d \in d + 2..l /\ fs[i + d].proto = Nil
  BY <1>2, GuardsAbove
<1>8. fs[d + 1].proto # Nil
  BY <1>2 DEF Chain, Grounded
<1>9. i \in 1..l - d => i + d \in 1..l /\ i + d \in d + 1..l
  BY <1>2
<1>10. i + d \in d + 2..l => i \in 1..l - d
  BY <1>2
<1>11. i + d \in d + 1..l /\ i + d # d + 1 => i + d \in d + 2..l
  BY <1>2
<1>12. i + d \in 1..l => fs[i + d].proto = frames[i + d].proto
  BY <1>2 DEF Same
<1>13. i \in 1..l - d => Activated[i].proto = frames[i + d].proto
  BY <1>4
<1> QED BY <1>2, <1>6, <1>7, <1>8, <1>9, <1>10, <1>11, <1>12, <1>13

\* Both lists begin in the same way.
SameBelow(b, a, n) == \A j \in Nat : j < n => SubSeq(b, 1, j) = SubSeq(a, 1, j)

\* What the running function does fails: s, us and fs are what an instruction
\* has made of the stack, the upvalues and the frames, h are the homes then.
Failing(s, us, fs, h, m) ==
    /\ Chain(Below, fs) /\ Housed(Below, us, fs) /\ UpsOK(us) /\ s \in Seq(Value)
    /\ Same(fs)
    /\ HomeOf(us, fs, Below) = h /\ (h = Homes \/ h = Forgotten(Homes, Lua!depth, 0))
    /\ CellOf(s, us) = Contents /\ UsedOf(us) = Used
    /\ SameBelow(ActsOf(s, fs, Below, m), Activated, Lua!depth)

LEMMA HomesShape ==
    ASSUME StackInvariant, Calling, status = "run"
    PROVE  \A u \in Upvalues : Homes[u] = <<0, 0>>
                \/ (\E i \in Nat, r \in Nat : Homes[u] = <<i, r>> /\ i >= 1 /\ r >= 1)
<1>1. Chain(Below, frames) /\ Housed(Below, ups, frames)
  BY DEF Calling, Progress, Over
<1>2. UpsShape(ups)
  BY DEF StackInvariant, FramesInvariant, UpsOK
<1>3. Homes = HomeOf(ups, frames, Below)
  BY Sees
<1>4. TAKE u \in Upvalues
<1> QED BY <1>1, <1>2, <1>3, HomesAre

\* Forget from the n-th activation on, whatever was forgotten of the last one.
LEMMA ForgetIs ==
    ASSUME StackInvariant, Calling, status = "run", NEW h, h = Homes \/ h = Forgotten(Homes, Lua!depth, 0),
           NEW j \in Nat, j >= 1, j <= Lua!depth
    PROVE  Forgotten(h, j, 0) = Forgotten(Homes, j, 0)
<1>1. CASE h = Homes
  BY <1>1
<1>2. CASE h = Forgotten(Homes, Lua!depth, 0)
  <2>1. PICK i \in Nat : i = Lua!depth
    <3>1. Lua!depth = Len(frames) - Below /\ Chain(Below, frames)
      BY Sees DEF Calling, Progress, Over
    <3>2. PICK l \in Nat, d \in Nat : l = Len(frames) /\ d = Below /\ l >= d + 1
      BY <3>1, ChainEnds
    <3>3. l - d \in Nat
      BY <3>2
    <3> QED BY <3>1, <3>2, <3>3
  <2>2. PICK g : g = Homes
    OBVIOUS
  <2>3. \A u \in Upvalues : g[u] = <<0, 0>> \/ (\E k \in Nat, r \in Nat : g[u] = <<k, r>> /\ k >= 1 /\ r >= 1)
    BY <2>2, HomesShape
  <2>4. Forgotten(Forgotten(g, i, 0), j, 0) = Forgotten(g, j, 0)
    BY <2>1, <2>3, ForgetTwice
  <2> QED BY <1>2, <2>1, <2>2, <2>4
<1> QED BY <1>1, <1>2

LEMMA Fails ==
    ASSUME StackInvariant, StackInvariant', Calling, status = "run", cur.proto # Nil, thread' = thread,
           NEW s, NEW us, NEW fs, NEW h, NEW m, Failing(s, us, fs, h, m), Throw(s, us, fs)
    PROVE  Calling' /\ Lua!Fail
<1>1. /\ Chain(Below, fs) /\ Housed(Below, us, fs) /\ UpsOK(us) /\ s \in Seq(Value)
      /\ HomeOf(us, fs, Below) = h /\ CellOf(s, us) = Contents /\ UsedOf(us) = Used
      /\ Same(fs)
  BY DEF Failing
<1>2. PICK l \in Nat, d \in Nat : /\ l = Len(fs) /\ d = Below /\ l >= d + 1 /\ l = Len(frames)
                                  /\ Lua!depth = l - d /\ l - d \in Nat
  <2>1. Lua!depth = Len(frames) - Below
    BY Sees
  <2>2. PICK l \in Nat, d \in Nat : l = Len(fs) /\ d = Below /\ l >= d + 1
    BY <1>1, ChainEnds
  <2>3. l = Len(frames) /\ l - d \in Nat
    BY <1>1, <2>2 DEF Same
  <2> QED BY <2>1, <2>2, <2>3
<1>3. fs[l].proto # Nil /\ Lua!cur.proto # Nil /\ Final = <<>>
  <2>1. l \in 1..Len(fs)
    BY <1>2
  <2>2. fs[l].proto = frames[l].proto
    BY <1>1, <2>1 DEF Same
  <2>3. Lua!cur.proto = cur.proto /\ Final = <<>>
    BY Sees
  <2> QED BY <1>2, <2>2, <2>3 DEF cur
<1>4. \A i \in Int : i \in Lua!Boundaries <=> i + d \in Guards(fs)
  BY <1>1, <1>2, BoundariesAre
<1>5. Lua!Boundaries \subseteq Int
  BY <1>2 DEF Lua!Boundaries
<1>7. CASE Guards(fs) # {}
  <2>1. PICK k \in Guards(fs) :
              /\ (\A j \in Guards(fs) : j <= k) /\ k < Len(fs)
              /\ status' = "error"
              /\ \A x : Lands(Below, SubSeq(ActsOf(s, fs, Below, x), 1, k - Below),
                              Forgotten(HomeOf(us, fs, Below), k - Below + 1, 0), CellOf(s, us), UsedOf(us))
    BY <1>1, <1>2, <1>3, <1>7, ThrowOut
  <2>2. PICK i \in Nat : i = k - d /\ i \in Lua!Boundaries /\ i < l - d /\ k = i + d
    <3>1. k \in d + 2..l
      BY <1>1, <1>2, GuardsAbove
    <3>2. k - d \in Nat /\ k - d < l - d /\ (k - d) + d = k
      BY <1>2, <2>1, <3>1
    <3>3. k - d \in Lua!Boundaries
      BY <1>4, <3>2
    <3> QED BY <3>2, <3>3
  <2>3. PICK b : b = CHOOSE x \in Lua!Boundaries : \A y \in Lua!Boundaries : y <= x
    OBVIOUS
  <2>4. b = i
    <3>1. \A y \in Lua!Boundaries : y <= i
      <4>1. TAKE y \in Lua!Boundaries
      <4>2. y \in Int /\ y + d \in Guards(fs)
        BY <1>4, <1>5
      <4>3. y + d <= k
        BY <2>1, <4>2
      <4> QED BY <4>2, <4>3, <2>2, <1>2
    <3>2. b \in Lua!Boundaries /\ \A y \in Lua!Boundaries : y <= b
      BY <2>2, <2>3, <3>1
    <3> QED BY <2>2, <3>1, <3>2, <1>5
  <2>5. PICK e, n : e = CellOf(s, us) /\ n = UsedOf(us)
    OBVIOUS
  <2>6. PICK a : a = SubSeq(Activated, 1, i)
    OBVIOUS
  <2>7. a = SubSeq(ActsOf(s, fs, d, m), 1, i)
    <3>1. SameBelow(ActsOf(s, fs, d, m), Activated, l - d)
      BY <1>2 DEF Failing
    <3> QED BY <3>1, <2>2, <2>6 DEF SameBelow
  <2>8. PICK g : g = Forgotten(Homes, i + 1, 0)
    OBVIOUS
  <2>9. g = Forgotten(h, i + 1, 0)
    <3>1. PICK j \in Nat : j = i + 1
      OBVIOUS
    <3>2. j >= 1 /\ j <= Lua!depth
      BY <1>2, <2>2, <3>1
    <3>3. h = Homes \/ h = Forgotten(Homes, Lua!depth, 0)
      BY DEF Failing
    <3>4. Forgotten(h, j, 0) = Forgotten(Homes, j, 0)
      BY <3>2, <3>3, ForgetIs
    <3> QED BY <2>8, <3>1, <3>4
  <2>10. Lands(Below, a, g, e, n)
    BY <1>1, <1>2, <2>1, <2>2, <2>5, <2>7, <2>9
  <2>11. /\ Calling' /\ Activated' = a /\ Homes' = g /\ Contents' = e /\ Used' = n /\ Final' = <<>>
    BY <2>10, Landing
  <2>12. Lua!Forget(i + 1, 0)
    BY <2>8, <2>11 DEF Lua!Forget, Forgotten, Lua!Nowhere
  <2>13. Lua!Boundaries # {}
    BY <2>2
  <2>14. Activated' = Lua!Upto(Activated, i)
    BY <2>6, <2>11 DEF Lua!Upto
  <2> QED BY <1>1, <1>3, <2>1, <2>3, <2>4, <2>5, <2>11, <2>12, <2>13, <2>14 DEF Lua!Fail
<1>8. CASE Guards(fs) = {}
  <2>1. Lua!Boundaries = {}
    BY <1>4, <1>5, <1>8
  <2>2. PICK e, n : e = CellOf(s, us) /\ n = UsedOf(us)
    OBVIOUS
  <2>3. status' = "dead" /\ Ends(Below, e, n)
    <3>1. thread \in {"main", "coroutine"}
      BY DEF StackInvariant, FramesInvariant
    <3>2. PICK x : x = Below /\ x = IF thread = "main" THEN 0 ELSE 1
      BY DEF Below
    <3>3. status' = "dead" /\ Ends(x, e, n)
      BY <1>1, <1>8, <2>2, <3>1, <3>2, ThrowDies
    <3> QED BY <3>2, <3>3
  <2>4. /\ Calling' /\ Activated' = <<>> /\ Homes' = [u \in Upvalues |-> <<0, 0>>]
        /\ Contents' = e /\ Used' = n
    BY <2>3, Ending
  <2>5. Homes' = Forgotten(Homes, 1, 0)
    <3>1. PICK g : g = Homes
      OBVIOUS
    <3>2. \A u \in Upvalues : g[u] = <<0, 0>> \/ (\E k \in Nat, r \in Nat : g[u] = <<k, r>> /\ k >= 1 /\ r >= 1)
      BY <3>1, HomesShape
    <3>3. Forgotten(g, 1, 0) = [u \in Upvalues |-> <<0, 0>>]
      BY <3>2, ForgetAll
    <3> QED BY <2>4, <3>1, <3>3
  <2>6. Lua!Forget(1, 0)
    BY <2>5 DEF Lua!Forget, Forgotten, Lua!Nowhere
  <2>7. Final' = Final
    <3>1. Final' = <<>>
      BY <2>3 DEF Final
    <3> QED BY <3>1, <1>3
  <2> QED BY <1>1, <1>3, <2>1, <2>2, <2>3, <2>4, <2>6, <2>7 DEF Lua!Fail
<1> QED BY <1>7, <1>8

LEMMA FailIs ==
    ASSUME StackInvariant, StackInvariant', Calling, Compiled(Live, Held), Fail
    PROVE  Calling' /\ Lua!Fail
<1>1. (At("CLOSURE") \/ At("SETLIST")) /\ Throw(stack, ups, frames) /\ thread' = thread
  BY DEF Fail
<1>2. status = "run" /\ cur.proto # Nil
  BY <1>1 DEF At
<1>3. /\ Activated = ActsOf(stack, frames, Below, Pending)
      /\ Homes = HomeOf(ups, frames, Below) /\ Contents = CellOf(stack, ups) /\ Used = UsedOf(ups)
  BY <1>2, Sees
<1>4. Chain(Below, frames) /\ Housed(Below, ups, frames) /\ UpsOK(ups) /\ stack \in Seq(Value)
  BY <1>2 DEF Calling, Progress, Over, StackInvariant, FramesInvariant, Body
<1>5. Failing(stack, ups, frames, Homes, Pending)
  BY <1>3, <1>4 DEF Failing, SameBelow, Same
<1> QED BY <1>1, <1>2, <1>5, Fails

-----------------------------------------------------------------------------
(* Entering functions. *)

\* prepare_lua_varargs delivers the arguments.
Prepares(t, s, b, n, p) ==
    /\ t \in Seq(Value) /\ Agree(s, t, b)
    /\ W(t, b, Params[p]) = Adjust(W(s, b, n), Params[p])

LEMMA PreparedIs ==
    ASSUME NEW s \in Seq(Value), NEW b \in Int, b >= 1, NEW n \in Nat, NEW p \in Protos
    PROVE  Prepares(Prepared(s, b, n, p), s, b, n, p)
<1>0. PICK t : t = Prepared(s, b, n, p)
  OBVIOUS
<1>1. PICK q \in Nat, r \in Nat : q = Params[p] /\ r = Room[p] /\ q <= r
  BY ProtoAssumption
<1>2. PICK g : g = Grow(s, b + q - 1)
  OBVIOUS
<1>3. PICK m : m = Wipe(g, b + n, b + q - 1)
  OBVIOUS
<1>4. PICK h : h = Grow(m, b + r - 1)
  OBVIOUS
<1>5. t = Wipe(h, b + q, b + r - 1)
  BY <1>0, <1>1, <1>2, <1>3, <1>4 DEF Prepared
<1>6. g \in Seq(Value) /\ m \in Seq(Value) /\ h \in Seq(Value) /\ t \in Seq(Value)
  <2>1. g \in Seq(Value)
    BY <1>2, GrowLaid
  <2>2. m \in Seq(Value)
    BY <2>1, <1>3, WipeLaid
  <2>3. h \in Seq(Value)
    BY <2>2, <1>4, GrowLaid
  <2>4. t \in Seq(Value)
    BY <2>3, <1>5, WipeLaid
  <2> QED BY <2>1, <2>2, <2>3, <2>4
<1>7. ASSUME NEW j \in Int, j < b + q
      PROVE  Slot(t, j) = IF j >= b + n THEN Nil ELSE Slot(s, j)
  <2>1. Slot(g, j) = Slot(s, j)
    BY <1>2, GrowSlot
  <2>2. Slot(m, j) = IF j \in b + n..b + q - 1 THEN Nil ELSE Slot(g, j)
    BY <1>3, <1>6, WipeSlot
  <2>3. Slot(h, j) = Slot(m, j)
    BY <1>4, <1>6, GrowSlot
  <2>4. Slot(t, j) = IF j \in b + q..b + r - 1 THEN Nil ELSE Slot(h, j)
    BY <1>5, <1>6, WipeSlot
  <2>5. j \notin b + q..b + r - 1 /\ (j \in b + n..b + q - 1 <=> j >= b + n)
    BY <1>7
  <2> QED BY <2>1, <2>2, <2>3, <2>4, <2>5
<1>8. Agree(s, t, b)
  <2>1. \A j \in Int : j < b => j < b + q /\ ~ j >= b + n
    BY <1>1
  <2> QED BY <1>7, <2>1 DEF Agree
<1>9. PICK x, y, z : x = W(s, b, n) /\ y = Adjust(x, q) /\ z = W(t, b, q)
  OBVIOUS
<1>10. x \in Seq(Value) /\ Len(x) = n /\ \A i \in 1..n : x[i] = Slot(s, b + i - 1)
  <2>1. Len(x) = IF n > 0 THEN n ELSE 0
    BY <1>9, WIsList
  <2> QED BY <2>1, <1>9, WIsList
<1>11. y \in Seq(Value) /\ Len(y) = q /\ \A i \in 1..q : y[i] = IF i <= n THEN x[i] ELSE Nil
  <2>1. q \in Int /\ q # MultRet
    BY <1>1 DEF MultRet
  <2>2. y \in Seq(Value) /\ Len(y) = IF q > 0 THEN q ELSE 0
    BY <2>1, <1>9, <1>10, AdjustIs
  <2>3. Len(y) = q
    BY <2>2
  <2>4. \A i \in 1..Len(y) : y[i] = IF i <= Len(x) THEN x[i] ELSE Nil
    BY <2>1, <1>9, <1>10, AdjustIs
  <2> QED BY <1>10, <2>2, <2>3, <2>4
<1>12. z \in Seq(Value) /\ Len(z) = q /\ \A i \in 1..q : z[i] = Slot(t, b + i - 1)
  <2>1. Len(z) = IF q > 0 THEN q ELSE 0
    BY <1>6, <1>9, WIsList
  <2> QED BY <2>1, <1>6, <1>9, WIsList
<1>13. ASSUME NEW i \in 1..q PROVE z[i] = y[i]
  <2>1. b + i - 1 \in Int /\ b + i - 1 < b + q /\ (b + i - 1 >= b + n <=> ~ i <= n)
    OBVIOUS
  <2>2. z[i] = IF i <= n THEN Slot(s, b + i - 1) ELSE Nil
    BY <2>1, <1>7, <1>12
  <2>3. i <= n => i \in 1..n
    OBVIOUS
  <2> QED BY <2>2, <2>3, <1>10, <1>11
<1>14. z = y
  BY <1>11, <1>12, <1>13, SameLists
<1> QED BY <1>0, <1>1, <1>6, <1>8, <1>9, <1>14 DEF Prepares

\* The last of n slots from k on, from the i-th on, are m slots from h on.
Suffix(k, n, i, h, m) == h = k + i - 1 /\ m = n - i + 1
LEMMA WFrom ==
    ASSUME NEW s \in Seq(Value), NEW k \in Int, NEW n \in Nat, NEW i \in Int, i >= 1,
           NEW h, NEW m, Suffix(k, n, i, h, m)
    PROVE  From(W(s, k, n), i) = W(s, h, m)
<1>0. PICK j \in Int : j = n
  OBVIOUS
<1>a. j <= n
  BY <1>0
<1>b. SubSeq(W(s, k, n), i, j) = W(s, k + i - 1, j - i + 1)
  BY <1>a, WSub, ZenonT(60)
<1>1. SubSeq(W(s, k, n), i, n) = W(s, k + i - 1, n - i + 1)
  BY <1>0, <1>b
<1>2. Len(W(s, k, n)) = n
  <2>1. Len(W(s, k, n)) = IF n > 0 THEN n ELSE 0
    BY WIsList
  <2> QED BY <2>1
<1> QED BY <1>1, <1>2 DEF From, Suffix

LEMMA ExtraIs ==
    ASSUME NEW s \in Seq(Value), NEW b \in Int, b >= 1, NEW n \in Nat, NEW p \in Protos
    PROVE  Extra(s, b, n, p) = IF p \in Variadic THEN From(W(s, b, n), Params[p] + 1) ELSE <<>>
<1>1. CASE p \notin Variadic
  BY <1>1 DEF Extra
<1>2. CASE p \in Variadic
  <2>1. PICK q \in Nat : q = Params[p]
    BY ProtoAssumption
  <2>2. PICK k \in Int, m \in Int : k = b + q /\ m = n - q /\ k >= 1
    <3>1. b + q >= 1
      OBVIOUS
    <3> QED BY <3>1
  <2>3. Extra(s, b, n, p) = W(s, k, m)
    <3>1. Window(s, k, m) = W(s, k, m)
      BY <2>2, WindowIs
    <3> QED BY <3>1, <1>2, <2>1, <2>2 DEF Extra
  <2>4. PICK x : x = W(s, b, n)
    OBVIOUS
  <2>6. PICK i \in Int : i = q + 1 /\ i >= 1
    OBVIOUS
  <2>8. i >= 1 /\ Suffix(b, n, i, k, m)
    BY <2>2, <2>6 DEF Suffix
  <2>9. From(x, i) = W(s, k, m)
    BY <2>4, <2>8, WFrom
  <2> QED BY <1>2, <2>1, <2>3, <2>4, <2>6, <2>9
<1> QED BY <1>1, <1>2

\* An activation that begins.
Starts(p, vs) ==
    [proto |-> p, pc |-> 1, regs |-> Adjust(vs, Params[p]), more |-> <<>>,
     varargs |-> IF p \in Variadic THEN From(vs, Params[p] + 1) ELSE <<>>]

LEMMA ActivationIs == \A p, vs : Lua!Activation(p, vs) = Starts(p, vs)
BY DEF Lua!Activation, Starts, Lua!Adjust, Adjust, Lua!From, From, Lua!MultRet, MultRet

\* The frame of the function p in slot f, with n arguments, that the frame c calls.
CalleeFrame(p, s, f, n, c) ==
    CallInfo(p, f, n, f + 1 + Room[p], Want(c), Extra(s, f + 1, n, p), Cont(c))

LEMMA CalleeIs ==
    ASSUME Compiled(Live, Held), NEW s \in Seq(Value), NEW f \in Int, f >= 1, NEW n \in Nat,
           NEW p \in Functions, NEW c, Want(c) \in Int, Cont(c) \in Int, NEW e, e = CalleeFrame(p, s, f, n, c)
    PROVE  /\ Shape(e) /\ e.proto = p /\ e.func = f /\ e.base = f + 1 /\ e.nres = Want(c) /\ e.cont = Cont(c)
           /\ e.pc = 1 /\ e.free = Params[p] /\ e.varargs = Extra(s, f + 1, n, p)
           /\ e.free = Live[p][1] /\ ~ Consumes(p, 1)
<1>1. p \in Protos /\ p # Nil
  BY ProtoAssumption DEF Protos
<1>2. PICK q \in Nat : q = Params[p] /\ q <= Room[p]
  BY <1>1, ProtoAssumption
<1>3. 1 \in DOMAIN Code[p] /\ Live[p][1] = Params[p] /\ ~ Consumes(p, 1)
  <2>1. PICK o : o = FALSE
    OBVIOUS
  <2>2. Leads(Live, Held, p, 1, Params[p], {}, o)
    BY <1>1, <2>1 DEF Compiled
  <2> QED BY <2>1, <2>2 DEF Leads
<1>4. PICK x \in Seq(Value) : x = Extra(s, f + 1, n, p)
  <2>1. f + 1 \in Int /\ f + 1 >= 1 /\ n \in Int
    OBVIOUS
  <2> QED BY <1>1, <2>1, ExtraLaid
<1>5. PICK b \in Int, ct \in Int, w \in Int, o \in Int : /\ b = f + 1 /\ ct = f + 1 + Room[p] /\ f <= b
                                                         /\ w = Want(c) /\ o = Cont(c)
  <2>1. f + 1 \in Int /\ f + 1 + Room[p] \in Int
    BY <1>1, ProtoAssumption
  <2> QED BY <2>1
<1>6. e = [proto |-> p, func |-> f, base |-> b, nargs |-> n, ctop |-> ct, nres |-> w, varargs |-> x,
           cont |-> o, pc |-> 1, free |-> q]
  BY <1>1, <1>2, <1>4, <1>5 DEF CalleeFrame, CallInfo
<1>7. Shape(e)
  BY <1>1, <1>2, <1>3, <1>5, <1>6 DEF Shape
<1> QED BY <1>2, <1>3, <1>4, <1>5, <1>6, <1>7

\* The frame e is pushed on fs, the stack is t; the list m is open behind it.
Pushed(d, s, t, us, fs, gs, e) ==
    /\ Chain(d, gs) /\ FramesOK(gs) /\ Len(gs) = Len(fs) + 1 /\ gs[Len(gs)] = e
    /\ \A k \in 1..Len(fs) : gs[k] = fs[k]
    /\ Housed(d, us, gs) /\ HomeOf(us, gs, d) = HomeOf(us, fs, d) /\ CellOf(t, us) = CellOf(s, us)
    /\ \A m : ActsOf(t, gs, d, m) = Append(ActsOf(s, fs, d, <<>>), View(t, e, m))

LEMMA PushIs ==
    ASSUME NEW d, NEW s, NEW us, NEW fs, Caller(d, s, us, fs), NEW t \in Seq(Value), NEW f \in Int,
           Agree(s, t, f), f = fs[Len(fs)].base + fs[Len(fs)].free, NEW e, Shape(e),
           Link(fs[Len(fs)], e), e.base = e.func + 1, NEW gs, Pushes(gs, fs, e)
    PROVE  Pushed(d, s, t, us, fs, gs, e)
<1>1. Chain(d, fs) /\ Housed(d, us, fs) /\ UpsShape(us) /\ s \in Seq(Value)
  BY DEF Caller
<1>2. PICK l \in Nat : l = Len(fs) /\ l >= d + 1 /\ d \in Nat /\ l \in d + 1..l
  BY <1>1, ChainEnds
<1>3. /\ Chain(d, gs) /\ FramesOK(gs) /\ Len(gs) = l + 1 /\ gs[l + 1] = e
      /\ \A k \in 1..l : gs[k] = fs[k]
  <2>1. Link(fs[l], e) /\ l = Len(fs)
    BY <1>1, <1>2
  <2> QED BY <1>1, <2>1, ChainPush
<1>4. Housed(d, us, gs) /\ HomeOf(us, gs, d) = HomeOf(us, fs, d)
  <2>1. PICK n \in Nat : n = l
    OBVIOUS
  <2>2. n <= Len(fs) /\ n <= Len(gs) /\ n >= d /\ ~ n < Len(fs)
    BY <1>2, <1>3, <2>1
  <2>3. \A k \in d + 1..n : gs[k] = fs[k]
    <3>1. \A k \in d + 1..n : k \in 1..l
      BY <1>2, <2>1
    <3> QED BY <3>1, <1>3
  <2> QED BY <1>1, <1>3, <2>2, <2>3, HousedPart
<1>5. Views(s, t, fs, d + 1, l) /\ CellOf(t, us) = CellOf(s, us)
  <2>1. PICK b \in Int, n \in Nat : b = fs[l].base /\ n = fs[l].free
    <3>1. Shape(fs[l])
      BY <1>1, <1>2 DEF Chain
    <3> QED BY <3>1 DEF Shape
  <2>2. fs[l].base + fs[l].free <= f
    BY <1>2, <2>1
  <2>3. Views(s, t, fs, d + 1, l)
    BY <1>1, <1>2, <2>2, AllKept
  <2>4. CellOf(t, us) = CellOf(s, us)
    BY <1>1, <1>2, <2>2, CellsKept
  <2> QED BY <2>3, <2>4
<1>6. ASSUME NEW m PROVE ActsOf(t, gs, d, m) = Append(ActsOf(s, fs, d, <<>>), View(t, e, m))
  <2>1. \A k \in d + 1..Len(fs) : View(t, gs[k], <<>>) = View(s, fs[k], <<>>)
    <3>1. \A k \in d + 1..l : k \in 1..l
      BY <1>2
    <3> QED BY <3>1, <1>2, <1>3, <1>5 DEF Views
  <2>2. FramesOK(fs) /\ FramesOK(gs) /\ d <= Len(fs) /\ d \in Nat /\ \E n \in Nat : Len(fs) = n /\ Len(gs) = n + 1
    BY <1>1, <1>2, <1>3 DEF Chain, Grounded
  <2>3. PICK hs : hs = gs
    OBVIOUS
  <2>4. /\ \A k \in d + 1..Len(fs) : View(t, hs[k], <<>>) = View(s, fs[k], <<>>)
        /\ FramesOK(hs) /\ \E n \in Nat : Len(fs) = n /\ Len(hs) = n + 1
    BY <2>1, <2>2, <2>3
  <2>5. Pushes(ActsOf(t, hs, d, m), ActsOf(s, fs, d, <<>>), View(t, hs[Len(hs)], m))
    BY <2>2, <2>4, ActsPush
  <2> QED BY <2>3, <2>5, <1>3 DEF Pushes
<1> QED BY <1>2, <1>3, <1>4, <1>5, <1>6 DEF Pushed

\* What the last frame waits for.
LEMMA WaitsFor ==
    ASSUME Compiled(Live, Held), NEW d, NEW s, NEW us, NEW fs, Caller(d, s, us, fs), NEW c, c = fs[Len(fs)]
    PROVE  /\ Want(c) \in Int /\ Cont(c) \in Int /\ Shape(c)
           /\ c.base \in Int /\ c.free \in Nat /\ c.base >= 1 /\ c.func \in Int
           /\ c.proto = Nil => c.base = c.func + 1 /\ c.free = 0
<1>1. Chain(d, fs) /\ (c.proto # Nil => WaitsIn(c))
  BY DEF Caller
<1>2. PICK l \in Nat : l = Len(fs) /\ l >= d + 1 /\ d \in Nat /\ l \in d + 1..l /\ Shape(c)
  BY <1>1, ChainEnds
<1>3. c.base >= 1
  BY <1>1, <1>2, ChainUnder
<1>4. CASE c.proto # Nil
  <2>1. c.proto \in Protos /\ c.pc \in DOMAIN Code[c.proto] /\ c.base \in Int /\ c.func \in Int /\ c.free \in Nat
    BY <1>2, <1>4 DEF Shape
  <2>2. PICK i : i = Code[c.proto][c.pc] /\ i.c \in Nat /\ i.a \in Nat /\ i.op \in {"CALL", "TAILCALL", "TFORLOOP"}
    BY <1>1, <1>4, <2>1, CodeSays DEF WaitsIn
  <2>3. Want(c) = Takes(i)
    BY <1>4, <2>2 DEF Want
  <2>4. Takes(i) \in Int
    BY <2>2, SMTT(30) DEF Takes, MultRet
  <2>5. Cont(c) \in Int
    <3>0. PICK b \in Int, a \in Int : b = c.base /\ a = i.a
      BY <2>1, <2>2
    <3>1. b + a - 1 \in Int
      OBVIOUS
    <3>2. c.base + i.a - 1 \in Int
      BY <3>0, <3>1
    <3> QED BY <2>2, <3>2 DEF Cont
  <2> QED BY <1>2, <1>3, <1>4, <2>1, <2>3, <2>4, <2>5
<1>5. CASE c.proto = Nil
  <2>1. l # d + 1
    BY <1>1, <1>2, <1>5 DEF Chain, Grounded
  <2>2. l \in d + 2..l
    BY <1>2, <2>1
  <2>3. Linked(fs, l)
    BY <1>1, <1>2, <2>2 DEF Chain
  <2>4. c.base = c.func + 1
    BY <1>2, <2>3 DEF Linked
  <2>5. Want(c) \in Int /\ Cont(c) \in Int
    BY <1>5 DEF Want, Cont, MultRet
  <2>6. c.base \in Int /\ c.func \in Int /\ c.free \in Nat /\ c.free = 0
    BY <1>2, <1>5 DEF Shape
  <2> QED BY <1>2, <1>3, <2>4, <2>5, <2>6
<1> QED BY <1>4, <1>5

\* A Lua function is entered.
LEMMA EnterIs ==
    ASSUME Compiled(Live, Held), NEW d, NEW s, NEW us, NEW fs, Caller(d, s, us, fs), NEW c, c = fs[Len(fs)],
           NEW f \in Int, f = c.base + c.free, NEW n \in Nat, NEW p \in Functions,
           stack' = Prepared(s, f + 1, n, p), frames' = Append(fs, CalleeFrame(p, s, f, n, c)), ups' = us, status' = "run"
    PROVE  Lands(d, Append(ActsOf(s, fs, d, <<>>), Lua!Activation(p, W(s, f + 1, n))),
                 HomeOf(us, fs, d), CellOf(s, us), UsedOf(us))
<1>1. /\ Want(c) \in Int /\ Cont(c) \in Int /\ Shape(c) /\ s \in Seq(Value)
      /\ c.proto = Nil => c.base = c.func + 1 /\ c.free = 0
  BY WaitsFor DEF Caller
<1>2. PICK cb \in Int, cn \in Nat : cb = c.base /\ cn = c.free /\ cb >= 1
  BY WaitsFor
<1>3. PICK b \in Int : b = f + 1 /\ b >= 1 /\ f >= 1
  <2>1. cb + cn >= 1
    BY <1>2
  <2>2. f >= 1
    BY <1>2, <2>1
  <2>3. PICK g \in Int : g = f /\ g >= 1
    BY <2>2
  <2>4. g + 1 \in Int /\ g + 1 >= 1
    BY <2>3
  <2> QED BY <2>3, <2>4
<1>4. p \in Protos /\ p # Nil
  BY ProtoAssumption DEF Protos
<1>5. PICK e : e = CalleeFrame(p, s, f, n, c)
  OBVIOUS
<1>6. /\ Shape(e) /\ e.proto = p /\ e.func = f /\ e.base = f + 1 /\ e.nres = Want(c) /\ e.cont = Cont(c)
      /\ e.pc = 1 /\ e.free = Params[p] /\ e.varargs = Extra(s, f + 1, n, p)
      /\ e.free = Live[p][1] /\ ~ Consumes(p, 1)
  BY <1>1, <1>3, <1>5, CalleeIs, SMTT(30)
<1>7. Link(c, e)
  <2>1. CASE c.proto # Nil
    <3>1. WaitsIn(c)
      BY <2>1 DEF Caller
    <3> QED BY <2>1, <3>1, <1>6 DEF Link, Want, Cont
  <2>2. CASE c.proto = Nil
    <3>1. f = c.func + 1
      BY <1>1, <1>2, <2>2
    <3> QED BY <2>2, <3>1, <1>4, <1>6 DEF Link, Want, Cont
  <2> QED BY <2>1, <2>2
<1>8. PICK t : t = stack' /\ t = Prepared(s, b, n, p)
  BY <1>3
<1>9. /\ t \in Seq(Value) /\ Agree(s, t, b) /\ W(t, b, Params[p]) = Adjust(W(s, b, n), Params[p])
  <2>1. b >= 1
    BY <1>3
  <2>2. Prepares(Prepared(s, b, n, p), s, b, n, p)
    BY <1>1, <1>4, <2>1, PreparedIs
  <2> QED BY <1>8, <2>2 DEF Prepares
<1>10. Agree(s, t, f)
  <2>1. \A j \in Int : j < f => j < b
    BY <1>3
  <2> QED BY <2>1, <1>9 DEF Agree
<1>11. PICK gs : gs = frames' /\ gs = Append(fs, e)
  BY <1>5
<1>12. Pushed(d, s, t, us, fs, gs, e)
  <2>1. f = fs[Len(fs)].base + fs[Len(fs)].free /\ Link(fs[Len(fs)], e) /\ e.base = e.func + 1
    BY <1>6, <1>7
  <2>2. Pushes(gs, fs, e)
    BY <1>11 DEF Pushes
  <2> QED BY <2>1, <2>2, <1>6, <1>9, <1>10, PushIs
<1>13. View(t, e, <<>>) = Lua!Activation(p, W(s, b, n))
  <2>1. e.varargs = IF p \in Variadic THEN From(W(s, b, n), Params[p] + 1) ELSE <<>>
    BY <1>1, <1>3, <1>4, <1>6, ExtraIs
  <2>2. View(t, e, <<>>) = Starts(p, W(s, b, n))
    BY <1>3, <1>6, <1>9, <2>1 DEF View, Starts
  <2> QED BY <2>2, ActivationIs
<1>14. OpenListAt(status', t, gs, top') = <<>>
  BY <1>4, <1>6, <1>12 DEF OpenListAt, Pushed
<1>15. Progress(d, status', us, gs, top', pending')
  <2>1. RunsAt(gs, top')
    BY <1>4, <1>6, <1>12 DEF RunsAt, Pushed
  <2> QED BY <2>1, <1>12 DEF Progress, Pushed
<1>16. ActsOf(t, gs, d, <<>>) = Append(ActsOf(s, fs, d, <<>>), Lua!Activation(p, W(s, f + 1, n)))
  BY <1>3, <1>12, <1>13 DEF Pushed
<1> QED BY <1>8, <1>11, <1>12, <1>14, <1>15, <1>16 DEF Lands, Over, Pushed

\* call_native_function leaves what lies below its spare slots.
Leaves(w, s, f, n) == w \in Seq(Value) /\ Agree(s, w, f + n + 1)
LEMMA NativeIs ==
    ASSUME NEW s \in Seq(Value), NEW f \in Int, NEW n \in Int
    PROVE  Leaves(NativeWindow(s, f, n), s, f, n)
<1>1. PICK q \in Nat : q = Spare
  BY SpareAssumption
<1>2. PICK g, w : g = Grow(s, f + n + q) /\ w = Wipe(g, f + n + 1, f + n + q)
  OBVIOUS
<1>3. NativeWindow(s, f, n) = w
  BY <1>1, <1>2 DEF NativeWindow
<1>4. g \in Seq(Value)
  BY <1>2, GrowLaid
<1>5. w \in Seq(Value)
  BY <1>2, <1>4, WipeLaid
<1>6. ASSUME NEW j \in Int, j < f + n + 1 PROVE Slot(w, j) = Slot(s, j)
  <2>1. Slot(g, j) = Slot(s, j)
    BY <1>2, GrowSlot
  <2>2. Slot(w, j) = IF j \in f + n + 1..f + n + q THEN Nil ELSE Slot(g, j)
    BY <1>2, <1>4, WipeSlot
  <2>3. j \notin f + n + 1..f + n + q
    BY <1>6
  <2> QED BY <2>1, <2>2, <2>3
<1> QED BY <1>3, <1>5, <1>6 DEF Leaves, Agree

\* The arguments are still there.
LEMMA NativeSame ==
    ASSUME NEW s \in Seq(Value), NEW f \in Int, NEW n \in Nat, NEW w, w = NativeWindow(s, f, n)
    PROVE  w \in Seq(Value) /\ Agree(s, w, f) /\ W(w, f + 1, n) = W(s, f + 1, n)
           /\ (n > 0 => Slot(w, f + 1) = Slot(s, f + 1))
<1>1. Leaves(w, s, f, n)
  BY NativeIs
<1>2. w \in Seq(Value) /\ \A j \in Int : j < f + n + 1 => Slot(w, j) = Slot(s, j)
  BY <1>1 DEF Leaves, Agree
<1>3. Agree(s, w, f)
  <2>1. \A j \in Int : j < f => j < f + n + 1
    OBVIOUS
  <2> QED BY <1>2, <2>1 DEF Agree
<1>4. W(w, f + 1, n) = W(s, f + 1, n)
  <2>1. PICK k \in Int : k = f + 1
    OBVIOUS
  <2>2. \A j \in k..k + n - 1 : j \in Int /\ j < f + n + 1
    BY <2>1
  <2>3. \A j \in k..k + n - 1 : Slot(w, j) = Slot(s, j)
    BY <2>2, <1>2
  <2>4. W(w, k, n) = W(s, k, n)
    BY <1>2, <2>3, WAgrees
  <2> QED BY <2>1, <2>4
<1>5. n > 0 => Slot(w, f + 1) = Slot(s, f + 1)
  <2>1. n > 0 => f + 1 \in Int /\ f + 1 < f + n + 1
    OBVIOUS
  <2> QED BY <1>2, <2>1
<1> QED BY <1>2, <1>3, <1>4, <1>5

\* A native function answers.
LEMMA NativeAnswers ==
    ASSUME Compiled(Live, Held), NEW d, NEW s, NEW us, NEW fs, Caller(d, s, us, fs), NEW c, c = fs[Len(fs)],
           NEW f \in Int, f = c.base + c.free, NEW n \in Nat, NEW vs \in Lists,
           Deliver(NativeWindow(s, f, n), us, fs, f + 1 + n, vs, f, Want(c), Cont(c)), status' = "run"
    PROVE  LandsWith(d, s, us, fs, Resumed(View(s, c, <<>>), vs))
<1>1. s \in Seq(Value) /\ vs \in Seq(Value)
  BY ProtoAssumption DEF Caller
<1>2. PICK w : w = NativeWindow(s, f, n)
  OBVIOUS
<1>3. w \in Seq(Value) /\ Agree(s, w, f)
  BY <1>1, <1>2, NativeSame
<1>4. /\ Caller(d, w, us, fs) /\ ActsOf(w, fs, d, <<>>) = ActsOf(s, fs, d, <<>>)
      /\ CellOf(w, us) = CellOf(s, us) /\ View(w, c, <<>>) = View(s, c, <<>>)
  <2>1. f = fs[Len(fs)].base + fs[Len(fs)].free
    OBVIOUS
  <2>2. /\ Caller(d, w, us, fs) /\ ActsOf(w, fs, d, <<>>) = ActsOf(s, fs, d, <<>>)
        /\ CellOf(w, us) = CellOf(s, us) /\ \A m : View(w, fs[Len(fs)], m) = View(s, fs[Len(fs)], m)
    BY <1>3, <2>1, SeesSame
  <2> QED BY <2>2
<1>5. PICK g \in Int, m \in Nat : g = f /\ m = n
  OBVIOUS
<1>t. PICK t \in Int : t = g + 1 + m /\ t >= g
  OBVIOUS
<1>6. Deliver(w, us, fs, t, vs, f, Want(c), Cont(c)) /\ t >= f
  BY <1>2, <1>5, <1>t
<1>7. LandsWith(d, w, us, fs, Resumed(View(w, c, <<>>), vs))
  BY <1>1, <1>4, <1>6, DeliverIs
<1> QED BY <1>4, <1>7 DEF LandsWith

\* The thread yields.
LEMMA YieldIs ==
    ASSUME Compiled(Live, Held), ~ IteratorYields, NEW d, NEW s, NEW us, NEW fs, Caller(d, s, us, fs),
           NEW c, c = fs[Len(fs)], c.proto # Nil,
           NEW f \in Int, f = c.base + c.free, NEW n \in Nat, EnterYield(s, us, fs, f, n, Want(c), Cont(c))
    PROVE  /\ status' = "yield" /\ Guards(fs) = {}
           /\ Lands(d, ActsOf(s, fs, d, <<>>), HomeOf(us, fs, d), CellOf(s, us), UsedOf(us))
<1>1. s \in Seq(Value) /\ Chain(d, fs) /\ Housed(d, us, fs)
  BY DEF Caller
<1>2. PICK w : w = NativeWindow(s, f, n)
  OBVIOUS
<1>3. /\ stack' = w /\ frames' = fs /\ ups' = us /\ status' = "yield" /\ Guards(fs) = {}
      /\ pending' = [base |-> f, want |-> Want(c)] /\ Cont(c) = 0
  BY <1>2 DEF EnterYield
<1>4. w \in Seq(Value) /\ Agree(s, w, f)
  BY <1>1, <1>2, NativeSame
<1>5. ActsOf(w, fs, d, <<>>) = ActsOf(s, fs, d, <<>>) /\ CellOf(w, us) = CellOf(s, us)
  <2>1. f = fs[Len(fs)].base + fs[Len(fs)].free
    OBVIOUS
  <2> QED BY <1>4, <2>1, SeesSame
<1>6. YieldsAt(fs, pending')
  <2>1. Shape(c) /\ c.base >= 1 /\ c.base \in Int
    BY WaitsFor
  <2>2. c.proto \in Protos /\ c.pc \in DOMAIN Code[c.proto]
    BY <2>1 DEF Shape
  <2>3. PICK i : i = Code[c.proto][c.pc]
    OBVIOUS
  <2>4. WaitsIn(c)
    BY DEF Caller
  <2>5. i.op # "TFORLOOP"
    <3>1. SUFFICES ASSUME i.op = "TFORLOOP" PROVE FALSE
      OBVIOUS
    <3>2. i.a \in Nat /\ i.a >= 1
      BY <2>2, <2>3, <3>1, CodeAssumption
    <3>3. PICK b \in Int, a \in Int : b = c.base /\ a = i.a /\ b >= 1 /\ a >= 1
      BY <2>1, <3>2
    <3>4. b + a - 1 # 0
      BY <3>3
    <3>5. Cont(c) = b + a - 1
      BY <2>3, <3>1, <3>3 DEF Cont
    <3> QED BY <1>3, <3>4, <3>5
  <2>6. Want(c) = Takes(i)
    BY <2>3 DEF Want
  <2> QED BY <1>3, <2>3, <2>4, <2>5, <2>6 DEF YieldsAt
<1>7. Progress(d, status', ups', frames', top', pending')
  BY <1>1, <1>3, <1>6 DEF Progress
<1>8. OpenListAt(status', stack', frames', top') = <<>>
  BY <1>3 DEF OpenListAt
<1> QED BY <1>3, <1>5, <1>7, <1>8 DEF Lands, Over

\* The activation of a protected call.
Guarding(vs) == [proto |-> Nil, pc |-> 0, regs |-> <<>>, more |-> vs, varargs |-> <<>>]
LEMMA GuardIs == \A vs : Lua!Guard(vs) = Guarding(vs)
BY DEF Lua!Guard, Guarding

\* The frame of the protected call that c calls in slot f with n arguments.
GuardFrame(f, n, c) == CallInfo(Nil, f, n, f + 1 + n + Spare, Want(c), <<>>, Cont(c))

\* It is pushed: gs are the frames and w is the stack then.
Guarded(d, s, us, fs, w, gs, f) ==
    /\ Caller(d, w, us, gs) /\ gs[Len(gs)].proto = Nil /\ Len(gs) = Len(fs) + 1
    /\ gs[Len(gs)].base = f + 1 /\ gs[Len(gs)].free = 0
    /\ HomeOf(us, gs, d) = HomeOf(us, fs, d) /\ CellOf(w, us) = CellOf(s, us)
    /\ View(w, gs[Len(gs)], <<>>) = Guarding(<<>>)
    /\ ActsOf(w, gs, d, <<>>) = Append(ActsOf(s, fs, d, <<>>), Guarding(<<>>))

LEMMA GuardedIs ==
    ASSUME Compiled(Live, Held), NEW d, NEW s, NEW us, NEW fs, Caller(d, s, us, fs),
           NEW c, c = fs[Len(fs)], c.proto # Nil,
           NEW f \in Int, f = c.base + c.free, NEW n \in Nat, NEW w \in Seq(Value), Agree(s, w, f),
           NEW gs, Pushes(gs, fs, GuardFrame(f, n, c))
    PROVE  Guarded(d, s, us, fs, w, gs, f)
<1>1. Want(c) \in Int /\ Cont(c) \in Int /\ WaitsIn(c) /\ UpsShape(us)
  BY WaitsFor DEF Caller
<1>2. PICK e : e = GuardFrame(f, n, c)
  OBVIOUS
<1>3. PICK b \in Int, ct, nr \in Int, co \in Int : /\ b = f + 1 /\ f <= b /\ ct = f + 1 + n + Spare
                                                   /\ nr = Want(c) /\ co = Cont(c)
  <2>1. PICK b \in Int : b = f + 1 /\ f <= b
    OBVIOUS
  <2>2. PICK ct, nr \in Int, co \in Int : ct = f + 1 + n + Spare /\ nr = Want(c) /\ co = Cont(c)
    <3>1. PICK ct : ct = f + 1 + n + Spare
      OBVIOUS
    <3>2. PICK nr, co : nr = Want(c) /\ co = Cont(c)
      OBVIOUS
    <3>3. nr \in Int /\ co \in Int
      BY <1>1, <3>2
    <3> QED BY <3>1, <3>2, <3>3
  <2> QED BY <2>1, <2>2
<1>4. e = [proto |-> Nil, func |-> f, base |-> b, nargs |-> n, ctop |-> ct, nres |-> nr, varargs |-> <<>>,
           cont |-> co, pc |-> 0, free |-> 0]
  BY <1>2, <1>3 DEF GuardFrame, CallInfo
<1>5. <<>> \in Seq(Value) /\ 0 \in Nat
  OBVIOUS
<1>6. Shape(e)
  BY <1>3, <1>4, <1>5 DEF Shape
<1>7. Link(c, e) /\ e.base = e.func + 1
  BY <1>1, <1>3, <1>4 DEF Link, Want, Cont
<1>8. Pushed(d, s, w, us, fs, gs, e)
  <2>1. f = fs[Len(fs)].base + fs[Len(fs)].free /\ Link(fs[Len(fs)], e) /\ Pushes(gs, fs, e)
    BY <1>2, <1>7
  <2> QED BY <1>6, <1>7, <2>1, PushIs
<1>9. View(w, e, <<>>) = Guarding(<<>>)
  <2>1. PICK z \in Int : z = 0
    OBVIOUS
  <2>2. W(w, b, z) = <<>>
    BY <2>1, WNone
  <2> QED BY <1>4, <2>1, <2>2 DEF View, Guarding
<1>10. Caller(d, w, us, gs)
  BY <1>1, <1>4, <1>8 DEF Caller, Pushed
<1> QED BY <1>3, <1>4, <1>8, <1>9, <1>10 DEF Guarded, Pushed

\* The activations b become a2 when a function is called with args by the last of
\* them, the activation g, in place k.
Enters(b, k, g, args, fs, a2) ==
    \/ /\ \E p \in Functions : a2 = Append(b, Lua!Activation(p, args))
       /\ status' = "run"
    \/ /\ \E vs \in Lists : Changed(a2, b, k, Lua!Answered(g, vs))
       /\ status' = "run"
    \/ /\ args # <<>> /\ args[1] = Fun
       /\ \/ \E p \in Functions :
                a2 = Append(Append(b, Guarding(<<>>)), Lua!Activation(p, Tail(args)))
          \/ \E vs \in Lists : a2 = Append(b, Guarding(vs))
       /\ status' = "run"
    \/ args # <<>> /\ a2 = Append(b, Guarding(<<>>)) /\ status' = "error"
    \/ Guards(fs) = {} /\ a2 = b /\ status' = "yield"

\* The last of a list that was pushed is replaced.
LEMMA PushChanged ==
    ASSUME NEW b, \E T : b \in Seq(T), NEW k \in Nat, Len(b) = k, NEW x, NEW y,
           NEW a, Changed(a, Append(b, x), k + 1, y)
    PROVE  a = Append(b, y)
<1>1. PICK T : b \in Seq(T)
  OBVIOUS
<1>2. PICK U : U = T \cup {x, y}
  OBVIOUS
<1>3. b \in Seq(U) /\ x \in U /\ y \in U
  <2>1. b \in Seq(T \cup {x, y})
    BY <1>1, SeqMonotonic
  <2> QED BY <1>2, <2>1
<1>4. Append(b, x) \in Seq(U) /\ Append(b, y) \in Seq(U)
  BY <1>3, AppendProperties
<1>5. a = [Append(b, x) EXCEPT ![k + 1] = y]
  BY DEF Changed
<1>6. Len(Append(b, x)) = k + 1 /\ Len(Append(b, y)) = k + 1
      /\ (\A i \in 1..k : Append(b, x)[i] = b[i] /\ Append(b, y)[i] = b[i]) /\ Append(b, y)[k + 1] = y
  BY <1>3, AppendProperties
<1>7. a \in Seq(U) /\ Len(a) = k + 1 /\ a[k + 1] = y /\ \A i \in 1..k : a[i] = Append(b, x)[i]
  <2>1. PICK c : c = Append(b, x)
    OBVIOUS
  <2>2. c \in Seq(U) /\ Len(c) = k + 1 /\ k + 1 \in 1..Len(c) /\ a = [c EXCEPT ![k + 1] = y]
    BY <1>4, <1>5, <1>6, <2>1
  <2>3. c \in [1..Len(c) -> U]
    BY <2>2
  <2>4. a \in Seq(U) /\ Len(a) = Len(c)
    BY <1>3, <2>2, ExceptSeq
  <2>5. a[k + 1] = y /\ \A i \in 1..k : a[i] = c[i]
    BY <2>2, <2>3
  <2> QED BY <2>1, <2>2, <2>4, <2>5
<1>8. Len(a) = Len(Append(b, y)) /\ \A i \in 1..Len(a) : a[i] = Append(b, y)[i]
  BY <1>6, <1>7
<1> QED BY <1>4, <1>7, <1>8, SameActs

\* A protected call: pcall calls its first argument.
LEMMA PcallIs ==
    ASSUME Compiled(Live, Held), NEW d, NEW s, NEW us, NEW fs, Caller(d, s, us, fs),
           NEW c, c = fs[Len(fs)], c.proto # Nil,
           NEW f \in Int, f = c.base + c.free, NEW n \in Nat, status = "run",
           EnterPcall(s, us, fs, f, n, Want(c), Cont(c))
    PROVE  \E a : /\ Enters(ActsOf(s, fs, d, <<>>), Len(fs) - d, View(s, c, <<>>), W(s, f + 1, n), fs, a)
                  /\ Lands(d, a, HomeOf(us, fs, d), CellOf(s, us), UsedOf(us))
<1>1. PICK w, gs : w = NativeWindow(s, f, n) /\ Pushes(gs, fs, GuardFrame(f, n, c)) /\ gs = Append(fs, GuardFrame(f, n, c))
  BY DEF Pushes
<1>2. s \in Seq(Value) /\ n > 0
  BY DEF Caller, EnterPcall
<1>3. w \in Seq(Value) /\ Agree(s, w, f) /\ W(w, f + 1, n) = W(s, f + 1, n) /\ Slot(w, f + 1) = Slot(s, f + 1)
  <2>1. PICK x : x = w /\ x = NativeWindow(s, f, n)
    BY <1>1
  <2>2. x \in Seq(Value) /\ Agree(s, x, f) /\ W(x, f + 1, n) = W(s, f + 1, n) /\ (n > 0 => Slot(x, f + 1) = Slot(s, f + 1))
    BY <1>2, <2>1, NativeSame, SMTT(30)
  <2> QED BY <1>2, <2>1, <2>2
<1>4. Guarded(d, s, us, fs, w, gs, f)
  BY <1>1, <1>3, GuardedIs
<1>5. PICK b, args, h, e, u : /\ b = ActsOf(s, fs, d, <<>>) /\ args = W(s, f + 1, n)
                              /\ h = HomeOf(us, fs, d) /\ e = CellOf(s, us) /\ u = UsedOf(us)
  OBVIOUS
<1>6. /\ Caller(d, w, us, gs) /\ gs[Len(gs)].proto = Nil
      /\ ActsOf(w, gs, d, <<>>) = Append(b, Guarding(<<>>))
      /\ HomeOf(us, gs, d) = h /\ CellOf(w, us) = e
  BY <1>4, <1>5 DEF Guarded
<1>7. PICK g : g = gs[Len(gs)]
  OBVIOUS
<1>8. PICK k \in Int : k = f + 1 /\ k = g.base + g.free
  <2>1. f + 1 \in Int /\ f + 1 + 0 = f + 1
    OBVIOUS
  <2> QED BY <1>4, <1>7, <2>1 DEF Guarded
<1>9. Want(g) = MultRet /\ Cont(g) = 0
  BY <1>6, <1>7 DEF Want, Cont
<1>10. args # <<>> /\ args[1] = Slot(s, f + 1) /\ Tail(args) = W(s, k + 1, n - 1) /\ args \in Seq(Value)
  <2>1. args \in Seq(Value) /\ Len(args) = n /\ \A i \in 1..n : args[i] = Slot(s, f + 1 + i - 1)
    <3>1. f + 1 \in Int
      OBVIOUS
    <3>2. Len(args) = IF n > 0 THEN n ELSE 0
      BY <1>2, <1>5, <3>1, WIsList
    <3> QED BY <1>2, <1>5, <3>1, <3>2, WIsList
  <2>2. 1 \in 1..n /\ f + 1 + 1 - 1 = f + 1
    BY <1>2
  <2>3. args[1] = Slot(s, f + 1)
    BY <2>1, <2>2
  <2>4. args # <<>>
    BY <1>2, <2>1
  <2>5. Tail(args) = W(s, k + 1, n - 1)
    <3>1. Tail(args) = SubSeq(args, 2, n)
      BY <2>1, <2>4
    <3>2. PICK i \in Int, j \in Int, m \in Nat : i = 2 /\ j = k + 1 /\ m = n - 1
      BY <1>2
    <3>3. i >= 1 /\ Suffix(k, n, i, j, m)
      BY <3>2 DEF Suffix
    <3>4. From(W(s, k, n), i) = W(s, j, m)
      BY <1>2, <3>3, WFrom
    <3> QED BY <1>5, <1>8, <2>1, <3>1, <3>2, <3>4 DEF From
  <2> QED BY <2>1, <2>3, <2>4, <2>5
<1>11. CASE Throw(w, us, gs)
  <2>1. status' = "error" /\ Lands(d, Append(b, Guarding(<<>>)), h, e, u)
    BY <1>5, <1>6, <1>11, ThrowHere
  <2> QED BY <1>5, <1>10, <2>1 DEF Enters
<1>12. PICK m \in Nat : m = n - 1
  BY <1>2
<1>13. CASE EnterLua(w, us, gs, f + 1, n - 1, MultRet, 0) /\ ~ Throw(w, us, gs) /\ Slot(w, f + 1) = Fun
  <2>1. PICK p \in Functions :
           /\ stack' = Prepared(w, k + 1, m, p)
           /\ frames' = Append(gs, CallInfo(p, k, m, k + 1 + Room[p], MultRet, Extra(w, k + 1, m, p), 0))
           /\ ups' = us /\ status' = status
    BY <1>8, <1>12, <1>13 DEF EnterLua
  <2>2. frames' = Append(gs, CalleeFrame(p, w, k, m, g)) /\ status' = "run"
    BY <1>9, <2>1 DEF CalleeFrame
  <2>3. Lands(d, Append(ActsOf(w, gs, d, <<>>), Lua!Activation(p, W(w, k + 1, m))),
              HomeOf(us, gs, d), CellOf(w, us), UsedOf(us))
    BY <1>6, <1>7, <1>8, <2>1, <2>2, EnterIs
  <2>4. W(w, k + 1, m) = Tail(args)
    <3>1. \A j \in k + 1..k + 1 + m - 1 : Slot(w, j) = Slot(s, j)
      <4>1. Leaves(w, s, f, n)
        BY <1>1, <1>2, NativeIs
      <4>2. \A j \in k + 1..k + 1 + m - 1 : j \in Int /\ j < f + n + 1
        BY <1>8, <1>12, SMTT(30)
      <4> QED BY <4>1, <4>2 DEF Leaves, Agree
    <3>2. PICK j \in Int : j = k + 1
      OBVIOUS
    <3>3. \A i \in j..j + m - 1 : Slot(w, i) = Slot(s, i)
      BY <3>1, <3>2
    <3>4. W(w, j, m) = W(s, j, m)
      BY <1>2, <1>3, <3>3, WAgrees
    <3> QED BY <1>10, <1>12, <3>2, <3>4
  <2>5. Lands(d, Append(Append(b, Guarding(<<>>)), Lua!Activation(p, Tail(args))), h, e, u)
    BY <1>5, <1>6, <2>3, <2>4
  <2>6. args[1] = Fun
    BY <1>3, <1>10, <1>13
  <2> QED BY <1>5, <1>10, <2>2, <2>5, <2>6 DEF Enters
<1>14. CASE /\ \E vs \in Lists : Deliver(NativeWindow(w, f + 1, n - 1), us, gs, f + 1 + n, vs, f + 1, MultRet, 0)
            /\ status' = status /\ Slot(w, f + 1) = Fun
  <2>1. PICK vs \in Lists : Deliver(NativeWindow(w, k, m), us, gs, k + 1 + m, vs, k, Want(g), Cont(g))
    <3>1. f + 1 + n = k + 1 + m
      BY <1>8, <1>12
    <3> QED BY <1>8, <1>9, <1>12, <1>14, <3>1
  <2>2. status' = "run"
    BY <1>14
  <2>3. LandsWith(d, w, us, gs, Resumed(View(w, g, <<>>), vs))
    BY <1>6, <1>7, <1>8, <2>1, <2>2, NativeAnswers
  <2>4. Resumed(View(w, g, <<>>), vs) = Guarding(vs)
    BY <1>4, <1>7 DEF Guarded, Resumed, Guarding
  <2>5. PICK a : /\ Changed(a, Append(b, Guarding(<<>>)), Len(gs) - d, Guarding(vs))
                 /\ Lands(d, a, h, e, u)
    BY <1>5, <1>6, <2>3, <2>4 DEF LandsWith
  <2>6. a = Append(b, Guarding(vs))
    <3>1. Chain(d, fs)
      BY DEF Caller
    <3>2. PICK l \in Nat : l = Len(fs) /\ l >= d + 1 /\ d \in Nat
      BY <3>1, ChainEnds
    <3>3. ActsAre(b, s, fs, d, <<>>)
      <4>1. FramesOK(fs) /\ d <= Len(fs)
        BY <3>1, <3>2 DEF Chain, Grounded
      <4> QED BY <1>5, <3>2, <4>1, ActsList
    <3>4. PICK i \in Nat : i = l - d
      <4>1. l - d \in Nat
        BY <3>2
      <4> QED BY <4>1
    <3>5. (\E T : b \in Seq(T)) /\ Len(b) = i
      BY <3>2, <3>3, <3>4 DEF ActsAre
    <3>6. Len(gs) - d = i + 1
      BY <1>4, <3>2, <3>4 DEF Guarded
    <3>7. Changed(a, Append(b, Guarding(<<>>)), i + 1, Guarding(vs))
      BY <2>5, <3>6
    <3> QED BY <3>5, <3>7, PushChanged
  <2>7. args[1] = Fun
    BY <1>3, <1>10, <1>14
  <2> QED BY <1>5, <1>10, <2>2, <2>5, <2>6, <2>7 DEF Enters
<1>15. \/ Throw(w, us, gs)
       \/ EnterLua(w, us, gs, f + 1, n - 1, MultRet, 0) /\ Slot(w, f + 1) = Fun
       \/ /\ \E vs \in Lists : Deliver(NativeWindow(w, f + 1, n - 1), us, gs, f + 1 + n, vs, f + 1, MultRet, 0)
          /\ status' = status /\ Slot(w, f + 1) = Fun
  BY <1>1 DEF EnterPcall, GuardFrame
<1> QED BY <1>11, <1>13, <1>14, <1>15

\* What a call comes to: it enters a function, or it fails with the stack t.
LEMMA EnterOutcome ==
    ASSUME Compiled(Live, Held), ~ IteratorYields, NEW d, NEW s, NEW us, NEW fs, Caller(d, s, us, fs),
           NEW c, c = fs[Len(fs)], c.proto # Nil,
           NEW f \in Int, f = c.base + c.free, NEW n \in Nat, status = "run",
           Enter(s, us, fs, f, n, Want(c), Cont(c))
    PROVE  \/ \E a : /\ Enters(ActsOf(s, fs, d, <<>>), Len(fs) - d, View(s, c, <<>>), W(s, f + 1, n), fs, a)
                     /\ Lands(d, a, HomeOf(us, fs, d), CellOf(s, us), UsedOf(us))
           \/ \E t \in Seq(Value) : Agree(s, t, f) /\ Throw(t, us, fs)
<1>1. s \in Seq(Value)
  BY DEF Caller
<1>2. CASE EnterLua(s, us, fs, f, n, Want(c), Cont(c))
  <2>1. CASE Cardinality(LuaFrames(fs)) >= MaxCalls
    <3>1. Throw(s, us, fs)
      BY <1>2, <2>1 DEF EnterLua
    <3>2. Agree(s, s, f)
      BY DEF Agree
    <3> QED BY <1>1, <3>1, <3>2
  <2>2. CASE ~ Cardinality(LuaFrames(fs)) >= MaxCalls
    <3>1. PICK p \in Functions :
             /\ stack' = Prepared(s, f + 1, n, p)
             /\ frames' = Append(fs, CallInfo(p, f, n, f + 1 + Room[p], Want(c), Extra(s, f + 1, n, p), Cont(c)))
             /\ ups' = us /\ status' = status
      BY <1>2, <2>2 DEF EnterLua
    <3>2. frames' = Append(fs, CalleeFrame(p, s, f, n, c)) /\ status' = "run"
      BY <3>1 DEF CalleeFrame
    <3>3. Lands(d, Append(ActsOf(s, fs, d, <<>>), Lua!Activation(p, W(s, f + 1, n))),
                HomeOf(us, fs, d), CellOf(s, us), UsedOf(us))
      BY <3>1, <3>2, EnterIs
    <3> QED BY <3>2, <3>3 DEF Enters
  <2> QED BY <2>1, <2>2
<1>3. CASE EnterNative(s, us, fs, f, n, Want(c), Cont(c))
  <2>1. CASE Throw(NativeWindow(s, f, n), us, fs)
    <3>1. PICK t : t = NativeWindow(s, f, n)
      OBVIOUS
    <3>2. t \in Seq(Value) /\ Agree(s, t, f)
      BY <1>1, <3>1, NativeSame
    <3> QED BY <2>1, <3>1, <3>2
  <2>2. CASE /\ \E vs \in Lists : Deliver(NativeWindow(s, f, n), us, fs, f + 1 + n, vs, f, Want(c), Cont(c))
             /\ status' = status
    <3>1. PICK vs \in Lists : Deliver(NativeWindow(s, f, n), us, fs, f + 1 + n, vs, f, Want(c), Cont(c))
      BY <2>2
    <3>2. status' = "run"
      BY <2>2
    <3>3. LandsWith(d, s, us, fs, Resumed(View(s, c, <<>>), vs))
      BY <3>1, <3>2, NativeAnswers
    <3>4. Resumed(View(s, c, <<>>), vs) = Lua!Answered(View(s, c, <<>>), vs)
      BY DEF Resumed, View
    <3>5. PICK a : /\ Changed(a, ActsOf(s, fs, d, <<>>), Len(fs) - d, Lua!Answered(View(s, c, <<>>), vs))
                   /\ Lands(d, a, HomeOf(us, fs, d), CellOf(s, us), UsedOf(us))
      BY <3>3, <3>4 DEF LandsWith
    <3> QED BY <3>2, <3>5 DEF Enters
  <2> QED BY <1>3, <2>1, <2>2 DEF EnterNative
<1>4. CASE EnterYield(s, us, fs, f, n, Want(c), Cont(c))
  <2>1. /\ status' = "yield" /\ Guards(fs) = {}
        /\ Lands(d, ActsOf(s, fs, d, <<>>), HomeOf(us, fs, d), CellOf(s, us), UsedOf(us))
    BY <1>4, YieldIs
  <2> QED BY <2>1 DEF Enters
<1>5. CASE EnterPcall(s, us, fs, f, n, Want(c), Cont(c))
  BY <1>5, PcallIs
<1> QED BY <1>2, <1>3, <1>4, <1>5 DEF Enter

\* At a call: s, us and fs are the stack, the upvalues and the frames when the
\* running function has n registers left, h are the homes then.
Invoking(s, us, fs, h, n) ==
    /\ Going(fs, cur.pc, n) /\ Caller(Below, s, us, fs) /\ UpsOK(us) /\ n \in Nat /\ n <= cur.free
    /\ HomeOf(us, fs, Below) = h /\ (h = Homes \/ h = Forgotten(Homes, Lua!depth, 0))
    /\ CellOf(s, us) = Contents /\ UsedOf(us) = Used
    /\ Agree(stack, s, cur.base + n)

LEMMA GoingSame ==
    ASSUME NEW fs, NEW pc, NEW n, Going(fs, pc, n), FramesOK(frames)
    PROVE  Same(fs) /\ fs[Len(fs)].proto = cur.proto /\ fs[Len(fs)].base = cur.base
           /\ fs[Len(fs)].free = n /\ fs[Len(fs)].pc = pc /\ fs[Len(fs)].varargs = cur.varargs
<1>1. Len(frames) \in Nat
  BY DEF FramesOK
<1>2. PICK l \in Nat : l = Len(frames)
  BY <1>1
<1>3. Len(fs) = l /\ fs[l].proto = cur.proto /\ (\A k \in 1..l - 1 : fs[k] = frames[k])
  BY <1>2 DEF Going
<1>4. cur = frames[l]
  BY <1>2 DEF cur
<1>5. ASSUME NEW k \in 1..l PROVE fs[k].proto = frames[k].proto
  <2>1. k = l \/ k \in 1..l - 1
    OBVIOUS
  <2> QED BY <1>3, <1>4, <2>1
<1> QED BY <1>2, <1>3, <1>5 DEF Same, Going

\* The caller's activation waits, the others are as they were.
LEMMA InvokingActs ==
    ASSUME StackInvariant, Calling, Compiled(Live, Held), status = "run", cur.proto # Nil,
           NEW s, NEW us, NEW fs, NEW h, NEW n, Invoking(s, us, fs, h, n)
    PROVE  Changed(ActsOf(s, fs, Below, <<>>), Activated, Lua!depth, Lua!Waiting(n))
           /\ View(s, fs[Len(fs)], <<>>) = Lua!Waiting(n) /\ Len(fs) - Below = Lua!depth
<1>1. PICK d : d = Below
  OBVIOUS
<1>2. Chain(d, frames) /\ Chain(d, fs) /\ FramesOK(frames) /\ FramesOK(fs) /\ s \in Seq(Value) /\ stack \in Seq(Value)
      /\ n \in Nat /\ Len(fs) = Len(frames) /\ (\A k \in 1..Len(frames) - 1 : fs[k] = frames[k])
  BY <1>1, Finds DEF Invoking, Going, Caller, Chain, Grounded, StackInvariant, Body
<1>3. PICK l \in Nat : l = Len(frames) /\ d \in Nat /\ l >= d + 1 /\ l \in 1..l
  BY <1>2, ChainEnds
<1>4. PICK b \in Int : b = cur.base
  <2>1. Shape(cur)
    BY Finds
  <2> QED BY <2>1 DEF Shape
<1>5. Agree(stack, s, b + n)
  BY <1>4 DEF Invoking
<1>6. cur = frames[l] /\ Shape(cur)
  BY <1>3, Finds DEF cur
<1>7. ASSUME NEW k \in d + 1..l - 1
      PROVE  View(s, fs[k], <<>>) = View(stack, frames[k], <<>>)
  <2>1. k \in 1..l - 1 /\ k \in d + 1..l
    BY <1>3
  <2>2. fs[k] = frames[k] /\ Shape(frames[k])
    BY <1>2, <1>3, <2>1 DEF Chain
  <2>3. frames[k].base + frames[k].free <= cur.func
    BY <1>2, <1>3, <1>6, <1>7, ChainUnder
  <2>4. cur.func <= b /\ cur.func \in Int
    BY <1>4, <1>6 DEF Shape
  <2>5. PICK f \in Int : f = b + n
    BY <1>2
  <2>6. frames[k].base + frames[k].free <= f
    <3>1. PICK x \in Int, y \in Int, q \in Int : x = frames[k].base /\ y = frames[k].free /\ q = cur.func
      BY <2>2, <2>4 DEF Shape
    <3>2. x + y <= q /\ q <= b
      BY <2>3, <2>4, <3>1
    <3>3. b <= f
      BY <1>2, <2>5
    <3>4. x + y <= f
      BY <3>2, <3>3
    <3> QED BY <3>1, <3>4
  <2>7. Agree(stack, s, f)
    BY <1>5, <2>5
  <2> QED BY <1>2, <2>2, <2>6, <2>7, ViewKept
<1>8. View(s, fs[l], <<>>) = Lua!Waiting(n)
  <2>1. fs[l].proto = cur.proto /\ fs[l].pc = cur.pc /\ fs[l].base = b /\ fs[l].free = n /\ fs[l].varargs = cur.varargs
    BY <1>2, <1>3, <1>4, GoingSame DEF Invoking
  <2>2. n <= cur.free /\ n \in Nat
    BY DEF Invoking
  <2>3. W(s, b, n) = W(stack, b, n)
    <3>1. \A j \in b..b + n - 1 : Slot(s, j) = Slot(stack, j)
      BY <1>2, <1>5 DEF Agree
    <3> QED BY <1>2, <3>1, WAgrees
  <2>4. W(stack, b, n) = Upto(Lua!regs, n)
    BY <1>4, <2>2, RegsUpto DEF Upto
  <2>5. Lua!cur = View(stack, cur, Pending)
    BY Sees
  <2>6. Lua!Waiting(n) = [proto |-> cur.proto, pc |-> cur.pc, regs |-> Upto(Lua!regs, n), more |-> <<>>,
                          varargs |-> cur.varargs]
    <3>1. PICK a : a = Lua!cur
      OBVIOUS
    <3>2. a = [proto |-> cur.proto, pc |-> cur.pc, regs |-> Lua!regs, more |-> Pending, varargs |-> cur.varargs]
      <4>1. Lua!regs = W(stack, cur.base, cur.free)
        BY Sees
      <4> QED BY <2>5, <3>1, <4>1 DEF View
    <3>3. Lua!Waiting(n) = [a EXCEPT !.regs = Upto(Lua!regs, n), !.more = <<>>]
      BY <3>1, <3>2 DEF Lua!Waiting, Lua!regs, Lua!Upto, Upto
    <3> QED BY <3>2, <3>3
  <2> QED BY <2>1, <2>3, <2>4, <2>6 DEF View
<1>9. Changed(ActsOf(s, fs, d, <<>>), ActsOf(stack, frames, d, Pending), Len(frames) - d, View(s, fs[Len(fs)], <<>>))
  <2>1. \A k \in d + 1..Len(frames) - 1 : View(s, fs[k], <<>>) = View(stack, frames[k], <<>>)
    BY <1>3, <1>7
  <2>2. d < Len(frames)
    BY <1>3
  <2> QED BY <1>2, <1>3, <2>1, <2>2, ActsChanged
<1>10. Activated = ActsOf(stack, frames, Below, Pending) /\ Lua!depth = Len(frames) - Below
  BY Sees
<1> QED BY <1>1, <1>2, <1>3, <1>8, <1>9, <1>10

LEMMA AppendTwo ==
    ASSUME NEW b, \E T : b \in Seq(T), NEW x, NEW y
    PROVE  Append(Append(b, x), y) = b \o <<x, y>>
<1>1. PICK T : b \in Seq(T)
  OBVIOUS
<1>2. PICK U : U = T \cup {x, y}
  OBVIOUS
<1>3. b \in Seq(U) /\ x \in U /\ y \in U
  <2>1. b \in Seq(T \cup {x, y})
    BY <1>1, SeqMonotonic
  <2> QED BY <1>2, <2>1
<1>5. Append(b, x) = b \o <<x>> /\ Append(b \o <<x>>, y) = (b \o <<x>>) \o <<y>>
  <2>1. b \o <<x>> \in Seq(U) /\ <<x>> \in Seq(U)
    BY <1>3
  <2> QED BY <1>3, <2>1, AppendIsConcat
<1>6. (b \o <<x>>) \o <<y>> = b \o (<<x>> \o <<y>>)
  <2>1. <<x>> \in Seq(U) /\ <<y>> \in Seq(U)
    BY <1>3
  <2> QED BY <1>3, <2>1, ConcatAssociative
<1>7. <<x>> \o <<y>> = <<x, y>>
  <2>1. PICK i, j : i = <<x>> /\ j = <<y>>
    OBVIOUS
  <2>2. i \in Seq(U) /\ j \in Seq(U) /\ Len(i) = 1 /\ Len(j) = 1 /\ i[1] = x /\ j[1] = y
    BY <1>3, <2>1
  <2>3. i \o j \in Seq(U) /\ Len(i \o j) = 2 /\ (i \o j)[1] = x /\ (i \o j)[2] = y
    <3>1. PICK z : z = i \o j
      OBVIOUS
    <3>2. z \in Seq(U) /\ Len(z) = 2 /\ \A q \in 1..2 : z[q] = IF q <= 1 THEN i[q] ELSE j[q - 1]
      BY <2>2, <3>1, ConcatProperties, SMTT(30)
    <3>3. z[1] = i[1] /\ z[2] = j[2 - 1]
      BY <3>2
    <3> QED BY <2>2, <3>1, <3>2, <3>3
  <2>4. <<x, y>> \in Seq(U) /\ Len(<<x, y>>) = 2 /\ <<x, y>>[1] = x /\ <<x, y>>[2] = y
    BY <1>3
  <2>5. i \o j = <<x, y>>
    <3>1. PICK e, w : e = i \o j /\ w = <<x, y>>
      OBVIOUS
    <3>2. \A q \in 1..2 : e[q] = w[q]
      BY <2>3, <2>4, <3>1
    <3> QED BY <2>3, <2>4, <3>1, <3>2, SameActs
  <2> QED BY <2>1, <2>5
<1> QED BY <1>5, <1>6, <1>7

LEMMA ChangedTwice ==
    ASSUME NEW a, NEW b, NEW c, NEW i, NEW x, NEW y, Changed(b, a, i, x), Changed(c, b, i, y)
    PROVE  Changed(c, a, i, y)
<1>1. b = [a EXCEPT ![i] = x] /\ c = [b EXCEPT ![i] = y]
  BY DEF Changed
<1>2. b = [j \in DOMAIN a |-> IF j = i THEN x ELSE a[j]]
  BY <1>1
<1>3. c = [j \in DOMAIN b |-> IF j = i THEN y ELSE b[j]]
  BY <1>1
<1>4. DOMAIN b = DOMAIN a
  BY <1>2
<1>5. c = [j \in DOMAIN a |-> IF j = i THEN y ELSE a[j]]
  BY <1>2, <1>3, <1>4
<1> QED BY <1>5 DEF Changed

LEMMA ChangedBelow ==
    ASSUME NEW a, \E T : a \in Seq(T), NEW b, \E T : b \in Seq(T), NEW x, Changed(b, a, Len(a), x)
    PROVE  SameBelow(b, a, Len(a))
<1>1. PICK n \in Nat : n = Len(a)
  OBVIOUS
<1>2. b = [a EXCEPT ![n] = x] /\ DOMAIN a = 1..n
  BY <1>1 DEF Changed
<1>3. \A i \in 1..n : i # n => b[i] = a[i]
  BY <1>2
<1>4. DOMAIN b = 1..n /\ Len(b) = n
  <2>1. DOMAIN b = 1..n
    BY <1>2
  <2> QED BY <1>1, <2>1
<1>5. ASSUME NEW j \in Nat, j < n PROVE SubSeq(b, 1, j) = SubSeq(a, 1, j)
  <2>1. SubSeq(b, 1, j) = [i \in 1..j |-> b[i]] /\ SubSeq(a, 1, j) = [i \in 1..j |-> a[i]]
    BY <1>1, <1>4, <1>5
  <2>2. \A i \in 1..j : b[i] = a[i]
    BY <1>3, <1>5
  <2> QED BY <2>1, <2>2
<1> QED BY <1>1, <1>5 DEF SameBelow

\* The activations Enter leads to.
LEMMA EntersIs ==
    ASSUME status = "run", NEW b, NEW g, \E T : b \in Seq(T), Changed(b, Activated, Lua!depth, g),
           NEW args, NEW fs, Guards(fs) = {} => Lua!Boundaries = {},
           Enters(b, Lua!depth, g, args, fs, Activated')
    PROVE  Lua!Enter(g, args)
<1>1. b = [Activated EXCEPT ![Lua!depth] = g]
  BY DEF Changed
<1>2. Guarding(<<>>) = Lua!Guard(<<>>)
  BY GuardIs
<1>3. ASSUME NEW p \in Functions, Activated' = Append(b, Lua!Activation(p, args)), status' = "run"
      PROVE  Lua!Enter(g, args)
  BY <1>1, <1>3 DEF Lua!Enter
<1>4. ASSUME NEW vs \in Lists, Changed(Activated', b, Lua!depth, Lua!Answered(g, vs)), status' = "run"
      PROVE  Lua!Enter(g, args)
  <2>1. PICK a, n, z : a = Activated' /\ n = Lua!depth /\ z = Lua!Answered(g, vs)
    OBVIOUS
  <2>2. Changed(a, Activated, n, z)
    BY <1>4, <2>1, ChangedTwice
  <2>3. a = [Activated EXCEPT ![n] = z]
    BY <2>2 DEF Changed
  <2>4. Lua!Become(Lua!Answered(g, vs))
    BY <2>1, <2>3 DEF Lua!Become
  <2> QED BY <1>4, <2>4 DEF Lua!Enter
<1>5. ASSUME args # <<>>, args[1] = Fun, status' = "run", NEW p \in Functions,
             Activated' = Append(Append(b, Guarding(<<>>)), Lua!Activation(p, Tail(args)))
      PROVE  Lua!Enter(g, args)
  <2>1. PICK x, y : x = Guarding(<<>>) /\ y = Lua!Activation(p, Tail(args))
    OBVIOUS
  <2>2. Append(Append(b, x), y) = b \o <<x, y>>
    BY AppendTwo
  <2>3. Activated' = b \o <<Lua!Guard(<<>>), Lua!Activation(p, Tail(args))>>
    BY <1>2, <1>5, <2>1, <2>2
  <2> QED BY <1>1, <1>5, <2>3 DEF Lua!Enter
<1>6. ASSUME args # <<>>, args[1] = Fun, status' = "run", NEW vs \in Lists, Activated' = Append(b, Guarding(vs))
      PROVE  Lua!Enter(g, args)
  <2>1. Activated' = Append(b, Lua!Guard(vs))
    BY <1>6, GuardIs
  <2> QED BY <1>1, <1>6, <2>1 DEF Lua!Enter
<1>7. ASSUME args # <<>>, Activated' = Append(b, Guarding(<<>>)), status' = "error"
      PROVE  Lua!Enter(g, args)
  BY <1>1, <1>2, <1>7 DEF Lua!Enter
<1>8. ASSUME Guards(fs) = {}, Activated' = b, status' = "yield"
      PROVE  Lua!Enter(g, args)
  BY <1>1, <1>8 DEF Lua!Enter
<1> QED BY <1>3, <1>4, <1>5, <1>6, <1>7, <1>8 DEF Enters

\* A call, in both machines.
LEMMA InvokeIs ==
    ASSUME StackInvariant, StackInvariant', Calling, Compiled(Live, Held), ~ IteratorYields, status = "run",
           cur.proto # Nil, thread' = thread,
           NEW s, NEW us, NEW fs, NEW h, NEW n, Invoking(s, us, fs, h, n),
           NEW c, c = fs[Len(fs)], NEW f \in Int, f = cur.base + n, NEW m \in Nat,
           Enter(s, us, fs, f, m, Want(c), Cont(c))
    PROVE  /\ Calling'
           /\ \/ Lua!Fail
              \/ /\ Lua!Enter(Lua!Waiting(n), W(s, f + 1, m))
                 /\ Homes' = h /\ Contents' = Contents /\ Used' = Used /\ Final' = Final
<1>1. PICK d : d = Below
  OBVIOUS
<1>2. Caller(d, s, us, fs) /\ Chain(d, fs) /\ Housed(d, us, fs) /\ UpsOK(us) /\ s \in Seq(Value)
      /\ HomeOf(us, fs, d) = h /\ (h = Homes \/ h = Forgotten(Homes, Lua!depth, 0))
      /\ CellOf(s, us) = Contents /\ UsedOf(us) = Used /\ FramesOK(frames) /\ FramesOK(fs)
  <2>1. Chain(d, fs) /\ Housed(d, us, fs) /\ s \in Seq(Value) /\ Caller(d, s, us, fs)
    BY <1>1 DEF Invoking, Caller
  <2>2. FramesOK(fs) /\ FramesOK(frames)
    <3>1. Chain(Below, frames)
      BY Finds
    <3> QED BY <2>1, <3>1 DEF Chain, Grounded
  <2> QED BY <1>1, <2>1, <2>2 DEF Invoking
<1>3. Same(fs) /\ c.proto = cur.proto /\ c.base = cur.base /\ c.free = n
  BY <1>2, GoingSame DEF Invoking
<1>4. PICK b, g, k : b = ActsOf(s, fs, d, <<>>) /\ g = View(s, c, <<>>) /\ k = Lua!depth
  OBVIOUS
<1>5. Changed(b, Activated, k, g) /\ g = Lua!Waiting(n) /\ Len(fs) - d = k
  BY <1>1, <1>4, InvokingActs
<1>9. \E T : Activated \in Seq(T)
  <2>1. Chain(d, frames) /\ Activated = ActsOf(stack, frames, d, Pending)
    BY <1>1, Finds, Sees
  <2>2. PICK l \in Nat : l = Len(frames) /\ l >= d + 1 /\ d \in Nat
    BY <2>1, ChainEnds
  <2>3. d <= Len(frames)
    BY <2>2
  <2> QED BY <1>2, <2>1, <2>2, <2>3, ActsList DEF ActsAre
<1>10. \E T : b \in Seq(T)
  <2>1. PICK l \in Nat : l = Len(fs) /\ l >= d + 1 /\ d \in Nat
    BY <1>2, ChainEnds
  <2>2. d <= Len(fs)
    BY <2>1
  <2> QED BY <1>2, <1>4, <2>1, <2>2, ActsList DEF ActsAre
<1>6. CASE \E t \in Seq(Value) : Agree(s, t, f) /\ Throw(t, us, fs)
  <2>1. PICK t \in Seq(Value) : Agree(s, t, f) /\ Throw(t, us, fs)
    BY <1>6
  <2>2. ActsOf(t, fs, d, <<>>) = b /\ CellOf(t, us) = CellOf(s, us)
    <3>1. f = fs[Len(fs)].base + fs[Len(fs)].free
      BY <1>3
    <3> QED BY <1>2, <1>4, <2>1, <3>1, SeesSame
  <2>3. SameBelow(b, Activated, k)
    <3>1. (\E T : Activated \in Seq(T)) /\ Len(Activated) = k
      BY <1>4, <1>9 DEF Lua!depth
    <3>2. PICK a : a = Activated
      OBVIOUS
    <3> QED BY <1>5, <1>10, <3>1, <3>2, ChangedBelow
  <2>4. Failing(t, us, fs, h, <<>>)
    BY <1>1, <1>2, <1>3, <1>4, <2>1, <2>2, <2>3 DEF Failing
  <2> QED BY <1>3, <2>1, <2>4, Fails
<1>7. CASE \E a : /\ Enters(b, k, g, W(s, f + 1, m), fs, a)
                  /\ Lands(d, a, h, CellOf(s, us), UsedOf(us))
  <2>1. PICK a : Enters(b, k, g, W(s, f + 1, m), fs, a) /\ Lands(Below, a, h, Contents, Used)
    BY <1>1, <1>2, <1>7
  <2>2. /\ Calling' /\ Activated' = a /\ Homes' = h /\ Contents' = Contents /\ Used' = Used
        /\ Final' = <<>>
    BY <2>1, Landing
  <2>3. Final = <<>>
    BY Sees
  <2>4. Guards(fs) = {} => Lua!Boundaries = {}
    <3>1. \A i \in Int : i \in Lua!Boundaries <=> i + Below \in Guards(fs)
      BY <1>1, <1>2, <1>3, BoundariesAre
    <3>2. \A i \in Lua!Boundaries : i \in Int
      BY DEF Lua!Boundaries
    <3> QED BY <3>1, <3>2
  <2>5. \E T : b \in Seq(T)
    BY <1>10
  <2>6. Lua!Enter(g, W(s, f + 1, m))
    BY <1>4, <1>5, <2>1, <2>2, <2>4, <2>5, EntersIs
  <2> QED BY <1>5, <2>2, <2>3, <2>6
<1>8. f = c.base + c.free
  BY <1>3
<1> QED BY <1>2, <1>3, <1>4, <1>5, <1>6, <1>7, <1>8, EnterOutcome

\* The registers that a call leaves to the running function.
Stays(i) == IF i.op = "TFORLOOP" THEN i.a + 2 ELSE i.a - 1

LEMMA AtCall ==
    ASSUME StackInvariant, Calling, Compiled(Live, Held), NEW op \in {"CALL", "TAILCALL", "TFORLOOP"}, At(op),
           NEW n, n = Stays(ins), NEW s \in Seq(Value), NEW f \in Int, f = cur.base + n, Agree(stack, s, f)
    PROVE  /\ Invoking(s, ups, Goto(cur.pc, n), Homes, n) /\ n \in Nat /\ n <= cur.free
           /\ Want(Goto(cur.pc, n)[Len(Goto(cur.pc, n))]) = Takes(ins)
           /\ Cont(Goto(cur.pc, n)[Len(Goto(cur.pc, n))]) = IF op = "TFORLOOP" THEN cur.base + ins.a - 1 ELSE 0
<1>1. /\ FramesInvariant /\ Body /\ status = "run" /\ cur.proto # Nil /\ ins.op = op
      /\ cur.proto \in Protos /\ cur.pc \in DOMAIN Code[cur.proto] /\ ins = Code[cur.proto][cur.pc]
      /\ Orderly(Live, Held, cur.proto, cur.pc) /\ cur.free = Live[cur.proto][cur.pc] /\ cur.free \in Nat
  BY Finding
<1>2. PICK i : i = ins
  OBVIOUS
<1>3. i.a \in Nat
  BY <1>1, <1>2, CodeAssumption
<1>4. n \in Nat /\ n <= cur.free /\ Held[cur.proto][cur.pc] \subseteq 1..n
  <2>1. CASE op = "TFORLOOP"
    <3>1. i.a + 2 <= cur.free /\ Held[cur.proto][cur.pc] \subseteq 1..i.a + 1
      <4>1. i = Code[cur.proto][cur.pc] /\ i.op = "TFORLOOP"
        BY <1>1, <1>2, <2>1
      <4>2. PICK p, pc : p = cur.proto /\ pc = cur.pc
        OBVIOUS
      <4>3. Orderly(Live, Held, p, pc) /\ i = Code[p][pc]
        BY <1>1, <4>1, <4>2
      <4>4. i.a + 2 <= Live[p][pc] /\ Held[p][pc] \subseteq 1..i.a + 1
        BY <4>1, <4>3 DEF Orderly
      <4> QED BY <1>1, <4>2, <4>4
    <3>2. i.op = "TFORLOOP"
      BY <1>1, <1>2, <2>1
    <3>3. n = i.a + 2
      BY <1>2, <3>2 DEF Stays
    <3>4. PICK a \in Nat : a = i.a
      BY <1>3
    <3>5. a + 2 \in Nat /\ 1..a + 1 \subseteq 1..a + 2
      OBVIOUS
    <3> QED BY <3>1, <3>3, <3>4, <3>5
  <2>2. CASE op # "TFORLOOP"
    <3>1. i.a \in 1..cur.free /\ Held[cur.proto][cur.pc] \subseteq 1..i.a - 1
      BY <1>1, <1>2, <2>2 DEF Orderly
    <3>2. n = i.a - 1
      BY <1>1, <1>2, <2>2 DEF Stays
    <3> QED BY <1>1, <1>3, <3>1, <3>2
  <2> QED BY <2>1, <2>2
<1>18. PICK fs : fs = Goto(cur.pc, n)
  OBVIOUS
<1>5. PICK l \in Nat : fs = Goto(cur.pc, n) /\ l = Len(frames)
  <2>1. Chain(Below, frames)
    BY <1>1, Finds
  <2> QED BY <1>18, <2>1, ChainEnds
<1>6. Going(fs, cur.pc, n)
  <2>1. n <= Room[cur.proto]
    <3>1. Shape(cur)
      BY <1>1, Finds
    <3>2. cur.free <= Room[cur.proto] /\ Room[cur.proto] \in Nat
      BY <1>1, <3>1, ProtoAssumption DEF Shape
    <3> QED BY <1>1, <1>4, <3>2
  <2> QED BY <1>1, <1>4, <1>5, <2>1, GoneChain
<1>7. PICK c : c = fs[l]
  OBVIOUS
<1>8. /\ Len(fs) = l /\ c.proto = cur.proto /\ c.base = cur.base /\ c.pc = cur.pc /\ c.free = n /\ Shape(c)
      /\ Chain(Below, fs) /\ (\A k \in 1..l - 1 : fs[k] = frames[k])
  BY <1>5, <1>6, <1>7 DEF Going
<1>9. Chain(Below, frames) /\ Housed(Below, ups, frames) /\ UpsShape(ups) /\ UpsOK(ups) /\ stack \in Seq(Value)
  BY <1>1, Finds DEF FramesInvariant, Body, UpsOK
<1>10. cur = frames[l]
  BY <1>5 DEF cur
<1>11. Housed(Below, ups, fs) /\ HomeOf(ups, fs, Below) = HomeOf(ups, frames, Below)
  <2>1. \A r \in Held[fs[l].proto][frames[l].pc] :
            r \in 1..frames[l].free => r <= fs[l].free /\ r \in Held[fs[l].proto][fs[l].pc]
    <3>1. \A r \in Held[cur.proto][cur.pc] : r <= n
      BY <1>4
    <3> QED BY <1>7, <1>8, <1>10, <3>1
  <2>2. fs[l].base = frames[l].base /\ fs[l].proto = frames[l].proto
    BY <1>7, <1>8, <1>10
  <2>3. l = Len(frames)
    BY <1>5
  <2> QED BY <1>8, <1>9, <2>1, <2>2, <2>3, HousedLast
<1>12. WaitsIn(c)
  <2>1. i = Code[c.proto][c.pc]
    BY <1>1, <1>2, <1>8
  <2>2. n = IF i.op = "TFORLOOP" THEN i.a + 2 ELSE i.a - 1
    BY <1>2 DEF Stays
  <2> QED BY <1>1, <1>2, <1>8, <2>1, <2>2 DEF WaitsIn
<1>13. Caller(Below, s, ups, fs)
  BY <1>7, <1>8, <1>9, <1>11, <1>12 DEF Caller
<1>14. CellOf(s, ups) = CellOf(stack, ups)
  <2>1. frames[Len(frames)].proto # Nil => Held[frames[Len(frames)].proto][frames[Len(frames)].pc] \subseteq 1..n
    BY <1>4, <1>5, <1>10
  <2>2. frames[Len(frames)].base + n <= f
    <3>1. cur.base \in Int
      BY <1>1, Finds DEF Shape
    <3> QED BY <1>4, <1>5, <1>10, <3>1
  <2> QED BY <1>4, <1>9, <2>1, <2>2, CellsUnder
<1>15. Homes = HomeOf(ups, frames, Below) /\ Contents = CellOf(stack, ups) /\ Used = UsedOf(ups)
  BY <1>1, Sees
<1>16. Invoking(s, ups, fs, Homes, n)
  <2>1. Agree(stack, s, cur.base + n)
    OBVIOUS
  <2> QED BY <1>4, <1>6, <1>9, <1>11, <1>13, <1>14, <1>15, <2>1 DEF Invoking
<1>17. Want(c) = Takes(ins) /\ Cont(c) = IF op = "TFORLOOP" THEN cur.base + ins.a - 1 ELSE 0
  BY <1>1, <1>8 DEF Want, Cont
<1> QED BY <1>4, <1>5, <1>7, <1>8, <1>16, <1>17

\* A call of nil, or of anything that is no iterator, fails.
LEMMA InvokeFails ==
    ASSUME StackInvariant, StackInvariant', Calling, Compiled(Live, Held), status = "run", cur.proto # Nil,
           thread' = thread, NEW n, NEW fs, Invoking(stack, ups, fs, Homes, n), Throw(stack, ups, fs)
    PROVE  Calling' /\ Lua!Fail
<1>1. PICK d : d = Below
  OBVIOUS
<1>2. Caller(d, stack, ups, fs) /\ UpsOK(ups) /\ HomeOf(ups, fs, d) = Homes
      /\ CellOf(stack, ups) = Contents /\ UsedOf(ups) = Used /\ Going(fs, cur.pc, n)
  BY <1>1 DEF Invoking
<1>3. Chain(d, fs) /\ Housed(d, ups, fs) /\ stack \in Seq(Value)
  BY <1>2 DEF Caller
<1>4. Chain(d, frames) /\ FramesOK(frames)
  BY <1>1, Finds DEF Chain, Grounded
<1>5. Same(fs)
  BY <1>2, <1>4, GoingSame
<1>6. SameBelow(ActsOf(stack, fs, Below, <<>>), Activated, Lua!depth)
  <2>1. Changed(ActsOf(stack, fs, Below, <<>>), Activated, Lua!depth, Lua!Waiting(n))
    BY InvokingActs
  <2>2. (\E T : Activated \in Seq(T)) /\ Len(Activated) = Lua!depth
    <3>1. Activated = ActsOf(stack, frames, d, Pending)
      BY <1>1, Sees
    <3>2. PICK l \in Nat : l = Len(frames) /\ l >= d + 1 /\ d \in Nat
      BY <1>4, ChainEnds
    <3>3. d <= Len(frames)
      BY <3>2
    <3> QED BY <1>4, <3>1, <3>2, <3>3, ActsList DEF ActsAre, Lua!depth
  <2>3. \E T : ActsOf(stack, fs, Below, <<>>) \in Seq(T)
    <3>1. PICK l \in Nat : l = Len(fs) /\ l >= d + 1 /\ d \in Nat
      BY <1>3, ChainEnds
    <3>2. d <= Len(fs) /\ FramesOK(fs)
      BY <1>3, <3>1 DEF Chain, Grounded
    <3> QED BY <1>1, <3>1, <3>2, ActsList DEF ActsAre
  <2>4. PICK a, b : a = Activated /\ b = ActsOf(stack, fs, Below, <<>>)
    OBVIOUS
  <2> QED BY <2>1, <2>2, <2>3, <2>4, ChangedBelow
<1>7. Failing(stack, ups, fs, Homes, <<>>)
  BY <1>1, <1>2, <1>3, <1>5, <1>6 DEF Failing
<1> QED BY <1>7, Fails

\* The arguments in the slots behind the callee.
LEMMA PlainArguments ==
    ASSUME StackInvariant, Calling, Compiled(Live, Held), NEW op \in {"CALL", "TAILCALL"}, At(op)
    PROVE  /\ ArgCount \in Nat /\ Reg(ins.a) \in Int /\ Reg(ins.a) >= 1 /\ ins.a \in 1..cur.free
           /\ (IF Lua!ins.b = 0 THEN Lua!From(Lua!regs, Lua!ins.a + 1) \o Lua!cur.more
               ELSE SubSeq(Lua!regs, Lua!ins.a + 1, Lua!ins.a + Lua!ins.b - 1))
              = W(stack, Reg(ins.a) + 1, ArgCount)
<1>1. /\ FramesInvariant /\ Body /\ status = "run" /\ cur.proto # Nil /\ ins.op = op
      /\ cur.proto \in Protos /\ cur.pc \in DOMAIN Code[cur.proto] /\ ins = Code[cur.proto][cur.pc]
      /\ Orderly(Live, Held, cur.proto, cur.pc) /\ cur.free = Live[cur.proto][cur.pc] /\ cur.free \in Nat
      /\ Lua!ins = ins /\ (Consumes(cur.proto, cur.pc) <=> ins.b = 0)
  BY Finding
<1>2. ins.a \in 1..cur.free /\ ins.a + ins.b - 1 <= cur.free
  BY <1>1 DEF Orderly
<1>3. PICK b \in Nat : b = ins.b
  BY <1>1, CodeAssumption
<1>4. PICK a \in Nat, n \in Nat : a = ins.a /\ n = cur.free /\ a \in 1..n /\ a + b - 1 <= n
  BY <1>1, <1>2, <1>3
<1>5. PICK k \in Int : k = cur.base /\ stack \in Seq(Value) /\ k >= 1 /\ \A r \in Int : Reg(r) = k + r - 1
  BY <1>1, Rooms
<1>13. a >= 1 /\ a <= n /\ a + b - 1 <= n /\ k >= 1
  <2>1. a >= 1 /\ a <= n /\ a + b - 1 <= n
    BY <1>4
  <2> QED BY <1>5, <2>1
<1>14. \A r \in Int : Reg(r) = k + r - 1
  BY <1>5
<1>6. PICK f \in Int : f = k + a - 1 /\ f >= 1
  BY <1>13
<1>7. PICK t \in Int : t = top
  BY <1>1 DEF Body
<1>8. Reg(ins.a) = f
  <2>1. Reg(a) = f
    BY <1>6, <1>14
  <2> QED BY <1>4, <2>1
<1>9. Lua!cur.more = Pending /\ Lua!regs = W(stack, k, n)
  BY <1>1, <1>4, <1>5, Sees
<1>10. /\ Pending = IF b = 0 THEN W(stack, k + n, t - k - n) ELSE <<>>
       /\ (b = 0 => t >= k + n)
  BY <1>1, <1>3, <1>4, <1>5, <1>7, Finds
<1>11. CASE b = 0
  <2>1. t - f - 1 \in Nat /\ t >= k + n
    BY <1>4, <1>6, <1>10, <1>11
  <2>2. PICK m \in Nat : m = t - f - 1
    BY <2>1
  <2>3. ArgCount = m
    <3>1. t - (f + 1) = m
      BY <2>2
    <3>2. ArgCount = Max({0, m})
      BY <1>3, <1>7, <1>8, <1>11, <3>1 DEF ArgCount
    <3> QED BY <3>2, MaxOfTwo
  <2>4. PICK h \in Int, i \in Int, j \in Nat, e \in Nat : h = f + 1 /\ i = a + 1 /\ j = n - a /\ e = t - k - n
    BY <1>13, <2>1
  <2>5. From(W(stack, k, n), i) = W(stack, h, j)
    <3>1. h = k + i - 1 /\ i >= 1
      BY <1>13, <1>6, <2>4
    <3>2. j = n - i + 1
      BY <2>4
    <3>3. Suffix(k, n, i, h, j)
      BY <3>1, <3>2 DEF Suffix
    <3>4. i >= 1 /\ stack \in Seq(Value)
      BY <1>5, <3>1
    <3> QED BY <3>3, <3>4, WFrom
  <2>6. W(stack, h, j) \o W(stack, k + n, e) = W(stack, h, m)
    <3>1. h + j = k + n /\ j + e = m
      BY <1>6, <2>2, <2>4
    <3>2. W(stack, h, j) \o W(stack, h + j, e) = W(stack, h, j + e)
      BY <1>5, WJoin, ZenonT(60) DEF Joined
    <3> QED BY <3>1, <3>2
  <2>7. From(Lua!regs, i) \o Lua!cur.more = W(stack, h, m)
    BY <1>9, <1>10, <1>11, <2>4, <2>5, <2>6
  <2>8. Lua!From(Lua!regs, Lua!ins.a + 1) = From(Lua!regs, i)
    BY <1>1, <1>4, <2>4 DEF Lua!From, From
  <2> QED BY <1>1, <1>2, <1>3, <1>6, <1>8, <1>11, <2>3, <2>4, <2>7, <2>8
<1>12. CASE b # 0
  <2>1. PICK m \in Nat : m = b - 1
    BY <1>12
  <2>2. ArgCount = m
    BY <1>3, <1>12, <2>1 DEF ArgCount
  <2>3. PICK i \in Int, j \in Int : i = a + 1 /\ j = a + b - 1 /\ i >= 1 /\ j <= n /\ j - i + 1 = m
    BY <1>4, <2>1
  <2>4. SubSeq(Lua!regs, i, j) = W(stack, Reg(i), j - i + 1)
    BY <1>1, <1>4, <2>3, RegsPart
  <2>5. Reg(i) = f + 1
    BY <1>6, <1>14, <2>3
  <2>6. SubSeq(Lua!regs, Lua!ins.a + 1, Lua!ins.a + Lua!ins.b - 1) = W(stack, f + 1, m)
    <3>1. Lua!ins.a + 1 = i /\ Lua!ins.a + Lua!ins.b - 1 = j
      BY <1>1, <1>3, <1>4, <2>3
    <3> QED BY <2>3, <2>4, <2>5, <3>1
  <2> QED BY <1>1, <1>2, <1>3, <1>6, <1>8, <1>12, <2>2, <2>6
<1> QED BY <1>11, <1>12

\* The stack and the arguments when a callable table has become the first of them.
LEMMA ArgumentsAre ==
    ASSUME StackInvariant, Calling, Compiled(Live, Held), NEW op \in {"CALL", "TAILCALL"}, At(op)
    PROVE  /\ Arity \in Nat /\ WithHandler \in Seq(Value) /\ Agree(stack, WithHandler, Reg(ins.a))
           /\ Lua!Arguments = W(WithHandler, Reg(ins.a) + 1, Arity)
           /\ Lua!regs[Lua!ins.a] = R(ins.a) /\ Reg(ins.a) \in Int
<1>1. /\ Body /\ status = "run" /\ cur.proto # Nil /\ Lua!ins = ins /\ stack \in Seq(Value)
  BY Finding DEF Body
<1>2. PICK f \in Int : f = Reg(ins.a)
  BY PlainArguments
<1>3. PICK m \in Nat : m = ArgCount
  BY PlainArguments
<1>4. PICK g : g = (IF Lua!ins.b = 0 THEN Lua!From(Lua!regs, Lua!ins.a + 1) \o Lua!cur.more
                    ELSE SubSeq(Lua!regs, Lua!ins.a + 1, Lua!ins.a + Lua!ins.b - 1))
  OBVIOUS
<1>5. g = W(stack, f + 1, m) /\ f >= 1 /\ ins.a \in 1..cur.free
  BY <1>2, <1>3, <1>4, PlainArguments
<1>6. Lua!regs[ins.a] = R(ins.a)
  BY <1>1, <1>5, RegisterIs
<1>7. R(ins.a) = Slot(stack, f)
  BY <1>2 DEF R
<1>8. CASE R(ins.a) # Obj
  <2>1. WithHandler = stack /\ Arity = m
    BY <1>3, <1>8 DEF WithHandler, Arity
  <2>2. Lua!Arguments = <<>> \o g
    BY <1>1, <1>4, <1>6, <1>8 DEF Lua!Arguments
  <2>3. <<>> \o g = g
    <3>1. g \in Seq(Value)
      BY <1>1, <1>5, WIsList
    <3> QED BY <3>1, ConcatEmptySeq
  <2>4. Agree(stack, stack, f)
    BY DEF Agree
  <2> QED BY <1>1, <1>2, <1>5, <1>6, <2>1, <2>2, <2>3, <2>4
<1>9. CASE R(ins.a) = Obj
  <2>1. PICK w : w = W(stack, f, m + 1)
    OBVIOUS
  <2>2. w \in Seq(Value) /\ Len(w) = m + 1 /\ \A i \in 1..m + 1 : w[i] = Slot(stack, f + i - 1)
    BY <1>1, <2>1, WIsList
  <2>3. Lua!Arguments = <<Obj>> \o g
    BY <1>1, <1>4, <1>6, <1>9 DEF Lua!Arguments
  <2>4. <<Obj>> \o g = w
    <3>1. W(stack, f, 1) = <<Slot(stack, f)>>
      BY <1>1, WOne
    <3>2. W(stack, f, 1) \o W(stack, f + 1, m) = W(stack, f, 1 + m)
      BY <1>1, WJoin DEF Joined
    <3>3. 1 + m = m + 1
      OBVIOUS
    <3> QED BY <1>5, <1>7, <1>9, <2>1, <3>1, <3>2, <3>3
  <2>5. PICK vs : vs = <<Fun>> \o w
    OBVIOUS
  <2>6. vs \in Seq(Value) /\ Len(vs) = m + 2 /\ \A i \in 1..m + 1 : vs[i + 1] = w[i]
    <3>1. PICK o : o = <<Fun>>
      OBVIOUS
    <3>2. o \in Seq(Value) /\ Len(o) = 1
      BY <3>1 DEF Value
    <3>3. PICK z : z = o \o w
      OBVIOUS
    <3>4. z \in Seq(Value) /\ Len(z) = 1 + (m + 1) /\ \A q \in 1..1 + (m + 1) : z[q] = IF q <= 1 THEN o[q] ELSE w[q - 1]
      <4>1. /\ o \o w \in Seq(Value) /\ Len(o \o w) = Len(o) + Len(w)
            /\ \A q \in 1..Len(o) + Len(w) : (o \o w)[q] = IF q <= Len(o) THEN o[q] ELSE w[q - Len(o)]
        <5>1. w \in Seq(Value) /\ o \in Seq(Value)
          BY <2>2, <3>2
        <5> QED BY <5>1, ConcatProperties
      <4> QED BY <2>2, <3>2, <3>3, <4>1
    <3>5. ASSUME NEW i \in 1..m + 1 PROVE z[i + 1] = w[i]
      <4>1. i + 1 \in 1..1 + (m + 1) /\ ~ (i + 1 <= 1) /\ (i + 1) - 1 = i
        OBVIOUS
      <4> QED BY <3>4, <4>1
    <3>6. 1 + (m + 1) = m + 2
      OBVIOUS
    <3> QED BY <2>5, <3>1, <3>3, <3>4, <3>5, <3>6
  <2>7. PICK t : t = Put(Grow(stack, f + m + 1), f, vs)
    OBVIOUS
  <2>8. WithHandler = t /\ Arity = m + 1
    <3>1. Window(stack, f, m + 1) = w
      BY <1>1, <1>5, <2>1, WindowIs
    <3> QED BY <1>2, <1>3, <1>9, <2>5, <2>7, <3>1 DEF WithHandler, Arity
  <2>9. t \in Seq(Value) /\ Agree(stack, t, f) /\ W(t, f, Len(vs)) = vs
    <3>1. PICK e \in Int : e = f + m + 1 /\ f + (m + 2) - 1 <= e
      OBVIOUS
    <3>2. f + Len(vs) - 1 <= e
      BY <2>6, <3>1
    <3>3. t = Put(Grow(stack, e), f, vs)
      BY <2>7, <3>1
    <3> QED BY <1>1, <1>5, <2>6, <3>2, <3>3, PutGrown
  <2>10. W(t, f + 1, m + 1) = w
    <3>1. W(t, f, m + 2) = vs
      BY <2>6, <2>9
    <3>2. ASSUME NEW i \in 1..m + 1 PROVE Slot(t, f + 1 + i - 1) = Slot(stack, f + i - 1)
      <4>1. i + 1 \in 1..m + 2 /\ f + 1 + i - 1 = f + (i + 1) - 1
        OBVIOUS
      <4>2. W(t, f, m + 2)[i + 1] = Slot(t, f + (i + 1) - 1)
        BY <2>9, <4>1, WIsList
      <4> QED BY <2>2, <2>6, <3>1, <4>1, <4>2
    <3>3. PICK h \in Int, n \in Nat : h = f + 1 /\ n = m + 1
      OBVIOUS
    <3>4. \A i \in 1..n : Slot(t, h + i - 1) = Slot(stack, f + i - 1)
      BY <3>2, <3>3
    <3>5. W(t, h, n) = W(stack, f, n)
      BY <3>4 DEF W
    <3> QED BY <2>1, <3>3, <3>5
  <2> QED BY <1>1, <1>2, <1>6, <2>3, <2>4, <2>8, <2>9, <2>10
<1> QED BY <1>8, <1>9

\* Where the callee lies, and the iterator's copy.
LEMMA CalleeAt ==
    ASSUME StackInvariant, Calling, Compiled(Live, Held), NEW op \in {"CALL", "TAILCALL", "TFORLOOP"}, At(op)
    PROVE  \E f \in Int : /\ f = cur.base + Stays(ins) /\ f >= 1 /\ Stays(ins) \in Nat
                          /\ f = IF op = "TFORLOOP" THEN Reg(ins.a) + 3 ELSE Reg(ins.a)
<1>1. /\ status = "run" /\ cur.proto # Nil /\ ins.op = op
      /\ cur.proto \in Protos /\ cur.pc \in DOMAIN Code[cur.proto] /\ ins = Code[cur.proto][cur.pc]
  BY Finding
<1>2. ins.a \in Nat /\ ins.a >= 1
  BY <1>1, CodeAssumption
<1>3. PICK b \in Int : b = cur.base /\ b >= 1 /\ \A r \in Int : Reg(r) = b + r - 1
  BY <1>1, Rooms
<1>4. PICK a \in Nat : a = ins.a /\ a >= 1
  BY <1>2
<1>5. Reg(ins.a) = b + a - 1 /\ b >= 1 /\ a >= 1
  <2>1. Reg(a) = b + a - 1
    BY <1>3
  <2> QED BY <1>3, <1>4, <2>1
<1>6. CASE op = "TFORLOOP"
  <2>1. Stays(ins) = a + 2
    BY <1>1, <1>4, <1>6 DEF Stays
  <2>2. PICK f \in Int : f = b + (a + 2)
    OBVIOUS
  <2>3. f = (b + a - 1) + 3 /\ f >= 1
    BY <1>5, <2>2
  <2> QED BY <1>3, <1>5, <1>6, <2>1, <2>2, <2>3
<1>7. CASE op # "TFORLOOP"
  <2>1. Stays(ins) = a - 1 /\ a - 1 \in Nat
    BY <1>1, <1>4, <1>7 DEF Stays
  <2>2. PICK f \in Int : f = b + (a - 1)
    OBVIOUS
  <2>3. f = b + a - 1 /\ f >= 1
    BY <1>5, <2>2
  <2> QED BY <1>3, <1>5, <1>7, <2>1, <2>2, <2>3
<1> QED BY <1>6, <1>7

LEMMA CallIs ==
    ASSUME StackInvariant, StackInvariant', Calling, Compiled(Live, Held), ~ IteratorYields, Call
    PROVE  Calling' /\ (Lua!Call \/ Lua!Fail)
<1>1. At("CALL") /\ thread' = thread
  BY DEF Call
<1>2. status = "run" /\ cur.proto # Nil /\ Lua!At("CALL") /\ Lua!ins = ins /\ ins.op = "CALL"
  BY <1>1, Finding
<1>3. PICK n, fs : n = Stays(ins) /\ fs = Goto(cur.pc, n)
  OBVIOUS
<1>4. n = ins.a - 1
  BY <1>2, <1>3 DEF Stays
<1>5. PICK f \in Int : f = cur.base + n /\ f = Reg(ins.a)
  <2>1. PICK o : o = "CALL"
    OBVIOUS
  <2>2. o \in {"CALL", "TAILCALL", "TFORLOOP"} /\ At(o) /\ o # "TFORLOOP"
    BY <1>1, <2>1
  <2> QED BY <1>3, <2>2, CalleeAt
<1>6. f = cur.base + n
  BY <1>5
<1>7. CASE R(ins.a) = Nil
  <2>1. Throw(stack, ups, fs)
    BY <1>3, <1>4, <1>7 DEF Call
  <2>2. Agree(stack, stack, f)
    BY DEF Agree
  <2>3. Invoking(stack, ups, fs, Homes, n)
    <3>1. PICK o : o = "CALL"
      OBVIOUS
    <3>2. o \in {"CALL", "TAILCALL", "TFORLOOP"} /\ At(o)
      BY <1>1, <3>1
    <3>3. stack \in Seq(Value)
      BY DEF StackInvariant, Body
    <3> QED BY <1>3, <1>6, <2>2, <3>2, <3>3, AtCall
  <2> QED BY <1>1, <1>2, <2>1, <2>3, InvokeFails
<1>8. CASE R(ins.a) # Nil
  <2>1. PICK s : s = WithHandler
    OBVIOUS
  <2>2. PICK m \in Nat : m = Arity
    BY <1>1, ArgumentsAre
  <2>3. /\ s \in Seq(Value) /\ Agree(stack, s, f) /\ Lua!Arguments = W(s, f + 1, m)
        /\ Lua!regs[Lua!ins.a] = R(ins.a)
    BY <1>1, <1>5, <2>1, <2>2, ArgumentsAre
  <2>4. PICK c : c = fs[Len(fs)]
    OBVIOUS
  <2>5. Invoking(s, ups, fs, Homes, n) /\ Want(c) = Takes(ins) /\ Cont(c) = 0
    <3>1. PICK o : o = "CALL"
      OBVIOUS
    <3>2. o \in {"CALL", "TAILCALL", "TFORLOOP"} /\ At(o) /\ o # "TFORLOOP"
      BY <1>1, <3>1
    <3> QED BY <1>3, <1>6, <2>3, <2>4, <3>2, AtCall
  <2>6. Takes(ins) = ins.c - 1
    BY <1>2 DEF Takes
  <2>7. Enter(s, ups, fs, f, m, Want(c), Cont(c))
    BY <1>3, <1>4, <1>5, <1>8, <2>1, <2>2, <2>5, <2>6 DEF Call
  <2>8. /\ Calling'
        /\ \/ Lua!Fail
           \/ /\ Lua!Enter(Lua!Waiting(n), W(s, f + 1, m))
              /\ Homes' = Homes /\ Contents' = Contents /\ Used' = Used /\ Final' = Final
    BY <1>1, <1>2, <1>6, <2>4, <2>5, <2>7, InvokeIs
  <2> QED BY <1>2, <1>4, <1>8, <2>3, <2>8 DEF Lua!Call
<1> QED BY <1>7, <1>8

LEMMA ForCallIs ==
    ASSUME StackInvariant, StackInvariant', Calling, Compiled(Live, Held), ~ IteratorYields, ForCall
    PROVE  Calling' /\ (Lua!ForCall \/ Lua!Fail)
<1>1. At("TFORLOOP") /\ thread' = thread
  BY DEF ForCall
<1>2. /\ status = "run" /\ cur.proto # Nil /\ Lua!At("TFORLOOP") /\ Lua!ins = ins /\ ins.op = "TFORLOOP"
      /\ stack \in Seq(Value) /\ cur.free \in Nat /\ cur.free = Live[cur.proto][cur.pc]
      /\ cur.proto \in Protos /\ cur.pc \in DOMAIN Code[cur.proto] /\ ins = Code[cur.proto][cur.pc]
      /\ Orderly(Live, Held, cur.proto, cur.pc)
  BY <1>1, Finding DEF Body
<1>3. PICK o : o = "TFORLOOP"
  OBVIOUS
<1>4. o \in {"CALL", "TAILCALL", "TFORLOOP"} /\ At(o)
  BY <1>1, <1>3
<1>5. PICK n, fs, c : n = Stays(ins) /\ fs = Goto(cur.pc, n) /\ c = fs[Len(fs)]
  OBVIOUS
<1>6. n = ins.a + 2
  BY <1>2, <1>5 DEF Stays
<1>7. PICK f \in Int : f = cur.base + n /\ f >= 1 /\ f = Reg(ins.a) + 3
  BY <1>3, <1>4, <1>5, CalleeAt
<1>8. f = cur.base + n
  BY <1>7
<1>15. PICK b \in Int : b = cur.base /\ b >= 1 /\ \A r \in Int : Reg(r) = b + r - 1
  BY <1>2, Rooms
<1>16. PICK a \in Nat : a = ins.a /\ a >= 1 /\ a + 2 <= cur.free
  <2>1. ins.a \in Nat
    BY <1>2, CodeAssumption
  <2>2. ins.a >= 1 /\ ins.a + 2 <= cur.free
    BY <1>2 DEF Orderly
  <2> QED BY <2>1, <2>2
<1>17. a >= 1 /\ a + 2 <= cur.free /\ b >= 1
  <2>1. a >= 1 /\ a + 2 <= cur.free
    BY <1>16
  <2> QED BY <1>15, <2>1
<1>9. PICK k \in Int : k = Reg(ins.a) /\ k >= 1 /\ k = b + a - 1
  <2>1. Reg(a) = b + a - 1
    BY <1>15
  <2>2. PICK k \in Int : k = b + a - 1 /\ k >= 1
    BY <1>17
  <2> QED BY <1>16, <2>1, <2>2
<1>10. f = k + 3
  BY <1>7, <1>9
<1>11. Agree(stack, stack, f)
  BY DEF Agree
<1>12. ASSUME NEW s \in Seq(Value), Agree(stack, s, f)
       PROVE  Invoking(s, ups, fs, Homes, n) /\ Want(c) = Takes(ins) /\ Cont(c) = cur.base + ins.a - 1
  BY <1>3, <1>4, <1>5, <1>8, <1>12, AtCall
<1>13. CASE Slot(stack, k) # Fun
  <2>1. Throw(stack, ups, fs)
    BY <1>5, <1>6, <1>9, <1>13 DEF ForCall
  <2> QED BY <1>1, <1>2, <1>11, <1>12, <2>1, InvokeFails
<1>14. CASE Slot(stack, k) = Fun
  <2>1. PICK s : s = Put(Grow(stack, k + 5), k + 3, Window(stack, k, 3))
    OBVIOUS
  <2>2. s \in Seq(Value) /\ Agree(stack, s, f) /\ W(s, f, 3) = W(stack, k, 3)
    <3>1. PICK w : w = W(stack, k, 3)
      OBVIOUS
    <3>2. w \in Seq(Value) /\ Len(w) = 3
      <4>1. PICK m \in Int : m = 3
        OBVIOUS
      <4>2. W(stack, k, m) \in Seq(Value) /\ Len(W(stack, k, m)) = IF m > 0 THEN m ELSE 0
        BY <1>2, WIsList
      <4> QED BY <3>1, <4>1, <4>2
    <3>3. Window(stack, k, 3) = w
      BY <1>2, <1>9, <3>1, WindowIs
    <3>4. PICK e \in Int, h \in Int : e = k + 5 /\ h = k + 3 /\ h + 3 - 1 <= e /\ h >= 1
      BY <1>9
    <3>5. s = Put(Grow(stack, e), h, w) /\ h + Len(w) - 1 <= e
      BY <2>1, <3>2, <3>3, <3>4
    <3>6. h >= 1
      BY <3>4
    <3>7. s \in Seq(Value) /\ Agree(stack, s, h) /\ W(s, h, Len(w)) = w
      <4>1. stack \in Seq(Value) /\ w \in Seq(Value)
        BY <1>2, <3>2
      <4> QED BY <3>5, <3>6, <4>1, PutGrown
    <3>8. h = f
      BY <1>10, <3>4
    <3> QED BY <3>1, <3>2, <3>7, <3>8
  <2>3. W(s, f + 1, 2) = SubSeq(Lua!regs, Lua!ins.a + 1, Lua!ins.a + 2)
    <3>1. ASSUME NEW i \in 1..2 PROVE Slot(s, f + 1 + i - 1) = Slot(stack, k + 1 + i - 1)
      <4>1. i + 1 \in 1..3 /\ f + 1 + i - 1 = f + (i + 1) - 1 /\ k + 1 + i - 1 = k + (i + 1) - 1
        BY <1>9
      <4>2. W(s, f, 3)[i + 1] = Slot(s, f + (i + 1) - 1) /\ W(stack, k, 3)[i + 1] = Slot(stack, k + (i + 1) - 1)
        BY <1>2, <2>2, <4>1 DEF W
      <4> QED BY <2>2, <4>1, <4>2
    <3>2. PICK g \in Int, h \in Int : g = f + 1 /\ h = k + 1
      OBVIOUS
    <3>3. W(s, g, 2) = W(stack, h, 2)
      BY <3>1, <3>2 DEF W
    <3>4. PICK i \in Int, j \in Int : i = a + 1 /\ j = a + 2 /\ i >= 1 /\ j <= cur.free /\ j - i + 1 = 2
      BY <1>17
    <3>5. SubSeq(Lua!regs, i, j) = W(stack, Reg(i), j - i + 1)
      BY <1>2, <3>4, RegsPart
    <3>6. Reg(i) = h
      <4>1. Reg(i) = b + i - 1
        BY <1>15
      <4> QED BY <1>9, <3>2, <3>4, <4>1
    <3> QED BY <1>2, <1>16, <3>2, <3>3, <3>4, <3>5, <3>6
  <2>4. Takes(ins) = ins.c /\ cur.base + ins.a - 1 = k
    BY <1>2, <1>9, <1>15, <1>16 DEF Takes
  <2>5. Enter(s, ups, fs, f, 2, Want(c), Cont(c))
    BY <1>5, <1>6, <1>9, <1>10, <1>12, <1>14, <2>1, <2>2, <2>4 DEF ForCall
  <2>6. /\ Calling'
        /\ \/ Lua!Fail
           \/ /\ Lua!Enter(Lua!Waiting(n), W(s, f + 1, 2))
              /\ Homes' = Homes /\ Contents' = Contents /\ Used' = Used /\ Final' = Final
    <3>1. PICK m \in Nat : m = 2
      OBVIOUS
    <3>2. Enter(s, ups, fs, f, m, Want(c), Cont(c)) /\ Invoking(s, ups, fs, Homes, n) /\ c = fs[Len(fs)]
      BY <1>5, <1>12, <2>2, <2>5, <3>1
    <3>3. /\ Calling'
          /\ \/ Lua!Fail
             \/ /\ Lua!Enter(Lua!Waiting(n), W(s, f + 1, m))
                /\ Homes' = Homes /\ Contents' = Contents /\ Used' = Used /\ Final' = Final
      BY <1>1, <1>2, <1>8, <3>2, InvokeIs
    <3> QED BY <3>1, <3>3
  <2>7. Lua!regs[Lua!ins.a] = Fun
    <3>1. a \in 1..cur.free
      BY <1>2, <1>17
    <3>2. Lua!regs[a] = R(a)
      BY <1>2, <3>1, RegisterIs
    <3>3. R(a) = Slot(stack, k)
      BY <1>9, <1>16 DEF R
    <3> QED BY <1>2, <1>14, <1>16, <3>2, <3>3
  <2> QED BY <1>2, <1>6, <2>3, <2>6, <2>7 DEF Lua!ForCall
<1> QED BY <1>13, <1>14

\* The slots of the arguments exist.
LEMMA ArgumentsFit ==
    ASSUME StackInvariant, Calling, Compiled(Live, Held), NEW op \in {"CALL", "TAILCALL"}, At(op)
    PROVE  Reg(ins.a) + Arity <= Len(WithHandler) /\ Reg(ins.a) >= cur.base
<1>1. /\ Body /\ status = "run" /\ cur.proto # Nil /\ stack \in Seq(Value) /\ ins.op = op
      /\ cur.proto \in Protos /\ cur.pc \in DOMAIN Code[cur.proto] /\ ins = Code[cur.proto][cur.pc]
      /\ Orderly(Live, Held, cur.proto, cur.pc) /\ cur.free = Live[cur.proto][cur.pc] /\ cur.free \in Nat
  BY Finding DEF Body
<1>2. ins.a \in 1..cur.free /\ ins.a + ins.b - 1 <= cur.free
  BY <1>1 DEF Orderly
<1>3. PICK e \in Nat : e = ins.b
  BY <1>1, CodeAssumption
<1>4. PICK a \in Nat, n \in Nat : a = ins.a /\ n = cur.free /\ a \in 1..n /\ a + e - 1 <= n
  BY <1>1, <1>2, <1>3
<1>5. PICK b \in Int, l \in Nat, q \in Nat :
         /\ b = cur.base /\ l = Len(stack) /\ n <= q /\ b + q - 1 <= l /\ b >= 1
         /\ \A r \in Int : Reg(r) = b + r - 1
  <2>1. PICK b \in Int, x \in Nat, l \in Nat, q \in Nat :
         /\ b = cur.base /\ x = cur.free /\ l = Len(stack) /\ q = Room[cur.proto]
         /\ b >= 1 /\ x <= q /\ b + q - 1 <= l
         /\ \A r \in Int : Reg(r) = b + r - 1
    BY <1>1, Rooms
  <2>2. x = n
    BY <1>4, <2>1
  <2> QED BY <2>1, <2>2
<1>6. a >= 1 /\ a <= n /\ a + e - 1 <= n
  BY <1>4
<1>7. n <= q /\ b + q - 1 <= l
  BY <1>5
<1>8. PICK f \in Int : f = b + a - 1 /\ f >= b
  BY <1>6
<1>9. Reg(ins.a) = f
  <2>1. Reg(a) = f
    BY <1>5, <1>8
  <2> QED BY <1>4, <2>1
<1>10. PICK t \in Int : t = top /\ t <= l + 1
  <2>1. top \in 1..l + 1
    BY <1>1, <1>5 DEF Body
  <2> QED BY <2>1
<1>11. PICK m \in Nat : m = ArgCount
  BY PlainArguments
<1>12. f + m <= l
  <2>1. CASE e = 0
    <3>1. PICK x \in Int : x = t - (f + 1)
      BY <1>8
    <3>2. m = Max({0, x})
      BY <1>3, <1>9, <1>10, <1>11, <2>1, <3>1 DEF ArgCount
    <3>3. m = IF 0 >= x THEN 0 ELSE x
      BY <3>2, MaxOfTwo
    <3>4. f <= l /\ f + x <= l
      BY <1>6, <1>7, <1>8, <1>10, <3>1
    <3> QED BY <3>3, <3>4
  <2>2. CASE e # 0
    <3>1. m = e - 1
      BY <1>3, <1>11, <2>2 DEF ArgCount
    <3> QED BY <1>6, <1>7, <1>8, <2>2, <3>1
  <2> QED BY <2>1, <2>2
<1>13. PICK s : s = WithHandler
  OBVIOUS
<1>14. CASE R(ins.a) # Obj
  <2>1. s = stack /\ Arity = m
    BY <1>11, <1>13, <1>14 DEF WithHandler, Arity
  <2> QED BY <1>5, <1>8, <1>9, <1>12, <1>13, <2>1
<1>15. CASE R(ins.a) = Obj
  <2>1. Arity = m + 1
    BY <1>11, <1>15 DEF Arity
  <2>2. PICK vs : vs = <<Fun>> \o Window(stack, f, m + 1)
    OBVIOUS
  <2>5. PICK y \in Int : y = f + m + 1
    OBVIOUS
  <2>3. s = Put(Grow(stack, y), f, vs)
    BY <1>9, <1>11, <1>13, <1>15, <2>2, <2>5 DEF WithHandler
  <2>4. Len(s) = Len(Grow(stack, y)) /\ Len(Grow(stack, y)) >= y
    <3>1. Grow(stack, y) \in Seq(Value) /\ Len(Grow(stack, y)) = IF y > Len(stack) THEN y ELSE Len(stack)
      BY <1>1, GrowLaid
    <3>2. PICK g \in Seq(Value) : g = Grow(stack, y)
      BY <3>1
    <3>3. vs \in Seq(Value)
      <4>1. Window(stack, f, m + 1) \in Seq(Value)
        <5>1. PICK j \in Int : j = m + 1
          OBVIOUS
        <5>2. f >= 1
          <6>1. b >= 1
            BY <1>5
          <6>2. f >= b
            BY <1>8
          <6> QED BY <6>1, <6>2
        <5>3. Window(stack, f, j) = W(stack, f, j) /\ W(stack, f, j) \in Seq(Value)
          BY <1>1, <5>2, WindowIs, WIsList
        <5> QED BY <5>1, <5>3
      <4>2. <<Fun>> \in Seq(Value)
        BY DEF Value
      <4> QED BY <2>2, <4>1, <4>2
    <3>4. Len(Put(g, f, vs)) = Len(g)
      BY <3>3, PutLaid
    <3>5. Len(g) >= y
      <4>1. Len(stack) \in Nat
        BY <1>1
      <4> QED BY <3>1, <3>2, <4>1
    <3> QED BY <2>3, <3>2, <3>4, <3>5
  <2> QED BY <1>5, <1>8, <1>9, <1>13, <2>1, <2>5, <2>4
<1> QED BY <1>14, <1>15

\* The arguments moved to the slots from b on.
LEMMA MovedIs ==
    ASSUME NEW s \in Seq(Value), NEW f \in Int, NEW b \in Int, b >= 1, b <= f, NEW n \in Nat,
           f + n <= Len(s), NEW t, t = Put(s, b, Window(s, f + 1, n))
    PROVE  t \in Seq(Value) /\ Agree(s, t, b) /\ W(t, b, n) = W(s, f + 1, n)
<1>1. PICK vs : vs = W(s, f + 1, n)
  OBVIOUS
<1>2. PICK h \in Int : h = f + 1 /\ h >= 1
  OBVIOUS
<1>3. vs \in Seq(Value) /\ Len(vs) = n
  <2>1. W(s, h, n) \in Seq(Value) /\ Len(W(s, h, n)) = IF n > 0 THEN n ELSE 0
    BY WIsList
  <2> QED BY <1>1, <1>2, <2>1
<1>4. t = Put(s, b, vs)
  <2>1. Window(s, h, n) = W(s, h, n)
    BY <1>2, WindowIs
  <2> QED BY <1>1, <1>2, <2>1
<1>5. t \in Seq(Value)
  BY <1>3, <1>4, PutLaid
<1>6. W(t, b, n) = vs
  <2>1. b + Len(vs) - 1 <= Len(s)
    <3>1. PICK l \in Int : l = Len(s) /\ f + n <= l
      OBVIOUS
    <3>2. b + n - 1 <= l
      BY <3>1
    <3> QED BY <1>3, <3>1, <3>2
  <2>2. W(Put(s, b, vs), b, Len(vs)) = vs
    BY <1>3, <2>1, WPut
  <2> QED BY <1>3, <1>4, <2>2
<1>7. Agree(s, t, b)
  <2>1. ASSUME NEW j \in Int, j < b PROVE Slot(t, j) = Slot(s, j)
    <3>1. ~ (j \in b..b + Len(vs) - 1)
      BY <2>1
    <3> QED BY <1>3, <1>4, <3>1, PutSlot
  <2> QED BY <2>1 DEF Agree
<1> QED BY <1>1, <1>5, <1>6, <1>7

LEMMA WipeBelow ==
    ASSUME NEW s \in Seq(Value), NEW lo \in Int, NEW hi, NEW j \in Int, j < lo
    PROVE  Slot(Wipe(s, lo, hi), j) = Slot(s, j)
<1>1. ~ (j \in lo..hi)
  OBVIOUS
<1> QED BY <1>1 DEF Wipe, Slot

\* The stack of a function that replaces its caller: b is its first register.
TailStack(s, f, b, n, p, hi) ==
    Put(Wipe(Prepared(Put(s, b, Window(s, f + 1, n)), b, n, p), b + Room[p], hi), b - 1, <<Fun>>)

LEMMA TailStackIs ==
    ASSUME NEW s \in Seq(Value), NEW f \in Int, NEW b \in Int, b >= 1, b <= f, NEW n \in Nat,
           f + n <= Len(s), NEW p \in Protos, NEW hi,
           NEW t, t = TailStack(s, f, b, n, p, hi), NEW m, m = Put(s, b, Window(s, f + 1, n))
    PROVE  /\ t \in Seq(Value) /\ Agree(s, t, b - 1) /\ m \in Seq(Value)
           /\ W(t, b, Params[p]) = Adjust(W(s, f + 1, n), Params[p])
           /\ Extra(m, b, n, p) = IF p \in Variadic THEN From(W(s, f + 1, n), Params[p] + 1) ELSE <<>>
<1>1. m \in Seq(Value) /\ Agree(s, m, b) /\ W(m, b, n) = W(s, f + 1, n)
  BY MovedIs
<1>2. PICK x : x = Prepared(m, b, n, p)
  OBVIOUS
<1>3. x \in Seq(Value) /\ Agree(m, x, b) /\ W(x, b, Params[p]) = Adjust(W(s, f + 1, n), Params[p])
  <2>1. Prepares(x, m, b, n, p)
    BY <1>1, <1>2, PreparedIs
  <2> QED BY <1>1, <2>1 DEF Prepares
<1>4. PICK q \in Nat, o \in Nat : q = Params[p] /\ o = Room[p] /\ q <= o
  BY ProtoAssumption
<1>5. PICK y : y = Wipe(x, b + Room[p], hi)
  OBVIOUS
<1>6. y \in Seq(Value) /\ \A j \in Int : j < b + o => Slot(y, j) = Slot(x, j)
  <2>1. PICK lo \in Int : lo = b + o
    OBVIOUS
  <2>2. y = Wipe(x, lo, hi)
    BY <1>4, <1>5, <2>1
  <2>3. y \in Seq(Value)
    BY <1>3, <2>2, WipeLaid
  <2>4. ASSUME NEW j \in Int, j < lo PROVE Slot(y, j) = Slot(x, j)
    BY <1>3, <2>2, <2>4, WipeBelow
  <2> QED BY <2>1, <2>3, <2>4
<1>7. PICK g \in Int : g = b - 1
  OBVIOUS
<1>8. t = Put(y, g, <<Fun>>)
  BY <1>2, <1>5, <1>7 DEF TailStack
<1>9. PICK v : v = <<Fun>>
  OBVIOUS
<1>10. v \in Seq(Value) /\ Len(v) = 1
  BY <1>9 DEF Value
<1>11. t \in Seq(Value) /\ \A j \in Int : j # g => Slot(t, j) = Slot(y, j)
  <2>1. t \in Seq(Value)
    BY <1>6, <1>8, <1>9, <1>10, PutLaid
  <2>2. ASSUME NEW j \in Int, j # g PROVE Slot(t, j) = Slot(y, j)
    <3>1. ~ (j \in g..g + Len(v) - 1)
      <4>1. g + 1 - 1 = g
        OBVIOUS
      <4>2. g + Len(v) - 1 = g
        BY <1>10, <4>1
      <4>3. ~ (j \in g..g)
        BY <2>2
      <4> QED BY <4>2, <4>3
    <3>2. t = Put(y, g, v)
      BY <1>8, <1>9
    <3>3. y \in Seq(Value) /\ v \in Seq(Value)
      BY <1>6, <1>10
    <3>4. Slot(Put(y, g, v), j) = Slot(y, j)
      BY <3>1, <3>3, PutSlot
    <3> QED BY <3>2, <3>4
  <2> QED BY <2>1, <2>2
<1>12. Agree(s, t, b - 1)
  <2>1. ASSUME NEW j \in Int, j < g PROVE Slot(t, j) = Slot(s, j)
    <3>1. j # g /\ j < b /\ j < b + o
      BY <1>7, <2>1
    <3> QED BY <1>1, <1>3, <1>6, <1>11, <3>1 DEF Agree
  <2> QED BY <1>7, <2>1 DEF Agree
<1>13. W(t, b, q) = W(x, b, q)
  <2>1. \A j \in b..b + q - 1 : Slot(t, j) = Slot(x, j)
    <3>1. ASSUME NEW j \in b..b + q - 1 PROVE Slot(t, j) = Slot(x, j)
      <4>1. j \in Int /\ j # g /\ j < b + o
        BY <1>4, <1>7, SMTT(30)
      <4> QED BY <1>6, <1>11, <4>1
    <3> QED BY <3>1
  <2> QED BY <1>3, <1>11, <2>1, WAgrees
<1>14. Extra(m, b, n, p) = IF p \in Variadic THEN From(W(m, b, n), Params[p] + 1) ELSE <<>>
  BY <1>1, ExtraIs
<1> QED BY <1>1, <1>3, <1>4, <1>11, <1>12, <1>13, <1>14

\* The frame of a function that replaces its caller.
TailFrame(p, n, x) == CallInfo(p, cur.func, n, cur.base + Room[p], cur.nres, x, cur.cont)
LEMMA TailFrameIs ==
    ASSUME Compiled(Live, Held), Shape(cur), cur.base = cur.func + 1, NEW p \in Functions, NEW n,
           NEW x \in Seq(Value), NEW e, e = TailFrame(p, n, x)
    PROVE  /\ Shape(e) /\ e.proto = p /\ e.func = cur.func /\ e.base = cur.base /\ e.nres = cur.nres
           /\ e.cont = cur.cont /\ e.pc = 1 /\ e.free = Params[p] /\ e.varargs = x
           /\ e.free = Live[p][1] /\ ~ Consumes(p, 1) /\ p # Nil /\ p \in Protos
<1>1. p \in Protos /\ p # Nil
  BY ProtoAssumption DEF Protos
<1>2. PICK q \in Nat : q = Params[p] /\ q <= Room[p]
  BY <1>1, ProtoAssumption
<1>3. 1 \in DOMAIN Code[p] /\ Live[p][1] = Params[p] /\ ~ Consumes(p, 1)
  <2>1. PICK o : o = FALSE
    OBVIOUS
  <2>2. Leads(Live, Held, p, 1, Params[p], {}, o)
    BY <1>1, <2>1 DEF Compiled
  <2> QED BY <2>1, <2>2 DEF Leads
<1>4. PICK b \in Int, f \in Int, w \in Int, o \in Int :
         b = cur.base /\ f = cur.func /\ w = cur.nres /\ o = cur.cont /\ f <= b
  BY DEF Shape
<1>5. b = f + 1
  BY <1>4
<1>6. PICK ct : ct = cur.base + Room[p]
  OBVIOUS
<1>7. e = [proto |-> p, func |-> f, base |-> b, nargs |-> n, ctop |-> ct, nres |-> w, varargs |-> x,
           cont |-> o, pc |-> 1, free |-> q]
  BY <1>1, <1>2, <1>4, <1>5, <1>6 DEF TailFrame, CallInfo
<1>8. Shape(e)
  <2>1. f <= b
    BY <1>4
  <2> QED BY <1>1, <1>2, <1>3, <1>7, <2>1 DEF Shape
<1> QED BY <1>1, <1>2, <1>3, <1>4, <1>7, <1>8

\* A Lua function that is called last takes its caller's place.
LEMMA ReplaceIs ==
    ASSUME StackInvariant, StackInvariant', Calling, Compiled(Live, Held), status = "run", status' = "run",
           cur.proto # Nil, thread' = thread, cur.func # cur.base,
           NEW s \in Seq(Value), NEW f \in Int, f >= cur.base, Agree(stack, s, f),
           NEW n \in Nat, f + n <= Len(s), CellOf(s, ups) = CellOf(stack, ups),
           NEW us, us = Closed(ups, s, cur.base), Replace(s, us, f, n)
    PROVE  \E p \in Functions :
              /\ Calling' /\ Changed(Activated', Activated, Lua!depth, Lua!Activation(p, W(s, f + 1, n)))
              /\ Homes' = Forgotten(Homes, Lua!depth, 0) /\ Contents' = Contents /\ Used' = Used /\ Final' = Final
<1>1. /\ Chain(Below, frames) /\ Housed(Below, ups, frames) /\ Shape(cur) /\ UpsOK(ups) /\ UpsShape(ups)
      /\ stack \in Seq(Value)
  BY Finds DEF StackInvariant, FramesInvariant, Body, UpsOK
<1>2. PICK d \in Nat, l \in Nat : d = Below /\ l = Len(frames) /\ l >= d + 1 /\ l \in d + 1..l /\ l \in 1..l
  BY <1>1, ChainEnds
<1>3. Chain(d, frames) /\ Housed(d, ups, frames) /\ FramesOK(frames)
  BY <1>1, <1>2 DEF Chain, Grounded
<1>4. l = Len(frames) /\ cur = frames[l]
  BY <1>2 DEF cur
<1>5. PICK b \in Int, h \in Int : b = cur.base /\ h = cur.func
  BY <1>1 DEF Shape
<1>6. b = h + 1 /\ b >= 1 /\ b <= f
  <2>1. CASE l = d + 1
    <3>1. frames[d + 1].func = 1 /\ frames[d + 1].base = d + 1 /\ d \in {0, 1}
      BY <1>3 DEF Chain, Grounded
    <3> QED BY <1>4, <1>5, <2>1, <3>1
  <2>2. CASE l # d + 1
    <3>1. l \in d + 2..Len(frames)
      BY <1>2, <2>2
    <3>2. Linked(frames, l)
      BY <1>3, <3>1 DEF Chain
    <3>3. frames[l].func >= 1
      BY <1>2, <1>3, <1>4, ChainUnder
    <3> QED BY <1>4, <1>5, <3>2, <3>3 DEF Linked
  <2> QED BY <1>5, <2>1, <2>2
<1>y. PICK p \in Functions : \E m, x :
         /\ stack' = TailStack(s, f, b, n, p, cur.ctop - 1) /\ m = Put(s, b, Window(s, f + 1, n))
         /\ x = Extra(m, b, n, p) /\ Changed(frames', frames, l, TailFrame(p, n, x)) /\ ups' = us
  <2>1. PICK p \in Functions :
          LET moved == Put(s, cur.base, Window(s, f + 1, n))
              clean == Wipe(Prepared(moved, cur.base, n, p), cur.base + Room[p], cur.ctop - 1)
          IN  /\ stack' = Put(clean, cur.func, <<Fun>>)
              /\ frames' = [frames EXCEPT ![Len(frames)] =
                   CallInfo(p, cur.func, n, cur.base + Room[p], cur.nres, Extra(moved, cur.base, n, p),
                            cur.cont)]
              /\ ups' = us
    BY DEF Replace
  <2>2. PICK m : m = Put(s, b, Window(s, f + 1, n))
    OBVIOUS
  <2>3. PICK x : x = Extra(m, b, n, p)
    OBVIOUS
  <2>4. Changed(frames', frames, l, TailFrame(p, n, x)) /\ ups' = us
    BY <1>4, <1>5, <2>1, <2>2, <2>3 DEF Changed, TailFrame
  <2>5. h = b - 1
    BY <1>6
  <2>6. stack' = TailStack(s, f, b, n, p, cur.ctop - 1)
    BY <1>5, <2>1, <2>5 DEF TailStack
  <2> QED BY <2>2, <2>3, <2>4, <2>6
<1>7. PICK m, x :
         /\ stack' = TailStack(s, f, b, n, p, cur.ctop - 1) /\ m = Put(s, b, Window(s, f + 1, n))
         /\ x = Extra(m, b, n, p) /\ Changed(frames', frames, l, TailFrame(p, n, x)) /\ ups' = us
  BY <1>y
<1>8. PICK v : v = W(s, f + 1, n)
  OBVIOUS
<1>9. /\ stack' \in Seq(Value) /\ Agree(s, stack', h)
      /\ W(stack', b, Params[p]) = Adjust(v, Params[p])
      /\ x = IF p \in Variadic THEN From(v, Params[p] + 1) ELSE <<>>
  <2>1. p \in Protos
    BY DEF Protos
  <2>2. PICK hi, t : hi = cur.ctop - 1 /\ t = stack'
    OBVIOUS
  <2>3. b >= 1 /\ b <= f /\ t = TailStack(s, f, b, n, p, hi) /\ m = Put(s, b, Window(s, f + 1, n))
    BY <1>6, <1>7, <2>2
  <2>4. /\ t \in Seq(Value) /\ Agree(s, t, b - 1)
        /\ W(t, b, Params[p]) = Adjust(W(s, f + 1, n), Params[p])
        /\ Extra(m, b, n, p) = IF p \in Variadic THEN From(W(s, f + 1, n), Params[p] + 1) ELSE <<>>
    BY <2>1, <2>3, TailStackIs
  <2>5. b - 1 = h
    BY <1>6
  <2> QED BY <1>7, <1>8, <2>2, <2>4, <2>5
<1>10. PICK e : e = TailFrame(p, n, x)
  OBVIOUS
<1>11. x \in Seq(Value)
  <2>1. v \in Seq(Value)
    <3>1. PICK k \in Int : k = f + 1
      OBVIOUS
    <3>2. W(s, k, n) \in Seq(Value)
      BY WIsList
    <3> QED BY <1>8, <3>1, <3>2
  <2>2. p \in Protos /\ Params[p] \in Nat
    BY ProtoAssumption DEF Protos
  <2>3. From(v, Params[p] + 1) \in Seq(Value)
    <3>1. PICK k \in Int : k = Params[p] + 1 /\ k >= 1
      BY <2>2
    <3>2. \A i \in k..Len(v) : v[i] \in Value
      BY <2>1, <3>1
    <3>3. SubSeq(v, k, Len(v)) \in Seq(Value)
      BY <2>1, <3>2, SubSeqProperties
    <3> QED BY <3>1, <3>3 DEF From
  <2> QED BY <1>9, <2>3
<1>12. /\ Shape(e) /\ e.proto = p /\ e.func = cur.func /\ e.base = cur.base /\ e.nres = cur.nres
       /\ e.cont = cur.cont /\ e.pc = 1 /\ e.free = Params[p] /\ e.varargs = x
       /\ e.free = Live[p][1] /\ ~ Consumes(p, 1) /\ p # Nil
  BY <1>1, <1>5, <1>6, <1>10, <1>11, TailFrameIs
<1>13. PICK gs : gs = frames'
  OBVIOUS
<1>14. Chain(d, gs) /\ FramesOK(gs) /\ Len(gs) = l /\ gs[l] = e /\ \A k \in 1..l - 1 : gs[k] = frames[k]
  <2>1. Changed(gs, frames, Len(frames), e)
    BY <1>4, <1>7, <1>10, <1>13
  <2>2. /\ e.func = frames[Len(frames)].func /\ e.base = frames[Len(frames)].base
        /\ e.nres = frames[Len(frames)].nres /\ e.cont = frames[Len(frames)].cont /\ e.proto # Nil
    BY <1>4, <1>12
  <2>3. /\ Chain(d, gs) /\ FramesOK(gs) /\ Len(gs) = Len(frames) /\ gs[Len(frames)] = e
        /\ \A k \in 1..Len(frames) - 1 : gs[k] = frames[k]
    BY <1>3, <1>12, <2>1, <2>2, LastChanged
  <2> QED BY <1>4, <2>3
<1>15. /\ UpsOK(us) /\ Housed(d, us, frames) /\ HomeOf(us, frames, d) = Forgotten(HomeOf(ups, frames, d), l - d, 0)
       /\ \A u \in Upvalues : us.var[u].state = "open" =>
             ups.var[u].state = "open" /\ us.var[u].slot = ups.var[u].slot /\ us.var[u].slot < b
       /\ CellOf(s, us) = CellOf(s, ups) /\ UsedOf(us) = UsedOf(ups)
  <2>1. PICK z \in Nat : z = 0
    OBVIOUS
  <2>2. frames[l].base + z = b
    BY <1>4, <1>5, <2>1
  <2>3. ClosedFrom(us, ups, s, frames, l, z)
    BY <1>5, <2>2 DEF ClosedFrom
  <2>4. z <= frames[l].free
    BY <1>1, <1>4, <2>1 DEF Shape
  <2>5. l \in d + 1..Len(frames)
    BY <1>2
  <2>6. /\ UpsOK(us) /\ Housed(d, us, frames)
        /\ HomesFrom(HomeOf(us, frames, d), HomeOf(ups, frames, d), l, d, z)
        /\ OpenBelow(us, ups, frames, l, z)
    BY <1>1, <1>3, <2>3, <2>4, <2>5, HomeForget
  <2>7. CellOf(s, us) = CellOf(s, ups) /\ UsedOf(us) = UsedOf(ups)
    BY <1>1, <1>5, CellClosed
  <2> QED BY <2>1, <2>2, <2>6, <2>7 DEF HomesFrom, OpenBelow
<1>16. Housed(d, us, gs) /\ HomeOf(us, gs, d) = HomeOf(us, frames, d)
  <2>a. d \in Nat /\ l \in Nat /\ l >= d + 1
    BY <1>2
  <2>b. l - 1 \in Nat /\ l - 1 >= d /\ (l - 1) + 1 = l
    BY <2>a
  <2>1. PICK k \in Nat : k = l - 1 /\ k >= d /\ k + 1 = l
    BY <2>b
  <2>2. k <= l /\ k < l
    BY <2>1
  <2>3. \A j \in d + 1..k : gs[j] = frames[j]
    <3>1. ASSUME NEW j \in d + 1..k PROVE gs[j] = frames[j]
      <4>1. j \in 1..l - 1
        BY <2>1
      <4> QED BY <1>14, <4>1
    <3> QED BY <3>1
  <2>4. \A u \in Upvalues : us.var[u].state = "open" => us.var[u].slot < frames[k + 1].base
    BY <1>4, <1>5, <1>15, <2>1
  <2>5. UpsShape(us) /\ k <= Len(frames) /\ k <= Len(gs) /\ k >= d
    BY <1>4, <1>14, <1>15, <2>1, <2>2 DEF UpsOK
  <2> QED BY <1>3, <1>14, <1>15, <2>3, <2>4, <2>5, HousedPart, SMTT(30)
<1>17. CellOf(stack', us) = CellOf(s, us)
  <2>1. ASSUME NEW u \in Upvalues, us.var[u].state = "open"
        PROVE  Slot(stack', us.var[u].slot) = Slot(s, us.var[u].slot)
    <3>1. PICK k \in d + 1..Len(frames) : Holds(frames[k], us.var[u].slot)
      BY <1>15, <2>1 DEF Housed
    <3>2. us.var[u].slot < b /\ Inside(frames[k], us.var[u].slot) /\ us.var[u].slot \in Int
      BY <1>15, <2>1, <3>1 DEF Holds, UpsOK, UpsShape
    <3>3. k # l
      BY <1>4, <1>5, <3>2 DEF Inside
    <3>4. k \in d + 1..l - 1
      BY <1>2, <3>3
    <3>5. frames[k].base + frames[k].free <= frames[l].func
      BY <1>3, <1>4, <3>4, ChainUnder
    <3>6. Shape(frames[k])
      BY <1>3 DEF Chain
    <3>7. PICK i \in Int, j \in Int, y \in Int : i = frames[k].base /\ j = frames[k].free /\ y = us.var[u].slot
      BY <3>2, <3>6, SMTT(30) DEF Shape
    <3>8. y < i + j /\ i + j <= h
      BY <1>4, <1>5, <3>2, <3>5, <3>7 DEF Inside
    <3>9. y < h
      BY <3>8
    <3> QED BY <1>9, <3>7, <3>9 DEF Agree
  <2> QED BY <2>1, CellSame
<1>18. Progress(d, status', us, gs, top', pending')
  <2>1. RunsAt(gs, top')
    <3>1. e.proto # Nil /\ e.free = Live[e.proto][e.pc] /\ ~ Consumes(e.proto, e.pc)
      BY <1>12
    <3> QED BY <1>14, <3>1 DEF RunsAt
  <2> QED BY <1>14, <1>16, <2>1 DEF Progress
<1>19. Changed(ActsOf(stack', gs, d, <<>>), Activated, Lua!depth, Lua!Activation(p, v))
  <2>1. Views(stack, stack', frames, d + 1, l - 1)
    <3>1. Agree(stack, stack', h)
      <4>1. h < f
        BY <1>6
      <4> QED BY <1>9, <4>1 DEF Agree
    <3>2. frames[l].func <= h
      BY <1>4, <1>5
    <3> QED BY <1>1, <1>3, <1>4, <1>9, <3>1, <3>2, ViewsKept
  <2>2. \A k \in d + 1..Len(frames) - 1 : View(stack', gs[k], <<>>) = View(stack, frames[k], <<>>)
    <3>1. ASSUME NEW k \in d + 1..l - 1 PROVE View(stack', gs[k], <<>>) = View(stack, frames[k], <<>>)
      <4>1. k \in 1..l - 1
        BY <1>2
      <4> QED BY <1>14, <2>1, <4>1 DEF Views
    <3> QED BY <1>4, <3>1
  <2>3. d < Len(frames) /\ Len(gs) = Len(frames)
    BY <1>2, <1>14
  <2>4. Changed(ActsOf(stack', gs, d, <<>>), ActsOf(stack, frames, d, Pending), Len(frames) - d,
                View(stack', gs[Len(gs)], <<>>))
    BY <1>3, <1>14, <2>2, <2>3, ActsChanged
  <2>5. View(stack', e, <<>>) = Starts(p, v)
    <3>1. W(stack', e.base, e.free) = Adjust(v, Params[p])
      BY <1>5, <1>9, <1>12
    <3> QED BY <1>9, <1>12, <3>1 DEF View, Starts
  <2>6. Activated = ActsOf(stack, frames, Below, Pending) /\ Lua!depth = Len(frames) - Below
    BY Sees
  <2> QED BY <1>2, <1>14, <2>4, <2>5, <2>6, ActivationIs
<1>20. OpenListAt(status', stack', gs, top') = <<>>
  <2>1. e.proto # Nil /\ ~ Consumes(e.proto, e.pc)
    BY <1>12
  <2> QED BY <1>14, <2>1 DEF OpenListAt
<1>21. /\ Homes = HomeOf(ups, frames, Below) /\ Contents = CellOf(stack, ups) /\ Used = UsedOf(ups)
       /\ Lua!depth = Len(frames) - Below /\ Final = <<>>
  BY Sees
<1>22. PICK a, g : a = ActsOf(stack', gs, d, <<>>) /\ g = Forgotten(Homes, Lua!depth, 0)
  OBVIOUS
<1>23. HomeOf(us, gs, d) = g /\ CellOf(stack', us) = Contents /\ UsedOf(us) = Used
  BY <1>2, <1>15, <1>16, <1>17, <1>21, <1>22
<1>24. Lands(d, a, g, Contents, Used)
  BY <1>7, <1>13, <1>18, <1>20, <1>22, <1>23 DEF Lands, Over
<1>25. Calling' /\ Activated' = a /\ Homes' = g /\ Contents' = Contents /\ Used' = Used /\ Final' = <<>>
  <2>1. Lands(Below, a, g, Contents, Used)
    BY <1>2, <1>24
  <2> QED BY <2>1, Landing
<1> QED BY <1>8, <1>19, <1>21, <1>22, <1>25

\* The same after the variables of the running function were closed.
LEMMA InvokingClosed ==
    ASSUME StackInvariant, Calling, Compiled(Live, Held), status = "run", cur.proto # Nil,
           NEW s, NEW fs, NEW n, Invoking(s, ups, fs, Homes, n), NEW us, us = Closed(ups, s, cur.base)
    PROVE  Invoking(s, us, fs, Forgotten(Homes, Lua!depth, 0), n)
<1>1. PICK d : d = Below
  OBVIOUS
<1>2. /\ Going(fs, cur.pc, n) /\ Caller(d, s, ups, fs) /\ UpsOK(ups) /\ n \in Nat /\ n <= cur.free
      /\ HomeOf(ups, fs, d) = Homes /\ CellOf(s, ups) = Contents /\ UsedOf(ups) = Used
      /\ Agree(stack, s, cur.base + n)
  BY <1>1 DEF Invoking
<1>3. Chain(d, fs) /\ Housed(d, ups, fs) /\ s \in Seq(Value)
      /\ (fs[Len(fs)].proto # Nil => WaitsIn(fs[Len(fs)]))
  BY <1>2 DEF Caller
<1>4. PICK l \in Nat : l = Len(fs) /\ d \in Nat /\ l \in d + 1..l
  BY <1>3, ChainEnds
<1>5. Lua!depth = l - d
  <2>1. Lua!depth = Len(frames) - d /\ Len(fs) = Len(frames)
    BY <1>1, <1>2, Sees DEF Going
  <2> QED BY <1>4, <2>1
<1>6. PICK z \in Nat : z = 0
  OBVIOUS
<1>7. fs[l].base + z = cur.base /\ fs[l].free = n /\ cur.base \in Int
  <2>1. fs[l].base = cur.base /\ fs[l].free = n /\ Shape(fs[l])
    BY <1>2, <1>4 DEF Going
  <2>2. fs[l].base \in Int
    BY <2>1 DEF Shape
  <2> QED BY <1>6, <2>1, <2>2
<1>8. ClosedFrom(us, ups, s, fs, l, z)
  BY <1>7 DEF ClosedFrom
<1>9. z <= fs[l].free /\ l \in d + 1..Len(fs)
  BY <1>2, <1>4, <1>6, <1>7
<1>10. /\ UpsOK(us) /\ Housed(d, us, fs)
       /\ HomesFrom(HomeOf(us, fs, d), HomeOf(ups, fs, d), l, d, z)
  BY <1>2, <1>3, <1>4, <1>8, <1>9, HomeForget
<1>11. HomeOf(us, fs, d) = Forgotten(Homes, Lua!depth, 0)
  BY <1>2, <1>5, <1>6, <1>10 DEF HomesFrom
<1>12. CellOf(s, us) = CellOf(s, ups) /\ UsedOf(us) = UsedOf(ups)
  BY <1>2, <1>7, CellClosed
<1>13. Caller(d, s, us, fs)
  BY <1>3, <1>10 DEF Caller, UpsOK
<1> QED BY <1>1, <1>2, <1>10, <1>11, <1>12, <1>13 DEF Invoking

LEMMA TailCallIs ==
    ASSUME StackInvariant, StackInvariant', Calling, Compiled(Live, Held), ~ IteratorYields, TailCall
    PROVE  Calling' /\ (Lua!TailCall \/ Lua!Fail)
<1>1. At("TAILCALL") /\ thread' = thread
  BY DEF TailCall
<1>2. status = "run" /\ cur.proto # Nil /\ Lua!At("TAILCALL") /\ Lua!ins = ins /\ ins.op = "TAILCALL"
  BY <1>1, Finding
<1>3. PICK n, fs : n = Stays(ins) /\ fs = Goto(cur.pc, n)
  OBVIOUS
<1>4. n = ins.a - 1
  BY <1>2, <1>3 DEF Stays
<1>5. PICK f \in Int : f = cur.base + n /\ f = Reg(ins.a)
  <2>1. PICK o : o = "TAILCALL"
    OBVIOUS
  <2>2. o \in {"CALL", "TAILCALL", "TFORLOOP"} /\ At(o) /\ o # "TFORLOOP"
    BY <1>1, <2>1
  <2> QED BY <1>3, <2>2, CalleeAt
<1>6. f = cur.base + n
  BY <1>5
<1>7. CASE R(ins.a) = Nil
  <2>1. Throw(stack, ups, fs)
    BY <1>3, <1>4, <1>7 DEF TailCall
  <2>2. Agree(stack, stack, f)
    BY DEF Agree
  <2>3. Invoking(stack, ups, fs, Homes, n)
    <3>1. PICK o : o = "TAILCALL"
      OBVIOUS
    <3>2. o \in {"CALL", "TAILCALL", "TFORLOOP"} /\ At(o)
      BY <1>1, <3>1
    <3>3. stack \in Seq(Value)
      BY DEF StackInvariant, Body
    <3> QED BY <1>3, <1>6, <2>2, <3>2, <3>3, AtCall
  <2> QED BY <1>1, <1>2, <2>1, <2>3, InvokeFails
<1>8. CASE R(ins.a) # Nil
  <2>1. PICK s : s = WithHandler
    OBVIOUS
  <2>2. PICK m \in Nat : m = Arity
    BY <1>1, ArgumentsAre
  <2>3. /\ s \in Seq(Value) /\ Agree(stack, s, f) /\ Lua!Arguments = W(s, f + 1, m)
        /\ Lua!regs[Lua!ins.a] = R(ins.a)
    BY <1>1, <1>5, <2>1, <2>2, ArgumentsAre
  <2>4. PICK c : c = fs[Len(fs)]
    OBVIOUS
  <2>5. Invoking(s, ups, fs, Homes, n) /\ Want(c) = Takes(ins) /\ Cont(c) = 0
    <3>1. PICK o : o = "TAILCALL"
      OBVIOUS
    <3>2. o \in {"CALL", "TAILCALL", "TFORLOOP"} /\ At(o) /\ o # "TFORLOOP"
      BY <1>1, <3>1
    <3> QED BY <1>3, <1>6, <2>3, <2>4, <3>2, AtCall
  <2>6. Takes(ins) = MultRet
    BY <1>2 DEF Takes
  <2>7. PICK us, h : us = Closed(ups, s, cur.base) /\ h = Forgotten(Homes, Lua!depth, 0)
    OBVIOUS
  <2>8. Invoking(s, us, fs, h, n)
    BY <1>2, <2>5, <2>7, InvokingClosed
  <2>9. Lua!Forget(Lua!depth, 0) <=> Homes' = h
    BY <2>7 DEF Lua!Forget, Forgotten, Lua!Nowhere
  <2>10. \/ cur.func # cur.base /\ Replace(s, us, f, m)
         \/ Enter(s, us, fs, f, m, MultRet, 0)
    <3>1. \/ ~ (cur.func = cur.base) /\ Replace(s, us, f, m)
          \/ EnterLua(s, us, fs, f, m, MultRet, 0) /\ UNCHANGED pending
          \/ EnterNative(s, us, fs, f, m, MultRet, 0)
          \/ EnterYield(s, us, fs, f, m, MultRet, 0)
          \/ EnterPcall(s, us, fs, f, m, MultRet, 0)
      BY <1>3, <1>4, <1>5, <1>8, <2>1, <2>2, <2>7 DEF TailCall
    <3> QED BY <3>1 DEF Enter
  <2>11. CASE cur.func # cur.base /\ Replace(s, us, f, m)
    <3>1. status' = "run"
      BY <1>2, <2>11 DEF Replace
    <3>2. f + m <= Len(s) /\ f >= cur.base
      <4>1. PICK o : o = "TAILCALL"
        OBVIOUS
      <4>2. o \in {"CALL", "TAILCALL"} /\ At(o)
        BY <1>1, <4>1
      <4> QED BY <1>5, <2>1, <2>2, <4>2, ArgumentsFit
    <3>3. CellOf(s, ups) = CellOf(stack, ups)
      <4>1. CellOf(s, ups) = Contents
        BY <2>5 DEF Invoking
      <4> QED BY <1>2, <4>1, Sees
    <3>4. \E p \in Functions :
             /\ Calling' /\ Changed(Activated', Activated, Lua!depth, Lua!Activation(p, W(s, f + 1, m)))
             /\ Homes' = Forgotten(Homes, Lua!depth, 0) /\ Contents' = Contents /\ Used' = Used /\ Final' = Final
      BY <1>1, <1>2, <2>3, <2>7, <2>11, <3>1, <3>2, <3>3, ReplaceIs
    <3>5. PICK p \in Functions :
             /\ Calling' /\ Changed(Activated', Activated, Lua!depth, Lua!Activation(p, W(s, f + 1, m)))
             /\ Homes' = h /\ Contents' = Contents /\ Used' = Used /\ Final' = Final
      BY <2>7, <3>4
    <3>6. Lua!Become(Lua!Activation(p, Lua!Arguments))
      BY <2>3, <3>5 DEF Lua!Become, Changed
    <3>7. Lua!TailCall
      BY <1>2, <1>8, <2>3, <2>9, <3>1, <3>5, <3>6 DEF Lua!TailCall
    <3> QED BY <3>5, <3>7
  <2>12. CASE Enter(s, us, fs, f, m, MultRet, 0)
    <3>1. Enter(s, us, fs, f, m, Want(c), Cont(c))
      BY <2>5, <2>6, <2>12
    <3>2. /\ Calling'
          /\ \/ Lua!Fail
             \/ /\ Lua!Enter(Lua!Waiting(n), W(s, f + 1, m))
                /\ Homes' = h /\ Contents' = Contents /\ Used' = Used /\ Final' = Final
      BY <1>1, <1>2, <1>6, <2>4, <2>8, <3>1, InvokeIs
    <3> QED BY <1>2, <1>4, <1>8, <2>3, <2>9, <3>2 DEF Lua!TailCall
  <2> QED BY <2>10, <2>11, <2>12
<1> QED BY <1>7, <1>8
-----------------------------------------------------------------------------
(* Answers that come later: from a resume, a return and a protected call.    *)

\* The results of a call are moved to where the caller expects them.
LEMMA AnswerFrom ==
    ASSUME Compiled(Live, Held), NEW d, NEW s, NEW us, NEW fs, Caller(d, s, us, fs), NEW c, c = fs[Len(fs)],
           NEW f \in Int, f = c.base + c.free, NEW vs \in Seq(Value), NEW rs, rs = Adjust(vs, Want(c)),
           NEW u \in Seq(Value), Agree(s, u, f), W(u, f, Len(rs)) = rs, NEW t, t = f + Len(rs),
           Answer(u, us, fs, t, Want(c), Cont(c)), status' = "run"
    PROVE  LandsWith(d, s, us, fs, Resumed(View(s, c, <<>>), vs))
<1>1. /\ Caller(d, u, us, fs) /\ ActsOf(u, fs, d, <<>>) = ActsOf(s, fs, d, <<>>)
      /\ CellOf(u, us) = CellOf(s, us) /\ View(u, c, <<>>) = View(s, c, <<>>)
  <2>1. f = fs[Len(fs)].base + fs[Len(fs)].free
    OBVIOUS
  <2>2. /\ Caller(d, u, us, fs) /\ ActsOf(u, fs, d, <<>>) = ActsOf(s, fs, d, <<>>)
        /\ CellOf(u, us) = CellOf(s, us) /\ \A x : View(u, fs[Len(fs)], x) = View(s, fs[Len(fs)], x)
    BY <2>1, SeesSame
  <2> QED BY <2>2
<1>2. Answering(d, u, us, fs, c, f, vs, rs, t)
  BY <1>1 DEF Answering
<1>3. LandsWith(d, u, us, fs, Resumed(View(u, c, <<>>), vs))
  BY <1>2, AnswerIs
<1> QED BY <1>1, <1>3 DEF LandsWith

LEMMA ResumeIs ==
    ASSUME StackInvariant, StackInvariant', Calling, Compiled(Live, Held), Resume
    PROVE  Calling' /\ Lua!Resume
<1>1. status = "yield" /\ status' = "run" /\ thread' = thread
  BY DEF Resume
<1>2. PICK d : d = Below
  OBVIOUS
<1>3. Chain(d, frames) /\ Housed(d, ups, frames) /\ YieldsAt(frames, pending)
  BY <1>1, <1>2 DEF Calling, Over, Progress
<1>4. UpsOK(ups) /\ UpsShape(ups) /\ stack \in Seq(Value)
  BY DEF StackInvariant, FramesInvariant, Body, UpsOK
<1>5. PICK c : c = frames[Len(frames)]
  OBVIOUS
<1>6. /\ c.proto # Nil /\ WaitsIn(c) /\ Code[c.proto][c.pc].op # "TFORLOOP"
      /\ pending.base = c.base + c.free /\ pending.want = Takes(Code[c.proto][c.pc])
  BY <1>3, <1>5 DEF YieldsAt
<1>7. Caller(d, stack, ups, frames)
  BY <1>3, <1>4, <1>5, <1>6 DEF Caller
<1>8. Want(c) = pending.want /\ Cont(c) = 0
  BY <1>6 DEF Want, Cont
<1>9. Want(c) \in Int /\ c.base \in Int /\ c.free \in Nat /\ c.base >= 1
  BY <1>5, <1>7, WaitsFor
<1>10. PICK b \in Int, n \in Nat : b = c.base /\ n = c.free /\ b >= 1
  BY <1>9
<1>11. PICK f \in Int : f = b + n /\ f >= 1
  BY <1>10
<1>12. f = c.base + c.free /\ f = pending.base /\ f >= 1
  BY <1>6, <1>10, <1>11
<1>13. PICK vs \in Lists :
          LET rs == Adjust(vs, pending.want)
              t == pending.base + Len(rs)
          IN  Answer(Put(Grow(stack, t - 1), pending.base, rs), ups, frames, t, pending.want, 0)
  BY DEF Resume
<1>14. vs \in Seq(Value)
  BY ProtoAssumption
<1>15. PICK w \in Int : w = Want(c)
  BY <1>9
<1>16. PICK rs \in Seq(Value) : rs = Adjust(vs, w)
  BY <1>14, AdjustIs
<1>17. PICK m \in Int : m = f + Len(rs) - 1
  <2>1. PICK j \in Nat : j = Len(rs)
    BY LenProperties
  <2>2. f + j - 1 \in Int
    OBVIOUS
  <2> QED BY <2>1, <2>2
<1>18. PICK u, t : u = Put(Grow(stack, m), f, rs) /\ t = f + Len(rs)
  OBVIOUS
<1>19. u \in Seq(Value) /\ Agree(stack, u, f) /\ W(u, f, Len(rs)) = rs
  <2>1. rs = <<>> \/ f + Len(rs) - 1 <= m
    BY <1>17
  <2>2. f >= 1
    BY <1>12
  <2> QED BY <1>4, <1>18, <2>1, <2>2, PutGrown
<1>20. Answer(u, ups, frames, t, Want(c), Cont(c))
  BY <1>8, <1>12, <1>13, <1>15, <1>16, <1>17, <1>18
<1>21. LandsWith(d, stack, ups, frames, Resumed(View(stack, c, <<>>), vs))
  <2>1. f = c.base + c.free /\ rs = Adjust(vs, Want(c)) /\ t = f + Len(rs)
    BY <1>12, <1>15, <1>16, <1>18
  <2> QED BY <1>1, <1>5, <1>7, <1>14, <1>19, <1>20, <2>1, AnswerFrom
<1>22. /\ Activated = ActsOf(stack, frames, d, <<>>) /\ Homes = HomeOf(ups, frames, d) /\ Final = <<>>
       /\ Contents = CellOf(stack, ups) /\ Used = UsedOf(ups)
  <2>1. OpenListAt(status, stack, frames, top) = <<>>
    BY <1>1 DEF OpenListAt
  <2>2. ~ Over(status)
    BY <1>1 DEF Over
  <2> QED BY <1>2, <2>1, <2>2, SeenActs, SeenHomes, CellsAre
<1>23. PICK l \in Nat : l = Len(frames) /\ d \in Nat /\ l >= d + 1
  BY <1>3, ChainEnds
<1>24. PICK k \in Nat : k = l - d /\ k \in 1..k /\ k + d = l
  <2>1. l - d \in Nat /\ l - d >= 1 /\ (l - d) + d = l
    BY <1>23
  <2> QED BY <2>1
<1>25. Lua!depth = k /\ Lua!cur = View(stack, c, <<>>)
  <2>1. ActsAre(Activated, stack, frames, d, <<>>)
    <3>1. d <= Len(frames) /\ FramesOK(frames)
      BY <1>3, <1>23 DEF Chain, Grounded
    <3> QED BY <1>22, <1>23, <3>1, ActsList
  <2>2. Len(Activated) = k /\ Activated[k] = View(stack, frames[k + d], <<>>)
    BY <1>23, <1>24, <2>1 DEF ActsAre
  <2> QED BY <1>5, <1>23, <1>24, <2>2 DEF Lua!depth, Lua!cur
<1>26. PICK a : /\ Changed(a, Activated, Lua!depth, Resumed(Lua!cur, vs))
                /\ Lands(Below, a, Homes, Contents, Used)
  BY <1>2, <1>21, <1>22, <1>23, <1>24, <1>25 DEF LandsWith
<1>27. Calling' /\ Activated' = a /\ Homes' = Homes /\ Contents' = Contents /\ Used' = Used /\ Final' = <<>>
  BY <1>1, <1>26, Landing
<1>28. Resumed(Lua!cur, vs) = Lua!Answered(Lua!cur, vs)
  BY <1>6, <1>25 DEF Resumed, View
<1>29. Lua!Become(Lua!Answered(Lua!cur, vs))
  BY <1>26, <1>27, <1>28 DEF Lua!Become, Changed
<1> QED BY <1>1, <1>22, <1>27, <1>29 DEF Lua!Resume

\* The slots from the i-th to the j-th of a window are m slots from h on.
PartIs(f, i, j, g) == SubSeq(f, i, j) = g
LEMMA WPart ==
    ASSUME NEW s \in Seq(Value), NEW k \in Int, NEW n \in Nat, NEW i \in Int, NEW j \in Int,
           i >= 1, j <= n, NEW h, NEW m, Suffix(k, j, i, h, m)
    PROVE  PartIs(W(s, k, n), i, j, W(s, h, m))
<1>1. SubSeq(W(s, k, n), i, j) = W(s, k + i - 1, j - i + 1)
  BY WSub, ZenonT(60)
<1> QED BY <1>1 DEF Suffix, PartIs

\* The values that RETURN names.
Available == IF ins.b = 0 THEN top - Reg(ins.a) ELSE ins.b - 1
Returned == IF Lua!ins.b = 0 THEN Lua!From(Lua!regs, Lua!ins.a) \o Lua!cur.more
            ELSE SubSeq(Lua!regs, Lua!ins.a, Lua!ins.a + Lua!ins.b - 2)

LEMMA ReturnedIs ==
    ASSUME StackInvariant, Calling, Compiled(Live, Held), At("RETURN")
    PROVE  Returned \in Seq(Value) /\ Window(stack, Reg(ins.a), Available) = Returned
<1>1. /\ FramesInvariant /\ Body /\ status = "run" /\ cur.proto # Nil /\ ins.op = "RETURN"
      /\ cur.proto \in Protos /\ cur.pc \in DOMAIN Code[cur.proto] /\ ins = Code[cur.proto][cur.pc]
      /\ Orderly(Live, Held, cur.proto, cur.pc) /\ cur.free = Live[cur.proto][cur.pc] /\ cur.free \in Nat
      /\ Lua!ins = ins /\ (Consumes(cur.proto, cur.pc) <=> ins.b = 0)
  <2>1. PICK o : o = "RETURN"
    OBVIOUS
  <2>2. At(o) /\ o \in {"CALL", "TAILCALL", "RETURN", "SETLIST"}
    BY <2>1
  <2> QED BY <2>1, <2>2, Finding
<1>2. ins.a \in 1..cur.free + 1 /\ ins.a + ins.b - 2 <= cur.free
  BY <1>1 DEF Orderly
<1>3. PICK b \in Nat : b = ins.b
  BY <1>1, CodeAssumption
<1>a. ins.a \in Nat
  BY <1>1, CodeAssumption
<1>4. PICK a \in Nat, n \in Nat : a = ins.a /\ n = cur.free /\ a \in 1..n + 1 /\ a + b - 2 <= n
  BY <1>1, <1>2, <1>3, <1>a
<1>5. PICK k \in Int : k = cur.base /\ stack \in Seq(Value) /\ k >= 1 /\ \A r \in Int : Reg(r) = k + r - 1
  BY <1>1, Rooms
<1>13. a >= 1 /\ a <= n + 1 /\ a + b - 2 <= n /\ k >= 1
  <2>1. a >= 1 /\ a <= n + 1 /\ a + b - 2 <= n
    BY <1>4
  <2> QED BY <1>5, <2>1
<1>14. \A r \in Int : Reg(r) = k + r - 1
  BY <1>5
<1>6. PICK f \in Int : f = k + a - 1 /\ f >= 1
  BY <1>13
<1>7. PICK t \in Int : t = top
  BY <1>1 DEF Body
<1>8. Reg(ins.a) = f
  <2>1. Reg(a) = f
    BY <1>6, <1>14
  <2> QED BY <1>4, <2>1
<1>9. Lua!cur.more = Pending /\ Lua!regs = W(stack, k, n)
  BY <1>1, <1>4, <1>5, Sees
<1>10. /\ Pending = IF b = 0 THEN W(stack, k + n, t - k - n) ELSE <<>>
       /\ (b = 0 => t >= k + n)
  BY <1>1, <1>3, <1>4, <1>5, <1>7, Finds
<1>15. stack \in Seq(Value) /\ f >= 1
  BY <1>5, <1>6
<1>11. CASE b = 0
  <2>1. t - f \in Nat /\ t >= k + n
    <3>1. t >= k + n
      BY <1>10, <1>11
    <3> QED BY <1>13, <1>6, <3>1
  <2>2. PICK m \in Nat : m = t - f
    BY <2>1
  <2>3. Available = m
    BY <1>3, <1>7, <1>8, <1>11, <2>2 DEF Available
  <2>t. t - k - n \in Nat /\ n - a + 1 \in Nat
    BY <1>13, <2>1
  <2>4. PICK j \in Nat, e \in Nat : j = n - a + 1 /\ e = t - k - n
    BY <2>t
  <2>5. From(W(stack, k, n), a) = W(stack, f, j)
    <3>1. f = k + a - 1 /\ j = n - a + 1
      BY <1>6, <2>4
    <3>2. Suffix(k, n, a, f, j)
      BY <3>1 DEF Suffix
    <3>3. a >= 1 /\ stack \in Seq(Value)
      BY <1>13, <1>15
    <3> QED BY <3>2, <3>3, WFrom
  <2>6. W(stack, f, j) \o W(stack, k + n, e) = W(stack, f, m)
    <3>1. f + j = k + n /\ j + e = m
      BY <1>6, <2>2, <2>4
    <3>2. W(stack, f, j) \o W(stack, f + j, e) = W(stack, f, j + e)
      BY <1>15, WJoin, ZenonT(60) DEF Joined
    <3> QED BY <3>1, <3>2
  <2>7. From(Lua!regs, a) \o Lua!cur.more = W(stack, f, m)
    BY <1>9, <1>10, <1>11, <2>4, <2>5, <2>6
  <2>8. Lua!From(Lua!regs, Lua!ins.a) = From(Lua!regs, a)
    BY <1>1, <1>4 DEF Lua!From, From
  <2>9. Returned = W(stack, f, m)
    BY <1>1, <1>3, <1>11, <2>7, <2>8 DEF Returned
  <2>10. Window(stack, f, m) = W(stack, f, m)
    BY <1>15, WindowIs
  <2>11. W(stack, f, m) \in Seq(Value)
    BY <1>15, WIsList
  <2> QED BY <1>8, <2>3, <2>9, <2>10, <2>11
<1>12. CASE b # 0
  <2>1. PICK m \in Nat : m = b - 1
    BY <1>12
  <2>2. Available = m
    BY <1>3, <1>12, <2>1 DEF Available
  <2>j. PICK j \in Int : j = a + b - 2
    OBVIOUS
  <2>3. a >= 1 /\ j <= n /\ j - a + 1 = m
    BY <1>13, <2>1, <2>j
  <2>4. SubSeq(W(stack, k, n), a, j) = W(stack, f, m)
    <3>1. stack \in Seq(Value) /\ j <= n /\ a >= 1
      BY <1>5, <1>13, <2>3
    <3>2. Suffix(k, j, a, f, m)
      BY <1>6, <2>3 DEF Suffix
    <3>3. PartIs(W(stack, k, n), a, j, W(stack, f, m))
      BY <3>1, <3>2, WPart
    <3> QED BY <3>3 DEF PartIs
  <2>5. Returned = W(stack, f, m)
    <3>1. Lua!ins.a = a /\ Lua!ins.a + Lua!ins.b - 2 = j /\ Lua!ins.b # 0
      BY <1>1, <1>3, <1>4, <1>12, <2>j
    <3>2. Returned = SubSeq(W(stack, k, n), a, j)
      BY <1>9, <3>1 DEF Returned
    <3> QED BY <1>6, <2>3, <2>4, <3>2
  <2>10. Window(stack, f, m) = W(stack, f, m)
    BY <1>15, WindowIs
  <2>11. W(stack, f, m) \in Seq(Value)
    BY <1>15, WIsList
  <2> QED BY <1>8, <2>2, <2>5, <2>10, <2>11
<1> QED BY <1>11, <1>12

\* The stack after a return: the results rs in slot g and nothing behind them.
LEMMA ReturnStack ==
    ASSUME NEW s \in Seq(Value), NEW g \in Int, g >= 1, NEW rs \in Seq(Value), NEW m \in Int, g + Len(rs) - 1 <= m,
           NEW lo \in Int, g + Len(rs) <= lo, NEW hi, NEW u, u = Wipe(Put(Grow(s, m), g, rs), lo, hi)
    PROVE  u \in Seq(Value) /\ Agree(s, u, g) /\ W(u, g, Len(rs)) = rs
<1>1. PICK p : p = Put(Grow(s, m), g, rs)
  OBVIOUS
<1>2. p \in Seq(Value) /\ Agree(s, p, g) /\ W(p, g, Len(rs)) = rs
  BY <1>1, PutGrown
<1>3. PICK n \in Nat : n = Len(rs)
  BY LenProperties
<1>4. g + n <= lo
  BY <1>3
<1>5. u = Wipe(p, lo, hi)
  BY <1>1
<1>6. u \in Seq(Value)
  BY <1>2, <1>5, WipeLaid
<1>7. \A j \in Int : j < lo => Slot(u, j) = Slot(p, j)
  <2>1. ASSUME NEW j \in Int, j < lo PROVE Slot(Wipe(p, lo, hi), j) = Slot(p, j)
    BY <1>2, <2>1, WipeBelow
  <2> QED BY <1>5, <2>1
<1>8. Agree(s, u, g)
  <2>1. \A j \in Int : j < g => j < lo
    BY <1>3, <1>4
  <2> QED BY <1>2, <1>7, <2>1 DEF Agree
<1>9. W(p, g, n) = W(u, g, n)
  <2>1. \A j \in g..g + n - 1 : Slot(p, j) = Slot(u, j)
    <3>1. \A j \in g..g + n - 1 : j \in Int /\ j < lo
      BY <1>4
    <3> QED BY <1>7, <3>1
  <2> QED BY <1>2, <1>6, <2>1, WAgrees
<1> QED BY <1>2, <1>3, <1>6, <1>8, <1>9

\* What RETURN does.
ReturnList == Adjust(Returned, IF Len(frames) = 1 THEN MultRet ELSE cur.nres)
ReturnTop == cur.func + Len(ReturnList)
ReturnLeaves == Wipe(Put(Grow(stack, ReturnTop - 1), cur.func, ReturnList), ReturnTop, Len(stack))
LEMMA ReturnDoes ==
    ASSUME StackInvariant, Calling, Compiled(Live, Held), Return
    PROVE  /\ At("RETURN") /\ thread' = thread /\ status = "run" /\ cur.proto # Nil
           /\ Lua!At("RETURN") /\ Lua!ins = ins
           /\ LET us == Closed(ups, stack, cur.base)
              IN  IF Len(frames) = 1
                  THEN /\ stack' = ReturnLeaves /\ top' = ReturnTop /\ ups' = us /\ status' = "done"
                  ELSE /\ Answer(ReturnLeaves, us, Upto(frames, Len(frames) - 1), ReturnTop, cur.nres, cur.cont)
                       /\ status' = IF Len(frames) = 2 /\ thread = "coroutine" THEN "done" ELSE "run"
<1>1. At("RETURN") /\ thread' = thread
  BY DEF Return
<1>2. status = "run" /\ cur.proto # Nil /\ Lua!At("RETURN") /\ Lua!ins = ins
  BY <1>1, Finding
<1>3. Window(stack, Reg(ins.a), Available) = Returned
  BY <1>1, ReturnedIs
<1>4. PICK v : v = Returned
  OBVIOUS
<1>5. LET want == IF Len(frames) = 1 THEN MultRet ELSE cur.nres
          rs == Adjust(v, want)
          t == cur.func + Len(rs)
          s == Wipe(Put(Grow(stack, t - 1), cur.func, rs), t, Len(stack))
          us == Closed(ups, stack, cur.base)
      IN  IF Len(frames) = 1
          THEN /\ stack' = s /\ top' = t /\ ups' = us
               /\ frames' = <<Idle>> /\ status' = "done"
          ELSE /\ Answer(s, us, Upto(frames, Len(frames) - 1), t, cur.nres, cur.cont)
               /\ status' = IF Len(frames) = 2 /\ thread = "coroutine" THEN "done" ELSE "run"
  BY <1>3, <1>4 DEF Return, Available
<1>6. PICK rs : rs = Adjust(v, IF Len(frames) = 1 THEN MultRet ELSE cur.nres) /\ rs = ReturnList
  BY <1>4 DEF ReturnList
<1>7. PICK t : t = cur.func + Len(rs) /\ t = ReturnTop
  BY <1>6 DEF ReturnTop
<1>8. PICK s : s = Wipe(Put(Grow(stack, t - 1), cur.func, rs), t, Len(stack)) /\ s = ReturnLeaves
  BY <1>6, <1>7 DEF ReturnLeaves
<1> QED BY <1>1, <1>2, <1>5, <1>6, <1>7, <1>8

\* The results lie where the function was.
LEMMA ReturnLies ==
    ASSUME StackInvariant, Calling, Compiled(Live, Held), Return
    PROVE  \E g \in Int : /\ g = cur.func /\ g >= 1 /\ ReturnList \in Seq(Value)
                          /\ ReturnLeaves \in Seq(Value) /\ Agree(stack, ReturnLeaves, g)
                          /\ W(ReturnLeaves, g, Len(ReturnList)) = ReturnList
<1>1. At("RETURN") /\ status = "run" /\ cur.proto # Nil
  BY ReturnDoes
<1>2. Chain(Below, frames) /\ Shape(cur) /\ stack \in Seq(Value)
  BY <1>1, Finds DEF StackInvariant, Body
<1>3. PICK d \in Nat, l \in Nat : d = Below /\ l = Len(frames) /\ l >= d + 1 /\ l \in d + 1..l
  BY <1>2, ChainEnds
<1>4. PICK g \in Int : g = cur.func /\ g >= 1
  <2>1. l = Len(frames) /\ Chain(d, frames)
    BY <1>2, <1>3
  <2>2. frames[l].func >= 1
    BY <1>3, <2>1, ChainUnder
  <2> QED BY <1>2, <1>3, <2>2 DEF cur, Shape
<1>5. PICK rs \in Seq(Value) : rs = ReturnList
  <2>1. Returned \in Seq(Value)
    BY <1>1, ReturnedIs
  <2>2. PICK w \in Int : w = IF Len(frames) = 1 THEN MultRet ELSE cur.nres
    BY <1>2 DEF Shape, MultRet
  <2>3. Adjust(Returned, w) \in Seq(Value)
    BY <2>1, AdjustIs
  <2> QED BY <2>2, <2>3 DEF ReturnList
<1>6. PICK n \in Nat : n = Len(rs)
  BY LenProperties
<1>7. PICK t \in Int, m \in Int : t = g + n /\ m = t - 1
  OBVIOUS
<1>8. PICK u : u = Wipe(Put(Grow(stack, m), g, rs), t, Len(stack))
  OBVIOUS
<1>9. u = ReturnLeaves
  BY <1>4, <1>5, <1>6, <1>7, <1>8 DEF ReturnLeaves, ReturnTop
<1>10. g >= 1 /\ g + Len(rs) - 1 <= m /\ g + Len(rs) <= t
  BY <1>4, <1>6, <1>7
<1>11. u \in Seq(Value) /\ Agree(stack, u, g) /\ W(u, g, Len(rs)) = rs
  BY <1>2, <1>8, <1>10, ReturnStack
<1> QED BY <1>4, <1>5, <1>9, <1>11

\* The function that the thread was started with returns.
LEMMA ReturnEnds ==
    ASSUME StackInvariant, StackInvariant', Calling, Compiled(Live, Held), Return, Len(frames) = Below + 1
    PROVE  Calling' /\ Lua!Return
<1>1. At("RETURN") /\ thread' = thread /\ status = "run" /\ cur.proto # Nil /\ Lua!At("RETURN") /\ Lua!ins = ins
  BY ReturnDoes
<1>2. /\ Chain(Below, frames) /\ Housed(Below, ups, frames) /\ UpsOK(ups) /\ stack \in Seq(Value)
      /\ thread \in {"main", "coroutine"}
  BY <1>1, Finds DEF StackInvariant, Body, FramesInvariant
<1>3. PICK d \in Nat, l \in Nat : d = Below /\ l = Len(frames) /\ l >= d + 1 /\ l \in d + 1..l /\ l = d + 1
  BY <1>2, ChainEnds
<1>4. /\ d = (IF thread = "main" THEN 0 ELSE 1)
      /\ frames[l] = cur /\ cur.func = 1 /\ (d = 1 => cur.nres = MultRet /\ cur.cont = 0)
  <2>1. Grounded(d, frames)
    BY <1>2, <1>3 DEF Chain
  <2>2. frames[l] = cur /\ d = (IF thread = "main" THEN 0 ELSE 1)
    BY <1>3 DEF cur, Below
  <2>3. frames[d + 1].func = 1 /\ (d = 1 => frames[2].nres = MultRet /\ frames[2].cont = 0)
    BY <2>1 DEF Grounded
  <2>4. d = 1 => l = 2
    BY <1>3
  <2> QED BY <1>3, <2>2, <2>3, <2>4
<1>5. Returned \in Seq(Value) /\ ReturnList = Returned
  <2>1. Returned \in Seq(Value)
    BY <1>1, ReturnedIs
  <2>2. Len(frames) = 1 \/ cur.nres = MultRet
    <3>1. d = 0 \/ d = 1
      BY <1>4
    <3> QED BY <1>3, <1>4, <3>1
  <2>3. ReturnList = Adjust(Returned, MultRet)
    BY <2>2 DEF ReturnList
  <2> QED BY <2>1, <2>3, AdjustAll
<1>6. PICK s, t, us : s = ReturnLeaves /\ t = ReturnTop /\ us = Closed(ups, stack, cur.base)
  OBVIOUS
<1>7. stack' = s /\ top' = t /\ ups' = us /\ status' = "done"
  <2>1. CASE d = 0
    <3>1. Len(frames) = 1
      BY <1>3, <2>1
    <3> QED BY <1>6, <3>1, ReturnDoes
  <2>2. CASE d # 0
    <3>1. Len(frames) = 2 /\ thread = "coroutine" /\ cur.cont = 0
      BY <1>2, <1>3, <1>4, <2>2
    <3>2. Len(frames) # 1
      <4>1. l # 1
        BY <1>3, <2>2
      <4> QED BY <1>3, <4>1
    <3>3. PICK q : q = Upto(frames, Len(frames) - 1)
      OBVIOUS
    <3>4. /\ Answer(s, us, q, t, cur.nres, cur.cont)
          /\ status' = IF Len(frames) = 2 /\ thread = "coroutine" THEN "done" ELSE "run"
      BY <1>6, <3>2, <3>3, ReturnDoes
    <3>5. Answer(s, us, q, t, cur.nres, 0) /\ status' = "done"
      BY <3>1, <3>4
    <3> QED BY <3>5 DEF Answer
  <2> QED BY <2>1, <2>2
<1>8. PICK z \in Nat : z = 0
  OBVIOUS
<1>9. frames[l].base \in Int /\ frames[l].base + z = cur.base /\ z <= frames[l].free
  <2>1. Shape(frames[l])
    BY <1>2, <1>3 DEF Chain
  <2>2. frames[l].base \in Int /\ frames[l].free \in Nat
    BY <2>1 DEF Shape
  <2> QED BY <1>4, <1>8, <2>2
<1>10. /\ UpsOK(us) /\ Housed(d, us, frames) /\ OpenBelow(us, ups, frames, l, z)
  <2>1. ClosedFrom(us, ups, stack, frames, l, z)
    BY <1>6, <1>9 DEF ClosedFrom
  <2>2. Chain(d, frames) /\ Housed(d, ups, frames) /\ l \in d + 1..Len(frames)
    BY <1>2, <1>3
  <2> QED BY <1>2, <1>9, <2>1, <2>2, HomeForget
<1>11. \A u \in Upvalues : us.var[u].state # "open"
  <2>1. SUFFICES ASSUME NEW u \in Upvalues, us.var[u].state = "open" PROVE FALSE
    OBVIOUS
  <2>2. PICK k \in d + 1..Len(frames) : Holds(frames[k], us.var[u].slot)
    BY <1>10, <2>1 DEF Housed
  <2>3. k = l
    BY <1>3
  <2>4. PICK x \in Int : x = us.var[u].slot
    BY <1>10 DEF UpsOK, UpsShape
  <2>5. frames[l].base <= x /\ x < frames[l].base + z
    BY <1>10, <2>1, <2>2, <2>3, <2>4 DEF OpenBelow, Holds, Inside
  <2> QED BY <1>8, <1>9, <2>4, <2>5
<1>12. CellOf(stack', us) = CellOf(stack, us)
  BY <1>11, CellSame
<1>13. CellOf(stack, us) = CellOf(stack, ups) /\ UsedOf(us) = UsedOf(ups)
  <2>1. cur.base \in Int
    BY <1>8, <1>9
  <2> QED BY <1>2, <1>6, <2>1, CellClosed
<1>14. /\ Homes = HomeOf(ups, frames, Below) /\ Contents = CellOf(stack, ups) /\ Used = UsedOf(ups)
       /\ Lua!depth = Len(frames) - Below
  BY <1>1, Sees
<1>15. Ends(Below, Contents, Used)
  <2>1. Rest(d, "done", us)
    BY <1>11 DEF Rest
  <2> QED BY <1>3, <1>7, <1>12, <1>13, <1>14, <2>1 DEF Ends, Over
<1>16. PICK e, n : e = Contents /\ n = Used
  OBVIOUS
<1>17. /\ Calling' /\ Activated' = <<>> /\ Homes' = [u \in Upvalues |-> <<0, 0>>]
       /\ Contents' = e /\ Used' = n
  BY <1>1, <1>15, <1>16, Ending
<1>18. Lua!depth = 1
  BY <1>3, <1>14
<1>19. Lua!Forget(1, 0)
  <2>1. PICK g : g = Homes
    OBVIOUS
  <2>2. \A u \in Upvalues : g[u] = <<0, 0>> \/ (\E k \in Nat, r \in Nat : g[u] = <<k, r>> /\ k >= 1 /\ r >= 1)
    BY <1>1, <2>1, HomesShape
  <2>3. Forgotten(g, 1, 0) = [u \in Upvalues |-> <<0, 0>>]
    BY <2>2, ForgetAll
  <2>4. Homes' = Forgotten(Homes, 1, 0)
    BY <1>17, <2>1, <2>3
  <2> QED BY <2>4 DEF Lua!Forget, Forgotten, Lua!Nowhere
<1>20. Final' = Returned
  <2>1. PICK g \in Int : g = cur.func /\ s \in Seq(Value) /\ W(s, g, Len(Returned)) = Returned
    BY <1>5, <1>6, ReturnLies
  <2>2. g = 1
    BY <1>4, <2>1
  <2>3. PICK v : v = Returned
    OBVIOUS
  <2>4. PICK m \in Nat : m = Len(v)
    BY <1>5, <2>3, LenProperties
  <2>5. t = 1 + m
    BY <1>4, <1>5, <1>6, <2>3, <2>4 DEF ReturnTop
  <2>6. t - 1 = m
    BY <2>5
  <2>7. W(s, 1, m) = v
    BY <2>1, <2>2, <2>3, <2>4
  <2>8. Window(s, 1, m) = W(s, 1, m)
    BY <2>1, WindowIs
  <2>9. Final' = Window(s, 1, m)
    BY <1>7, <2>6 DEF Final
  <2> QED BY <2>3, <2>7, <2>8, <2>9
<1> QED BY <1>1, <1>7, <1>16, <1>17, <1>18, <1>19, <1>20 DEF Lua!Return, Returned

\* A frame knows what its caller waits for.
LEMMA LinkSays ==
    ASSUME Compiled(Live, Held), NEW d, NEW s, NEW us, NEW fs, Caller(d, s, us, fs), NEW c, c = fs[Len(fs)],
           NEW e, Link(c, e)
    PROVE  e.nres = Want(c) /\ e.cont = Cont(c) /\ e.func = c.base + c.free
<1>1. Want(c) \in Int /\ c.base \in Int /\ c.func \in Int /\ (c.proto = Nil => c.base = c.func + 1 /\ c.free = 0)
  BY WaitsFor
<1>2. CASE c.proto = Nil
  <2>1. e.func = c.func + 1 /\ e.nres = MultRet /\ e.cont = 0
    BY <1>2 DEF Link
  <2>2. c.base + c.free = c.func + 1
    BY <1>1, <1>2
  <2> QED BY <1>2, <2>1, <2>2 DEF Want, Cont
<1>3. CASE c.proto # Nil
  BY <1>3 DEF Link, Want, Cont
<1> QED BY <1>2, <1>3

\* What a frame finds below itself: the caller that waits for it.
LEMMA CallerIs ==
    ASSUME Compiled(Live, Held), NEW d, NEW fs, Chain(d, fs), NEW s \in Seq(Value), NEW us, NEW k \in Nat, k >= d + 1,
           k + 1 \in d + 2..Len(fs), NEW gs, Chain(d, gs), Len(gs) = k, gs[k] = fs[k], UpsShape(us), Housed(d, us, gs)
    PROVE  /\ Caller(d, s, us, gs) /\ Link(gs[k], fs[k + 1]) /\ fs[k + 1].base = fs[k + 1].func + 1
<1>1. Linked(fs, k + 1) /\ (k + 1) - 1 = k
  BY DEF Chain
<1>2. Link(gs[k], fs[k + 1]) /\ fs[k + 1].base = fs[k + 1].func + 1
  BY <1>1 DEF Linked
<1>3. gs[k].proto # Nil => WaitsIn(gs[k])
  BY <1>2 DEF Link
<1> QED BY <1>2, <1>3 DEF Caller

\* A function returns to its caller, or to the protected call that waits for it.
LEMMA ReturnBack ==
    ASSUME StackInvariant, StackInvariant', Calling, Compiled(Live, Held), Return, Len(frames) # Below + 1
    PROVE  Calling' /\ Lua!Return
<1>1. At("RETURN") /\ thread' = thread /\ status = "run" /\ cur.proto # Nil /\ Lua!At("RETURN") /\ Lua!ins = ins
  BY ReturnDoes
<1>2. /\ Chain(Below, frames) /\ Housed(Below, ups, frames) /\ UpsOK(ups) /\ stack \in Seq(Value)
      /\ thread \in {"main", "coroutine"}
  BY <1>1, Finds DEF StackInvariant, Body, FramesInvariant
<1>3. PICK d \in Nat, l \in Nat : d = Below /\ l = Len(frames) /\ l >= d + 1 /\ l \in d + 1..l /\ l # d + 1
  BY <1>2, ChainEnds
<1>d. d = (IF thread = "main" THEN 0 ELSE 1)
  BY <1>3 DEF Below
<1>4. l - 1 \in Nat /\ l - 1 >= d + 1 /\ l - 1 < l /\ (l - 1) + 1 = l /\ (l - 1) - d \in Nat
      /\ (l - 1) - d >= 1 /\ ((l - 1) - d) + 1 = l - d /\ ((l - 1) - d) + d = l - 1
  BY <1>3
<1>5. PICK k \in Nat, q \in Nat : /\ k = l - 1 /\ k >= d + 1 /\ k < l /\ k + 1 = l /\ q = k - d /\ q >= 1
                                  /\ q + 1 = l - d /\ q + d = k
  BY <1>4
<1>6. status' = "run" /\ l # 1
  <2>a. l >= d + 1 /\ l # d + 1
    BY <1>3
  <2>1. l # 1 /\ (l = 2 => d = 0)
    BY <2>a
  <2>2. ~ (l = 2 /\ thread = "coroutine")
    BY <1>d, <2>1
  <2>3. Len(frames) # 1 /\ ~ (Len(frames) = 2 /\ thread = "coroutine")
    BY <1>3, <2>1, <2>2
  <2> QED BY <2>1, <2>3, ReturnDoes
<1>7. PICK us, gs : us = Closed(ups, stack, cur.base) /\ gs = SubSeq(frames, 1, k)
  OBVIOUS
<1>8. PICK u, t : u = ReturnLeaves /\ t = ReturnTop
  OBVIOUS
<1>9. Answer(u, us, gs, t, cur.nres, cur.cont)
  <2>1. Len(frames) # 1
    BY <1>3, <1>6
  <2>2. PICK x : x = Upto(frames, Len(frames) - 1)
    OBVIOUS
  <2>3. Answer(u, us, x, t, cur.nres, cur.cont)
    BY <1>7, <1>8, <2>1, <2>2, ReturnDoes
  <2>4. Len(frames) - 1 = k
    BY <1>3, <1>5
  <2>5. x = gs
    BY <1>7, <2>2, <2>4 DEF Upto
  <2> QED BY <2>3, <2>5
<1>10. Popped(d, stack, ups, frames, k, us, gs)
  <2>1. frames[k + 1] = cur
    BY <1>3, <1>5 DEF cur
  <2>2. us = Closed(ups, stack, frames[k + 1].base)
    BY <1>7, <2>1
  <2>3. k >= d + 1 /\ k < Len(frames) /\ Chain(d, frames) /\ Housed(d, ups, frames)
    BY <1>2, <1>3, <1>5
  <2> QED BY <1>2, <1>7, <2>2, <2>3, PopIs
<1>11. /\ Chain(d, gs) /\ FramesOK(gs) /\ Len(gs) = k /\ gs[k] = frames[k] /\ UpsOK(us) /\ Housed(d, us, gs)
       /\ HomeOf(us, gs, d) = Forgotten(HomeOf(ups, frames, d), k - d + 1, 0)
       /\ CellOf(stack, us) = CellOf(stack, ups) /\ UsedOf(us) = UsedOf(ups)
       /\ \A m : ActsOf(stack, gs, d, <<>>) = SubSeq(ActsOf(stack, frames, d, m), 1, k - d)
  <2>1. k \in 1..k
    BY <1>5
  <2> QED BY <1>10, <2>1 DEF Popped
<1>12. PICK c : c = gs[k]
  OBVIOUS
<1>13. Caller(d, stack, us, gs) /\ c = gs[Len(gs)] /\ Link(c, cur)
  <2>1. k + 1 \in d + 2..Len(frames) /\ k >= d + 1
    BY <1>3, <1>5
  <2>2. frames[k + 1] = cur
    BY <1>3, <1>5 DEF cur
  <2>3. UpsShape(us) /\ Chain(d, frames)
    BY <1>2, <1>3, <1>11 DEF UpsOK
  <2>4. Caller(d, stack, us, gs) /\ Link(gs[k], frames[k + 1])
    BY <1>2, <1>11, <2>1, <2>3, CallerIs
  <2> QED BY <1>11, <1>12, <2>2, <2>4
<1>14. cur.nres = Want(c) /\ cur.cont = Cont(c) /\ cur.func = c.base + c.free
  BY <1>1, <1>13, LinkSays
<1>15. PICK vs : vs = Returned
  OBVIOUS
<1>16. vs \in Seq(Value)
  BY <1>1, <1>15, ReturnedIs
<1>17. PICK rs : rs = ReturnList
  OBVIOUS
<1>18. rs = Adjust(vs, Want(c))
  <2>1. Len(frames) # 1
    BY <1>3, <1>6
  <2> QED BY <1>14, <1>15, <1>17, <2>1 DEF ReturnList
<1>19. PICK f \in Int : /\ f = cur.func /\ u \in Seq(Value) /\ Agree(stack, u, f)
                        /\ W(u, f, Len(rs)) = rs
  BY <1>8, <1>17, ReturnLies
<1>20. LandsWith(d, stack, us, gs, Resumed(View(stack, c, <<>>), vs))
  <2>1. f = c.base + c.free /\ t = f + Len(rs)
    BY <1>8, <1>14, <1>17, <1>19 DEF ReturnTop
  <2>2. Answer(u, us, gs, t, Want(c), Cont(c))
    BY <1>9, <1>14
  <2>3. u \in Seq(Value) /\ Agree(stack, u, f) /\ W(u, f, Len(rs)) = rs
    BY <1>19
  <2> QED BY <1>6, <1>13, <1>16, <1>18, <2>1, <2>2, <2>3, AnswerFrom
<1>21. /\ Activated = ActsOf(stack, frames, d, Pending) /\ Homes = HomeOf(ups, frames, d) /\ Final = <<>>
       /\ Contents = CellOf(stack, ups) /\ Used = UsedOf(ups) /\ Lua!depth = l - d
  BY <1>1, <1>3, Sees
<1>22. PICK b : b = ActsOf(stack, gs, d, <<>>)
  OBVIOUS
<1>23. b = SubSeq(Activated, 1, q) /\ b[q] = View(stack, c, <<>>)
  <2>1. ActsAre(b, stack, gs, d, <<>>)
    <3>1. d <= Len(gs)
      BY <1>5, <1>11
    <3> QED BY <1>11, <1>22, <3>1, ActsList
  <2>2. b = SubSeq(Activated, 1, q)
    BY <1>5, <1>11, <1>21, <1>22
  <2>3. q \in 1..Len(gs) - d /\ q + d = Len(gs)
    BY <1>5, <1>11
  <2>4. b[q] = View(stack, gs[q + d], <<>>)
    BY <2>1, <2>3 DEF ActsAre
  <2> QED BY <1>5, <1>12, <2>2, <2>4
<1>24. PICK a : /\ Changed(a, b, q, Resumed(b[q], vs))
                /\ Lands(Below, a, Forgotten(Homes, Lua!depth, 0), Contents, Used)
  <2>1. PICK a : /\ Changed(a, b, Len(gs) - d, Resumed(View(stack, c, <<>>), vs))
                 /\ Lands(d, a, HomeOf(us, gs, d), CellOf(stack, us), UsedOf(us))
    BY <1>20, <1>22 DEF LandsWith
  <2>2. Len(gs) - d = q /\ k - d + 1 = Lua!depth
    BY <1>5, <1>11, <1>21
  <2>3. Changed(a, b, q, Resumed(b[q], vs))
    BY <1>23, <2>1, <2>2
  <2>4. HomeOf(us, gs, d) = Forgotten(Homes, Lua!depth, 0)
    BY <1>11, <1>21, <2>2
  <2>5. CellOf(stack, us) = Contents /\ UsedOf(us) = Used
    BY <1>11, <1>21
  <2> QED BY <1>3, <2>1, <2>3, <2>4, <2>5
<1>25. PICK h, e, n : h = Forgotten(Homes, Lua!depth, 0) /\ e = Contents /\ n = Used
  OBVIOUS
<1>26. Calling' /\ Activated' = a /\ Homes' = h /\ Contents' = e /\ Used' = n /\ Final' = <<>>
  <2>1. Lands(Below, a, h, e, n)
    BY <1>24, <1>25
  <2> QED BY <1>1, <2>1, Landing
<1>27. Lua!Forget(Lua!depth, 0)
  BY <1>25, <1>26 DEF Lua!Forget, Forgotten, Lua!Nowhere
<1>28. Activated' = [Lua!Upto(Activated, q) EXCEPT ![q] =
                        IF @.proto = Nil THEN [@ EXCEPT !.more = vs] ELSE Lua!Answered(@, vs)]
  <2>1. a = [b EXCEPT ![q] = Resumed(b[q], vs)]
    BY <1>24 DEF Changed
  <2> QED BY <1>23, <1>26, <2>1 DEF Resumed, Lua!Upto
<1>29. Lua!depth # 1 /\ Lua!depth - 1 = q
  BY <1>5, <1>21
<1> QED BY <1>1, <1>6, <1>15, <1>21, <1>25, <1>26, <1>27, <1>28, <1>29 DEF Lua!Return, Returned

LEMMA ReturnIs ==
    ASSUME StackInvariant, StackInvariant', Calling, Compiled(Live, Held), Return
    PROVE  Calling' /\ Lua!Return
BY ReturnEnds, ReturnBack

\* The frame of a protected call goes: it holds no variable.
LEMMA GuardGoes ==
    ASSUME NEW d, NEW fs, Chain(d, fs), NEW us, UpsShape(us), Housed(d, us, fs), NEW s,
           NEW k \in Nat, k >= d + 1, k + 1 = Len(fs), fs[k + 1].proto = Nil,
           fs[k + 1].base = fs[k + 1].func + 1, NEW gs, CutAt(gs, fs, k)
    PROVE  /\ Chain(d, gs) /\ FramesOK(gs) /\ Len(gs) = k /\ gs[k] = fs[k]
           /\ Housed(d, us, gs) /\ HomeOf(us, gs, d) = HomeOf(us, fs, d)
           /\ \A m : CutAt(ActsOf(s, gs, d, <<>>), ActsOf(s, fs, d, m), Len(gs) - d)
<1>1. PICK l \in Nat : l = Len(fs) /\ d \in Nat /\ l >= d + 1
  BY ChainEnds
<1>2. l = k + 1
  BY <1>1
<1>3. k < Len(fs) /\ k <= Len(fs) /\ k >= d
  BY <1>1, <1>2
<1>4. Chain(d, gs) /\ FramesOK(gs) /\ Len(gs) = k /\ \A j \in 1..k : gs[j] = fs[j]
  <2>1. k \in Int
    OBVIOUS
  <2> QED BY <1>3, <2>1, ChainCut
<1>5. gs[k] = fs[k]
  <2>1. k \in 1..k
    BY <1>1
  <2> QED BY <1>4, <2>1
<1>6. \A j \in d + 1..k : gs[j] = fs[j]
  <2>1. \A j \in d + 1..k : j \in 1..k
    BY <1>1
  <2> QED BY <1>4, <2>1
<1>7. ASSUME NEW u \in Upvalues, us.var[u].state = "open" PROVE us.var[u].slot < fs[k + 1].base
  <2>1. PICK j \in d + 1..Len(fs) : Holds(fs[j], us.var[u].slot)
    BY <1>7 DEF Housed
  <2>2. fs[j].proto # Nil /\ Inside(fs[j], us.var[u].slot)
    BY <2>1 DEF Holds
  <2>3. j # k + 1
    BY <2>2
  <2>4. j \in d + 1..l - 1
    BY <1>1, <1>2, <2>3
  <2>5. l = Len(fs)
    BY <1>1
  <2>6. fs[j].base + fs[j].free <= fs[l].func
    BY <2>4, <2>5, ChainUnder
  <2>7. Shape(fs[j]) /\ Shape(fs[l])
    BY <1>1, <2>1 DEF Chain
  <2>8. PICK b \in Int, n \in Int, h \in Int, x \in Int :
              b = fs[j].base /\ n = fs[j].free /\ h = fs[l].func /\ x = us.var[u].slot
    <3>1. fs[j].base \in Int /\ fs[j].free \in Int
      BY <2>7 DEF Shape
    <3>2. fs[l].func \in Int
      BY <2>7 DEF Shape
    <3>3. us.var[u].slot \in Int
      BY DEF UpsShape
    <3> QED BY <3>1, <3>2, <3>3
  <2>9. x < b + n /\ b + n <= h
    BY <2>2, <2>6, <2>8 DEF Inside
  <2>10. x < h + 1
    BY <2>9
  <2>11. fs[k + 1].base = h + 1
    BY <1>2, <2>8
  <2> QED BY <2>8, <2>10, <2>11
<1>8. Housed(d, us, gs) /\ HomeOf(us, gs, d) = HomeOf(us, fs, d)
  <2>1. k <= Len(gs)
    BY <1>4
  <2> QED BY <1>3, <1>4, <1>6, <1>7, <2>1, HousedPart
<1>9. \A m : CutAt(ActsOf(s, gs, d, <<>>), ActsOf(s, fs, d, m), Len(gs) - d)
  <2>1. ASSUME NEW m PROVE CutAt(ActsOf(s, gs, d, <<>>), ActsOf(s, fs, d, m), Len(gs) - d)
    <3>1. \A j \in d + 1..Len(gs) : View(s, gs[j], <<>>) = View(s, fs[j], <<>>)
      BY <1>4, <1>6
    <3>2. Len(gs) < Len(fs) /\ d <= Len(gs) /\ FramesOK(fs) /\ d \in Nat
      BY <1>1, <1>3, <1>4 DEF Chain, Grounded
    <3> QED BY <1>4, <3>1, <3>2, ActsCut
  <2> QED BY <2>1
<1> QED BY <1>4, <1>5, <1>8, <1>9

\* A protected call answers.
LEMMA FinishPcallIs ==
    ASSUME StackInvariant, StackInvariant', Calling, Compiled(Live, Held), FinishPcall
    PROVE  Calling' /\ Lua!FinishGuard
<1>1. status \in {"run", "error"} /\ cur.proto = Nil /\ status' = "run" /\ thread' = thread
  BY DEF FinishPcall
<1>2. ~ Over(status)
  BY <1>1 DEF Over
<1>3. /\ Chain(Below, frames) /\ Housed(Below, ups, frames) /\ UpsShape(ups) /\ stack \in Seq(Value) /\ top \in Int
      /\ FramesIn(frames, Len(stack))
  BY <1>2 DEF Calling, Progress, StackInvariant, Body, FramesInvariant, UpsOK
<1>4. PICK d \in Nat, l \in Nat : d = Below /\ l = Len(frames) /\ l >= d + 1 /\ l \in d + 1..l /\ l \in 1..l
  BY <1>3, ChainEnds
<1>5. frames[l] = cur
  BY <1>4 DEF cur
<1>6. l # d + 1
  <2>1. frames[d + 1].proto # Nil
    BY <1>3, <1>4 DEF Chain, Grounded
  <2> QED BY <1>1, <1>5, <2>1
<1>7. l >= d + 1 /\ l # d + 1
  BY <1>4, <1>6
<1>8. l - 1 \in Nat /\ l - 1 >= d + 1 /\ l - 1 < l /\ (l - 1) + 1 = l /\ (l - 1) - d \in Nat
      /\ (l - 1) - d >= 1 /\ ((l - 1) - d) + 1 = l - d /\ ((l - 1) - d) + d = l - 1
  BY <1>7
<1>9. PICK k \in Nat, q \in Nat : /\ k = l - 1 /\ k >= d + 1 /\ k < l /\ k + 1 = l /\ q = k - d /\ q >= 1
                                  /\ q + 1 = l - d /\ q + d = k
  BY <1>8
<1>10. PICK gs : gs = SubSeq(frames, 1, k)
  OBVIOUS
<1>11. Shape(cur) /\ frames[k + 1] = cur
  BY <1>3, <1>4, <1>5, <1>9 DEF Chain
<1>12. k + 1 \in d + 2..Len(frames)
  BY <1>4, <1>9
<1>13. Linked(frames, k + 1) /\ (k + 1) - 1 = k
  BY <1>3, <1>4, <1>12 DEF Chain
<1>14. Link(frames[k], cur) /\ cur.base = cur.func + 1
  BY <1>11, <1>13 DEF Linked
<1>15. /\ Chain(d, gs) /\ FramesOK(gs) /\ Len(gs) = k /\ gs[k] = frames[k]
       /\ Housed(d, ups, gs) /\ HomeOf(ups, gs, d) = HomeOf(ups, frames, d)
       /\ \A m : CutAt(ActsOf(stack, gs, d, <<>>), ActsOf(stack, frames, d, m), Len(gs) - d)
  <2>1. Chain(d, frames) /\ Housed(d, ups, frames)
    BY <1>3, <1>4
  <2>2. CutAt(gs, frames, k)
    BY <1>10 DEF CutAt
  <2>3. k >= d + 1 /\ k + 1 = Len(frames)
    BY <1>4, <1>9
  <2>4. frames[k + 1].proto = Nil /\ frames[k + 1].base = frames[k + 1].func + 1
    BY <1>1, <1>11, <1>14
  <2> QED BY <1>3, <2>1, <2>2, <2>3, <2>4, GuardGoes
<1>16. PICK c : c = gs[k]
  OBVIOUS
<1>17. Caller(d, stack, ups, gs) /\ c = gs[Len(gs)] /\ Link(c, cur)
  <2>1. k >= d + 1
    BY <1>9
  <2>2. Chain(d, frames)
    BY <1>3, <1>4
  <2>3. Caller(d, stack, ups, gs) /\ Link(gs[k], frames[k + 1])
    BY <1>3, <1>12, <1>15, <2>1, <2>2, CallerIs
  <2> QED BY <1>11, <1>15, <1>16, <2>3
<1>18. cur.nres = Want(c) /\ cur.cont = Cont(c) /\ cur.func = c.base + c.free
  BY <1>17, LinkSays
<1>19. c.proto # Nil
  BY <1>1, <1>17 DEF Link
<1>20. PICK f \in Int, b \in Int, t \in Int : f = cur.func /\ b = cur.base /\ t = top /\ b = f + 1 /\ f >= 1
  <2>1. cur.func >= 1
    <3>1. l = Len(frames) /\ Chain(d, frames)
      BY <1>3, <1>4
    <3>2. frames[l].func >= 1
      BY <1>4, <3>1, ChainUnder
    <3> QED BY <1>5, <3>2
  <2> QED BY <1>3, <1>11, <1>14, <2>1 DEF Shape
<1>21. PICK m : m = OpenListAt(status, stack, frames, top)
  OBVIOUS
<1>22. m = IF status = "error" THEN <<>> ELSE W(stack, b, t - b)
  <2>1. cur.free = 0
    BY <1>1, <1>11 DEF Shape
  <2>2. b + 0 = b /\ t - b - 0 = t - b
    BY <1>20
  <2>3. m = IF status = "run" THEN W(stack, b + 0, t - b - 0) ELSE <<>>
    BY <1>1, <1>4, <1>5, <1>20, <1>21, <2>1 DEF OpenListAt
  <2> QED BY <1>1, <2>2, <2>3
<1>23. PICK vs : vs = IF status = "error" THEN <<Nil, Fun>> ELSE <<Obj>> \o m
  OBVIOUS
<1>24. vs \in Seq(Value)
  <2>1. CASE status = "error"
    <3>1. <<Nil, Fun>> \in Seq(Value)
      BY DEF Value
    <3> QED BY <1>23, <2>1, <3>1
  <2>2. CASE status # "error"
    <3>1. PICK n \in Int : n = t - b
      OBVIOUS
    <3>2. W(stack, b, n) \in Seq(Value)
      BY <1>3, WIsList
    <3>3. m \in Seq(Value)
      BY <1>22, <2>2, <3>1, <3>2
    <3>4. <<Obj>> \in Seq(Value)
      BY DEF Value
    <3>5. <<Obj>> \o m \in Seq(Value)
      BY <3>3, <3>4, ConcatProperties
    <3> QED BY <1>23, <2>2, <3>5
  <2> QED BY <2>1, <2>2
<1>25. PICK s : s = IF status = "error" THEN stack ELSE Wipe(stack, Restored(cur), top - 1)
  OBVIOUS
<1>26. s \in Seq(Value) /\ Agree(stack, s, f)
  <2>1. CASE status = "error"
    BY <1>3, <1>25, <2>1 DEF Agree
  <2>2. CASE status # "error"
    <3>1. cur.nargs \in Nat
      BY <1>3, <1>4, <1>5 DEF FramesIn, FrameIn
    <3>2. PICK n \in Nat : n = cur.nargs
      BY <3>1
    <3>3. PICK lo \in Int : lo = f + 1 + n /\ lo > f
      OBVIOUS
    <3>4. s = Wipe(stack, lo, top - 1)
      BY <1>20, <1>25, <2>2, <3>2, <3>3 DEF Restored
    <3>5. s \in Seq(Value)
      BY <1>3, <3>4, WipeLaid
    <3>6. \A j \in Int : j < f => Slot(s, j) = Slot(stack, j)
      <4>1. ASSUME NEW j \in Int, j < f PROVE Slot(s, j) = Slot(stack, j)
        <5>1. j < lo
          BY <3>3, <4>1
        <5>2. Slot(Wipe(stack, lo, top - 1), j) = Slot(stack, j)
          BY <1>3, <5>1, WipeBelow
        <5> QED BY <3>4, <5>2
      <4> QED BY <4>1
    <3> QED BY <3>5, <3>6 DEF Agree
  <2> QED BY <2>1, <2>2
<1>27. PICK g \in Int : g = f + 1 /\ g >= f
  OBVIOUS
<1>28. Deliver(s, ups, gs, g, vs, f, Want(c), Cont(c))
  <2>1. PICK r : r = Window(stack, cur.func + 1, top - cur.func - 1)
    OBVIOUS
  <2>2. status # "error" => r = m
    <3>1. f + 1 = b /\ t - f - 1 = t - b
      BY <1>20
    <3>2. PICK n \in Int : n = t - b
      OBVIOUS
    <3>3. b >= 1
      BY <1>20
    <3>4. Window(stack, b, n) = W(stack, b, n)
      BY <1>3, <3>3, WindowIs
    <3>5. r = Window(stack, b, n)
      BY <1>20, <2>1, <3>1, <3>2
    <3> QED BY <1>22, <3>2, <3>4, <3>5
  <2>3. (IF status = "error" THEN <<Nil, Fun>> ELSE <<Obj>> \o r) = vs
    BY <1>23, <2>2
  <2>4. Upto(frames, Len(frames) - 1) = gs
    <3>1. Len(frames) - 1 = k
      BY <1>4, <1>9
    <3> QED BY <1>10, <3>1 DEF Upto
  <2>5. Deliver(s, ups, Upto(frames, Len(frames) - 1), cur.func + 1,
                IF status = "error" THEN <<Nil, Fun>> ELSE <<Obj>> \o r, cur.func, cur.nres, cur.cont)
    BY <1>25, <2>1 DEF FinishPcall
  <2> QED BY <1>18, <1>20, <1>27, <2>3, <2>4, <2>5
<1>29. /\ Caller(d, s, ups, gs) /\ ActsOf(s, gs, d, <<>>) = ActsOf(stack, gs, d, <<>>)
       /\ CellOf(s, ups) = CellOf(stack, ups) /\ View(s, c, <<>>) = View(stack, c, <<>>)
  <2>1. f = gs[Len(gs)].base + gs[Len(gs)].free
    BY <1>17, <1>18, <1>20
  <2>2. /\ Caller(d, s, ups, gs) /\ ActsOf(s, gs, d, <<>>) = ActsOf(stack, gs, d, <<>>)
        /\ CellOf(s, ups) = CellOf(stack, ups) /\ \A x : View(s, gs[Len(gs)], x) = View(stack, gs[Len(gs)], x)
    BY <1>17, <1>26, <2>1, SeesSame
  <2> QED BY <1>17, <2>2
<1>30. LandsWith(d, s, ups, gs, Resumed(View(s, c, <<>>), vs))
  <2>1. f = c.base + c.free /\ g >= f
    BY <1>18, <1>20, <1>27
  <2> QED BY <1>1, <1>17, <1>24, <1>28, <1>29, <2>1, DeliverIs
<1>31. /\ Activated = ActsOf(stack, frames, d, m) /\ Homes = HomeOf(ups, frames, d) /\ Final = <<>>
       /\ Contents = CellOf(stack, ups) /\ Used = UsedOf(ups)
  BY <1>2, <1>4, <1>21, SeenActs, SeenHomes, CellsAre
<1>32. PICK b2 : b2 = ActsOf(stack, gs, d, <<>>)
  OBVIOUS
<1>33. b2 = SubSeq(Activated, 1, q) /\ b2[q] = View(stack, c, <<>>)
  <2>1. ActsAre(b2, stack, gs, d, <<>>)
    <3>1. d <= Len(gs)
      BY <1>9, <1>15
    <3> QED BY <1>15, <1>32, <3>1, ActsList
  <2>2. b2 = SubSeq(Activated, 1, q)
    <3>1. CutAt(b2, Activated, Len(gs) - d)
      BY <1>15, <1>31, <1>32
    <3>2. Len(gs) - d = q
      BY <1>9, <1>15
    <3> QED BY <3>1, <3>2 DEF CutAt
  <2>3. q \in 1..Len(gs) - d /\ q + d = Len(gs)
    BY <1>9, <1>15
  <2>4. b2[q] = View(stack, gs[q + d], <<>>)
    BY <2>1, <2>3 DEF ActsAre
  <2> QED BY <1>9, <1>16, <2>2, <2>4
<1>34. Lua!depth = l - d /\ Lua!cur = View(stack, cur, m)
  <2>1. ActsAre(Activated, stack, frames, d, m)
    <3>1. d <= Len(frames) /\ FramesOK(frames)
      BY <1>3, <1>4 DEF Chain, Grounded
    <3> QED BY <1>31, <3>1, ActsList
  <2>2. PICK n \in Nat : n = l - d /\ n \in 1..n /\ n + d = l
    <3>1. l - d \in Nat /\ l - d >= 1 /\ (l - d) + d = l
      BY <1>7
    <3> QED BY <3>1
  <2>3. Len(Activated) = n /\ Activated[n] = View(stack, frames[n + d], IF n + d = Len(frames) THEN m ELSE <<>>)
    BY <1>4, <2>1, <2>2 DEF ActsAre
  <2>4. Activated[n] = View(stack, cur, m)
    BY <1>4, <1>5, <2>2, <2>3
  <2> QED BY <2>2, <2>3, <2>4 DEF Lua!depth, Lua!cur
<1>35. PICK a : /\ Changed(a, b2, q, Resumed(b2[q], vs))
                /\ Lands(Below, a, Homes, Contents, Used)
  <2>1. PICK a : /\ Changed(a, b2, Len(gs) - d, Resumed(View(stack, c, <<>>), vs))
                 /\ Lands(d, a, HomeOf(ups, gs, d), CellOf(stack, ups), UsedOf(ups))
    BY <1>29, <1>30, <1>32 DEF LandsWith
  <2>2. Len(gs) - d = q
    BY <1>9, <1>15
  <2>3. Changed(a, b2, q, Resumed(b2[q], vs))
    BY <1>33, <2>1, <2>2
  <2>4. HomeOf(ups, gs, d) = Homes
    BY <1>15, <1>31
  <2> QED BY <1>4, <1>31, <2>1, <2>3, <2>4
<1>36. PICK h, e, n : h = Homes /\ e = Contents /\ n = Used
  OBVIOUS
<1>37. Calling' /\ Activated' = a /\ Homes' = h /\ Contents' = e /\ Used' = n /\ Final' = <<>>
  <2>1. Lands(Below, a, h, e, n)
    BY <1>35, <1>36
  <2> QED BY <1>1, <2>1, Landing
<1>38. b2[q].proto # Nil
  <2>1. View(stack, c, <<>>).proto = c.proto
    BY DEF View
  <2> QED BY <1>19, <1>33, <2>1
<1>39. Activated' = [Lua!Upto(Activated, q) EXCEPT ![q] = Lua!Answered(@, vs)]
  <2>1. Resumed(b2[q], vs) = Lua!Answered(b2[q], vs)
    BY <1>38 DEF Resumed
  <2>2. a = [b2 EXCEPT ![q] = Lua!Answered(b2[q], vs)]
    BY <1>35, <2>1 DEF Changed
  <2> QED BY <1>33, <1>37, <2>2 DEF Lua!Upto
<1>40. Lua!depth - 1 = q
  BY <1>9, <1>34
<1>41. Lua!cur.proto = Nil /\ Lua!cur.more = m
  BY <1>1, <1>34 DEF View
<1> QED BY <1>1, <1>23, <1>31, <1>36, <1>37, <1>39, <1>40, <1>41 DEF Lua!FinishGuard

-----------------------------------------------------------------------------
(* How a thread begins. *)

\* The function p begins with the list vs in the frame behind the first d.
Begins(d, s, us, fs, p, vs) ==
    /\ FramesOK(fs) /\ d \in {0, 1} /\ Len(fs) = d + 1 /\ Shape(fs[d + 1])
    /\ fs[d + 1].proto = p /\ fs[d + 1].func = 1 /\ fs[d + 1].base = d + 1
    /\ fs[d + 1].pc = 1 /\ fs[d + 1].free = Params[p]
    /\ d = 1 => fs[2].nres = MultRet /\ fs[2].cont = 0
    /\ W(s, d + 1, Params[p]) = Adjust(vs, Params[p])
    /\ fs[d + 1].varargs = IF p \in Variadic THEN From(vs, Params[p] + 1) ELSE <<>>
    /\ \A u \in Upvalues : us.var[u].state # "open"

LEMMA BeginsIs ==
    ASSUME Compiled(Live, Held), NEW d, NEW s, NEW us, NEW fs, NEW p \in Protos, NEW vs,
           Begins(d, s, us, fs, p, vs), NEW t, NEW q, NEW st, st = "run"
    PROVE  /\ Progress(d, st, us, fs, t, q)
           /\ ActsOf(s, fs, d, OpenListAt(st, s, fs, t)) = <<Lua!Activation(p, vs)>>
           /\ HomeOf(us, fs, d) = [u \in Upvalues |-> <<0, 0>>]
<1>0. p # Nil
  BY ProtoAssumption
<1>1. Live[p][1] = Params[p] /\ ~ Consumes(p, 1)
  <2>1. PICK o : o = FALSE
    OBVIOUS
  <2>2. Leads(Live, Held, p, 1, Params[p], {}, o)
    BY <2>1 DEF Compiled
  <2> QED BY <2>1, <2>2 DEF Leads
<1>2. PICK c : c = fs[d + 1]
  OBVIOUS
<1>3. PICK l \in Nat : l = Len(fs) /\ l = d + 1 /\ d \in Nat /\ l > d
  BY DEF Begins
<1>4. fs[Len(fs)] = c
  BY <1>2, <1>3
<1>5. /\ Shape(c) /\ c.proto = p /\ c.func = 1 /\ c.base = d + 1 /\ c.pc = 1 /\ c.free = Params[p]
      /\ d = 1 => fs[2].nres = MultRet /\ fs[2].cont = 0
      /\ W(s, d + 1, Params[p]) = Adjust(vs, Params[p])
      /\ c.varargs = IF p \in Variadic THEN From(vs, Params[p] + 1) ELSE <<>>
      /\ FramesOK(fs) /\ d \in {0, 1}
  BY <1>2 DEF Begins
<1>6. \A u \in Upvalues : us.var[u].state # "open"
  BY DEF Begins
<1>7. Chain(d, fs)
  <2>1. Grounded(d, fs)
    BY <1>0, <1>2, <1>3, <1>5 DEF Grounded
  <2>2. \A k \in d + 1..Len(fs) : Shape(fs[k])
    <3>1. \A k \in d + 1..Len(fs) : k = d + 1
      BY <1>3
    <3> QED BY <1>2, <1>5, <3>1
  <2>3. d + 2..Len(fs) = {}
    BY <1>3
  <2> QED BY <2>1, <2>2, <2>3 DEF Chain
<1>8. Housed(d, us, fs)
  BY <1>6 DEF Housed
<1>9. RunsAt(fs, t)
  BY <1>0, <1>1, <1>4, <1>5 DEF RunsAt
<1>10. Progress(d, st, us, fs, t, q)
  BY <1>7, <1>8, <1>9 DEF Progress
<1>11. OpenListAt(st, s, fs, t) = <<>>
  BY <1>0, <1>1, <1>4, <1>5 DEF OpenListAt
<1>12. View(s, c, <<>>) = Starts(p, vs)
  BY <1>5 DEF View, Starts
<1>13. PICK x : x = Starts(p, vs)
  OBVIOUS
<1>14. PICK a : a = ActsOf(s, fs, d, <<>>)
  OBVIOUS
<1>15. ActsAre(a, s, fs, d, <<>>)
  <2>1. d \in Nat /\ d <= Len(fs)
    BY <1>3
  <2>2. ActsAre(ActsOf(s, fs, d, <<>>), s, fs, d, <<>>)
    BY <1>5, <2>1, ActsList
  <2> QED BY <1>14, <2>2
<1>16. (\E T : a \in Seq(T)) /\ Len(a) = 1 /\ a[1] = x
  <2>1. 1 \in 1..Len(fs) - d /\ Len(fs) - d = 1 /\ 1 + d = d + 1 /\ 1 + d = Len(fs)
    BY <1>3
  <2>2. a[1] = View(s, fs[1 + d], IF 1 + d = Len(fs) THEN <<>> ELSE <<>>)
    BY <1>15, <2>1 DEF ActsAre
  <2>3. a[1] = View(s, c, <<>>)
    BY <1>2, <2>1, <2>2
  <2> QED BY <1>12, <1>13, <1>15, <2>1, <2>3 DEF ActsAre
<1>17. a = <<x>>
  <2>1. <<x>> \in Seq({x}) /\ Len(<<x>>) = 1 /\ <<x>>[1] = x
    OBVIOUS
  <2>2. PICK b : b = <<x>>
    OBVIOUS
  <2>3. (\E T : b \in Seq(T)) /\ Len(a) = Len(b) /\ \A i \in 1..Len(a) : a[i] = b[i]
    <3>1. \A i \in 1..Len(a) : i = 1
      BY <1>16
    <3> QED BY <1>16, <2>1, <2>2, <3>1
  <2> QED BY <1>16, <2>2, <2>3, SameActs
<1>18. HomeOf(us, fs, d) = [u \in Upvalues |-> <<0, 0>>]
  BY <1>6 DEF HomeOf
<1> QED BY <1>10, <1>11, <1>13, <1>14, <1>17, <1>18, ActivationIs

\* The root frame of a main program.
LEMMA RootBegins ==
    ASSUME Compiled(Live, Held), NEW s, NEW us, \A u \in Upvalues : us.var[u].state # "open",
           NEW p \in Chunks, NEW vs \in Lists
    PROVE  Begins(0, s, us, <<Root(p, vs)>>, p, vs)
<1>1. p \in Protos /\ p # Nil /\ Params[p] = 0 /\ p \in Variadic /\ vs \in Seq(Value) /\ Room[p] \in Nat
  BY ProtoAssumption DEF Protos
<1>2. FramesOK(<<Root(p, vs)>>)
  BY RootOK
<1>3. PICK fs : fs = <<Root(p, vs)>>
  OBVIOUS
<1>4. PICK z \in Int : z = 0
  OBVIOUS
<1>5. Len(fs) = 1 /\ fs[1] = Root(p, vs) /\ z + 1 = 1 /\ z \in {0, 1} /\ z # 1
  BY <1>3, <1>4
<1>6. PICK ct \in Int : ct = 1 + Room[p]
  BY <1>1
<1>7. Root(p, vs) = [proto |-> p, func |-> 1, base |-> 1, nargs |-> 0, ctop |-> ct, nres |-> 0,
                     varargs |-> vs, cont |-> 0, pc |-> 1, free |-> 0]
  BY <1>1, <1>6 DEF Root, CallInfo
<1>8. 1 \in DOMAIN Code[p]
  <2>1. PICK o : o = FALSE
    OBVIOUS
  <2>2. Leads(Live, Held, p, 1, Params[p], {}, o)
    BY <1>1, <2>1 DEF Compiled
  <2> QED BY <2>2 DEF Leads
<1>9. Shape(Root(p, vs))
  BY <1>1, <1>7, <1>8 DEF Shape
<1>10. W(s, 1, 0) = Adjust(vs, 0)
  <2>1. W(s, 1, 0) = <<>>
    BY WNone
  <2>2. Adjust(vs, 0) \in Seq(Value) /\ Len(Adjust(vs, 0)) = 0
    <3>1. 0 # MultRet /\ 0 \in Int
      BY DEF MultRet
    <3>2. Adjust(vs, 0) \in Seq(Value) /\ Len(Adjust(vs, 0)) = IF 0 = MultRet THEN Len(vs) ELSE IF 0 > 0 THEN 0 ELSE 0
      BY <1>1, <3>1, AdjustIs
    <3> QED BY <3>1, <3>2
  <2>3. Adjust(vs, 0) = <<>>
    BY <2>2, EmptySeq
  <2> QED BY <2>1, <2>3
<1>11. From(vs, 0 + 1) = vs
  <2>1. SubSeq(vs, 1, Len(vs)) = vs
    BY <1>1
  <2> QED BY <2>1 DEF From
<1>12. Begins(z, s, us, fs, p, vs)
  BY <1>1, <1>2, <1>3, <1>5, <1>7, <1>9, <1>10, <1>11 DEF Begins
<1> QED BY <1>3, <1>4, <1>12

LEMMA RestartIs ==
    ASSUME StackInvariant, StackInvariant', Calling, Compiled(Live, Held), Restart
    PROVE  Calling' /\ Lua!Restart
<1>1. thread = "main" /\ Over(status) /\ status \in {"done", "dead"} /\ status' = "run" /\ thread' = thread
      /\ ups' = ups
  BY DEF Restart, Over
<1>2. PICK p \in Chunks : \E vs \in Lists : frames' = <<Root(p, vs)>>
  BY DEF Restart
<1>3. PICK vs \in Lists : frames' = <<Root(p, vs)>>
  BY <1>2
<1>4. PICK d : d = Below /\ d = 0
  BY <1>1 DEF Below
<1>5. \A u \in Upvalues : ups.var[u].state # "open"
  BY <1>1, <1>4 DEF Calling, Rest
<1>6. PICK s, us, fs : s = stack' /\ us = ups /\ fs = frames'
  OBVIOUS
<1>7. Begins(d, s, us, fs, p, vs)
  <2>1. \A u \in Upvalues : us.var[u].state # "open"
    BY <1>5, <1>6
  <2>2. Begins(0, s, us, <<Root(p, vs)>>, p, vs)
    BY <2>1, RootBegins
  <2> QED BY <1>3, <1>4, <1>6, <2>2
<1>8. p \in Protos
  BY DEF Protos
<1>9. PICK st, t, q : st = status' /\ t = top' /\ q = pending'
  OBVIOUS
<1>10. st = "run"
  BY <1>1, <1>9
<1>11. /\ Progress(d, st, us, fs, t, q)
       /\ ActsOf(s, fs, d, OpenListAt(st, s, fs, t)) = <<Lua!Activation(p, vs)>>
       /\ HomeOf(us, fs, d) = [u \in Upvalues |-> <<0, 0>>]
  BY <1>7, <1>8, <1>10, BeginsIs
<1>12. CellOf(s, us) = CellOf(stack, ups)
  BY <1>5, <1>6 DEF CellOf
<1>13. PICK a, h, e, n : /\ a = <<Lua!Activation(p, vs)>> /\ h = [u \in Upvalues |-> <<0, 0>>]
                         /\ e = CellOf(stack, ups) /\ n = UsedOf(ups)
  OBVIOUS
<1>14. Lands(d, a, h, e, n)
  BY <1>1, <1>6, <1>9, <1>10, <1>11, <1>12, <1>13 DEF Lands, Over
<1>15. Calling' /\ Activated' = a /\ Homes' = h /\ Contents' = e /\ Used' = n /\ Final' = <<>>
  BY <1>1, <1>4, <1>14, Landing
<1>16. Homes = h
  BY <1>1, <1>13, SeenOver
<1>17. Contents = e /\ Used = n
  BY <1>13, CellsAre
<1>18. Lua!Begin(Chunks, Activated')
  BY <1>13, <1>15 DEF Lua!Begin
<1> QED BY <1>1, <1>15, <1>16, <1>17, <1>18 DEF Lua!Restart

\* The first function of a coroutine, above the root frame of its state.
LEMMA CoroutineBegins ==
    ASSUME Compiled(Live, Held), NEW us, \A u \in Upvalues : us.var[u].state # "open",
           NEW p \in Protos, NEW vs \in Lists, NEW z, z = <<Fun>> \o vs, NEW n \in Nat, n = Len(vs),
           NEW fs, FramesOK(fs),
           fs = <<Idle, CallInfo(p, 1, n, 2 + Room[p], MultRet, Extra(z, 2, n, p), 0)>>
    PROVE  Begins(1, Prepared(z, 2, n, p), us, fs, p, vs)
<1>1. p # Nil /\ vs \in Seq(Value) /\ Params[p] \in Nat /\ Room[p] \in Nat /\ Params[p] <= Room[p]
  BY ProtoAssumption
<1>2. z \in Seq(Value) /\ Len(z) = n + 1 /\ \A i \in 2..n + 1 : z[i] = vs[i - 1]
  <2>1. PICK x : x = <<Fun>>
    OBVIOUS
  <2>2. x \in Seq(Value) /\ Len(x) = 1
    BY <2>1 DEF Value
  <2>3. /\ x \o vs \in Seq(Value) /\ Len(x \o vs) = Len(x) + Len(vs)
        /\ \A i \in 1..Len(x) + Len(vs) : (x \o vs)[i] = IF i <= Len(x) THEN x[i] ELSE vs[i - Len(x)]
    BY <1>1, <2>2, ConcatProperties
  <2>4. \A i \in 2..n + 1 : i \in 1..1 + n /\ ~ i <= 1
    OBVIOUS
  <2> QED BY <2>1, <2>2, <2>3, <2>4
<1>3. W(z, 2, n) = vs
  <2>1. W(z, 2, n) \in Seq(Value) /\ Len(W(z, 2, n)) = n /\ \A i \in 1..n : W(z, 2, n)[i] = Slot(z, 2 + i - 1)
    <3>1. PICK b \in Int, m \in Int : b = 2 /\ m = n /\ m >= 0
      OBVIOUS
    <3>2. /\ W(z, b, m) \in Seq(Value) /\ Len(W(z, b, m)) = IF m > 0 THEN m ELSE 0
          /\ \A i \in 1..m : W(z, b, m)[i] = Slot(z, b + i - 1)
      BY <1>2, WIsList
    <3>3. Len(W(z, b, m)) = m
      BY <3>1, <3>2
    <3> QED BY <3>1, <3>2, <3>3
  <2>2. ASSUME NEW i \in 1..n PROVE W(z, 2, n)[i] = vs[i]
    <3>1. 2 + i - 1 = i + 1 /\ i + 1 \in 2..n + 1 /\ i + 1 \in 1..Len(z) /\ (i + 1) - 1 = i
      BY <1>2
    <3>2. Slot(z, i + 1) = z[i + 1]
      BY <1>2, <3>1 DEF Slot
    <3>3. z[i + 1] = vs[(i + 1) - 1]
      BY <1>2, <3>1
    <3> QED BY <2>1, <3>1, <3>2, <3>3
  <2>3. \A i \in 1..Len(W(z, 2, n)) : W(z, 2, n)[i] = vs[i]
    BY <2>1, <2>2
  <2> QED BY <1>1, <2>1, <2>3, SameLists
<1>s. PICK s : s = Prepared(z, 2, n, p)
  OBVIOUS
<1>4. PICK b \in Int : b = 2 /\ b >= 1 /\ s = Prepared(z, 2, n, p)
  BY <1>s
<1>5. W(s, b, Params[p]) = Adjust(vs, Params[p])
  <2>1. Prepares(Prepared(z, b, n, p), z, b, n, p)
    BY <1>2, <1>4, PreparedIs
  <2>2. W(s, b, Params[p]) = Adjust(W(z, b, n), Params[p])
    BY <1>4, <2>1 DEF Prepares
  <2> QED BY <1>3, <1>4, <2>2
<1>6. PICK x : x = Extra(z, b, n, p)
  OBVIOUS
<1>7. x = IF p \in Variadic THEN From(vs, Params[p] + 1) ELSE <<>>
  <2>1. Extra(z, b, n, p) = IF p \in Variadic THEN From(W(z, b, n), Params[p] + 1) ELSE <<>>
    BY <1>2, <1>4, ExtraIs
  <2> QED BY <1>3, <1>4, <1>6, <2>1
<1>8. x \in Seq(Value)
  <2>1. n \in Int
    OBVIOUS
  <2>2. Extra(z, b, n, p) \in Seq(Value)
    BY <1>2, <1>4, <2>1, ExtraLaid
  <2> QED BY <1>6, <2>2
<1>9. 1 \in DOMAIN Code[p]
  <2>1. PICK o : o = FALSE
    OBVIOUS
  <2>2. Leads(Live, Held, p, 1, Params[p], {}, o)
    BY <2>1 DEF Compiled
  <2> QED BY <2>2 DEF Leads
<1>10. PICK c : c = CallInfo(p, 1, n, 2 + Room[p], MultRet, x, 0)
  OBVIOUS
<1>11. PICK ct \in Int, q \in Nat, m \in Int : ct = 2 + Room[p] /\ q = Params[p] /\ m = MultRet /\ q <= Room[p]
  BY <1>1 DEF MultRet
<1>12. c = [proto |-> p, func |-> 1, base |-> b, nargs |-> n, ctop |-> ct, nres |-> m, varargs |-> x,
            cont |-> 0, pc |-> 1, free |-> q]
  BY <1>1, <1>4, <1>10, <1>11 DEF CallInfo
<1>13. Shape(c)
  BY <1>1, <1>4, <1>8, <1>9, <1>11, <1>12 DEF Shape
<1>14. Len(fs) = 2 /\ fs[2] = c
  <2>1. PICK r : r = Idle
    OBVIOUS
  <2>2. fs = <<r, c>>
    BY <1>4, <1>6, <1>10, <2>1
  <2> QED BY <2>2
<1>15. PICK d \in Int : d = 1 /\ d \in {0, 1} /\ d + 1 = 2 /\ d + 1 = b
  BY <1>4
<1>16. Begins(d, s, us, fs, p, vs)
  BY <1>4, <1>5, <1>7, <1>11, <1>12, <1>13, <1>14, <1>15 DEF Begins
<1> QED BY <1>4, <1>15, <1>16

LEMMA InitIs ==
    ASSUME StackInvariant, Compiled(Live, Held), Init
    PROVE  Calling /\ Lua!Init
<1>1. PICK v : v = [u \in Upvalues |-> [state |-> "unused", slot |-> 0, val |-> Nil]] /\ ups.var = v
  BY DEF Init
<1>2. \A u \in Upvalues : ups.var[u].state = "unused" /\ ups.var[u].val = Nil
  BY <1>1
<1>3. PICK us, s, fs, t, q, st : /\ us = ups /\ s = stack /\ fs = frames /\ t = top /\ q = pending
                                 /\ st = status /\ st = "run"
  BY DEF Init
<1>4. \A u \in Upvalues : us.var[u].state # "open"
  BY <1>2, <1>3
<1>5. FramesOK(fs)
  BY <1>3 DEF StackInvariant, FramesInvariant
<1>6. PICK d : d = Below
  OBVIOUS
<1>7. \E p \in Protos : \E vs \in Lists : Begins(d, s, us, fs, p, vs)
  <2>1. CASE thread = "main"
    <3>1. PICK p \in Chunks : \E vs \in Lists : frames = <<Root(p, vs)>>
      BY <2>1 DEF Init
    <3>2. PICK vs \in Lists : frames = <<Root(p, vs)>>
      BY <3>1
    <3>3. Begins(0, s, us, <<Root(p, vs)>>, p, vs)
      BY <1>4, RootBegins
    <3>4. d = 0
      BY <1>6, <2>1 DEF Below
    <3>5. p \in Protos
      BY DEF Protos
    <3> QED BY <1>3, <3>2, <3>3, <3>4, <3>5
  <2>2. CASE thread # "main"
    <3>1. PICK p \in Protos : \E vs \in Lists :
             /\ stack = Prepared(<<Fun>> \o vs, 2, Len(vs), p)
             /\ frames = <<Idle, CallInfo(p, 1, Len(vs), 2 + Room[p], MultRet,
                                          Extra(<<Fun>> \o vs, 2, Len(vs), p), 0)>>
      BY <2>2 DEF Init
    <3>2. PICK vs \in Lists :
             /\ stack = Prepared(<<Fun>> \o vs, 2, Len(vs), p)
             /\ frames = <<Idle, CallInfo(p, 1, Len(vs), 2 + Room[p], MultRet,
                                          Extra(<<Fun>> \o vs, 2, Len(vs), p), 0)>>
      BY <3>1
    <3>3. PICK n \in Nat : n = Len(vs)
      BY ProtoAssumption
    <3>4. PICK z : z = <<Fun>> \o vs
      OBVIOUS
    <3>5. fs = <<Idle, CallInfo(p, 1, n, 2 + Room[p], MultRet, Extra(z, 2, n, p), 0)>>
      BY <1>3, <3>2, <3>3, <3>4
    <3>6. Begins(1, Prepared(z, 2, n, p), us, fs, p, vs)
      BY <1>4, <1>5, <3>3, <3>4, <3>5, CoroutineBegins
    <3>7. s = Prepared(z, 2, n, p)
      BY <1>3, <3>2, <3>3, <3>4
    <3>8. d = 1
      BY <1>6, <2>2 DEF Below
    <3> QED BY <3>6, <3>7, <3>8
  <2> QED BY <2>1, <2>2
<1>8. PICK p \in Protos : \E vs \in Lists : Begins(d, s, us, fs, p, vs)
  BY <1>7
<1>9. PICK vs \in Lists : Begins(d, s, us, fs, p, vs)
  BY <1>8
<1>10. st = "run"
  BY <1>3
<1>11. /\ Progress(d, st, us, fs, t, q)
       /\ ActsOf(s, fs, d, OpenListAt(st, s, fs, t)) = <<Lua!Activation(p, vs)>>
       /\ HomeOf(us, fs, d) = [u \in Upvalues |-> <<0, 0>>]
  BY <1>9, <1>10, BeginsIs
<1>12. ~ Over(status)
  BY <1>3 DEF Over
<1>13. Calling
  BY <1>3, <1>6, <1>11, <1>12 DEF Calling
<1>14. Activated = <<Lua!Activation(p, vs)>>
  BY <1>3, <1>6, <1>11, <1>12, <1>13, SeenActs
<1>15. Homes = [u \in Upvalues |-> Lua!Nowhere] /\ Final = <<>>
  BY <1>3, <1>6, <1>11, <1>12, <1>13, SeenHomes DEF Lua!Nowhere
<1>16. Contents = [u \in Upvalues |-> Nil]
  BY <1>2 DEF Contents, Content
<1>17. Used = {}
  BY <1>2 DEF Used
<1>18. Lua!Begin(Lua!Protos, Activated)
  <2>1. Lua!Protos = Protos
    BY DEF Lua!Protos, Protos
  <2> QED BY <1>14, <2>1 DEF Lua!Begin
<1> QED BY <1>3, <1>13, <1>15, <1>16, <1>17, <1>18 DEF Lua!Init

-----------------------------------------------------------------------------
(* The theorem. *)

LEMMA NextIs ==
    ASSUME StackInvariant, StackInvariant', Calling, Compiled(Live, Held), ~ IteratorYields, Next
    PROVE  Calling' /\ Lua!Next
<1>1. CASE LoadK \/ Move \/ GetUpvalue \/ Closure
  <2>1. Calling' /\ (Lua!LoadK \/ Lua!Move \/ Lua!GetUpvalue \/ Lua!Closure)
    BY <1>1, LoadKIs, MoveIs, GetUpvalueIs, ClosureIs
  <2> QED BY <2>1 DEF Lua!Next
<1>2. CASE SetUpvalue \/ OtherSets \/ Close
  <2>1. Calling' /\ (Lua!SetUpvalue \/ Lua!OtherSets \/ Lua!Close)
    BY <1>2, SetUpvalueIs, OtherSetsIs, CloseIs
  <2> QED BY <2>1 DEF Lua!Next
<1>3. CASE Vararg \/ SetList \/ Jump \/ Test
  <2>1. Calling' /\ (Lua!Vararg \/ Lua!SetList \/ Lua!Jump)
    BY <1>3, VarargIs, SetListIs, JumpIs, TestIs
  <2> QED BY <2>1 DEF Lua!Next
<1>4. CASE Call \/ TailCall \/ ForCall
  <2>1. Calling' /\ (Lua!Call \/ Lua!TailCall \/ Lua!ForCall \/ Lua!Fail)
    BY <1>4, CallIs, TailCallIs, ForCallIs
  <2> QED BY <2>1 DEF Lua!Next
<1>5. CASE Resume \/ Return \/ Fail
  <2>1. Calling' /\ (Lua!Resume \/ Lua!Return \/ Lua!Fail)
    BY <1>5, ResumeIs, ReturnIs, FailIs
  <2> QED BY <2>1 DEF Lua!Next
<1>6. CASE FinishPcall \/ Restart
  <2>1. Calling' /\ (Lua!FinishGuard \/ Lua!Restart)
    BY <1>6, FinishPcallIs, RestartIs
  <2> QED BY <2>1 DEF Lua!Next
<1> QED BY <1>1, <1>2, <1>3, <1>4, <1>5, <1>6 DEF Next

LEMMA StutterIs ==
    ASSUME Calling, UNCHANGED vars
    PROVE  Calling' /\ UNCHANGED Lua!vars
<1>1. /\ stack' = stack /\ top' = top /\ frames' = frames /\ ups' = ups /\ status' = status
      /\ pending' = pending /\ thread' = thread
  BY DEF vars
<1>2. Below' = Below
  BY <1>1 DEF Below
<1>3. Calling'
  BY <1>1, <1>2 DEF Calling
<1>4. Height' = Height
  BY <1>1, <1>2 DEF Height
<1>5. \A k : Seen(k)' = Seen(k)
  BY <1>1 DEF Seen
<1>6. Activated' = Activated
  BY <1>1, <1>2, <1>4, <1>5 DEF Activated
<1>7. Contents' = Contents /\ Used' = Used
  BY <1>1 DEF Contents, Content, Used
<1>8. Homes' = Homes
  BY <1>1, <1>2, <1>4 DEF Homes, Owner, Place
<1>9. Final' = Final
  BY <1>1 DEF Final
<1> QED BY <1>1, <1>3, <1>6, <1>7, <1>8, <1>9 DEF Lua!vars

\* Overlapping windows, shared slots and results moved in place behave like
\* activations with registers of their own, for every program that the compiler
\* can deliver (Compiled) and in which no iterator of a generic for yields.
THEOREM CallsImplementActivations ==
    ASSUME NEW live, NEW held, Compiled(live, held), ~ IteratorYields
    PROVE  Spec => CallsAreActivations
<1>1. Compiled(Live, Held)
  BY CompiledSo
<1>2. StackInvariant /\ Init => Calling /\ Lua!Init
  BY <1>1, InitIs
<1>3. StackInvariant /\ StackInvariant' /\ Calling /\ [Next]_vars => Calling' /\ [Lua!Next]_Lua!vars
  BY <1>1, NextIs, StutterIs
<1> QED BY <1>2, <1>3, StackKeepsInvariant, PTL DEF Spec, CallsAreActivations, Lua!Spec
=============================================================================
