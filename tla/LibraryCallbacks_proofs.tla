----------------------- MODULE LibraryCallbacks_proofs -----------------------
(***************************************************************************)
(* Proofs about LuaTable and about LibraryCallbacks, which runs beside it, *)
(* for tables, matches and modules of any number.                          *)
(*                                                                         *)
(* The first half is about TableSpec: what the operations on a table       *)
(* return, what a traversal may rely on, that map and order stay in step,  *)
(* that the table is a dictionary and that its length is a border.         *)
(*                                                                         *)
(* The second half is about the functions that wait in callbacks:          *)
(* table.sort writes back a permutation, and a sorted one if the           *)
(* comparison is honest; string.gsub replaces every match once; require    *)
(* keeps returning what it returned.  The table remains one of TableSpec.  *)
(***************************************************************************)
EXTENDS LibraryCallbacks, Recursion, SequenceTheorems, FiniteSetTheorems

-----------------------------------------------------------------------------
(* Well-formed tables. *)

\* The functions from a part of D to R.
Partial(D, R) == UNION {[S -> R] : S \in SUBSET D}

Table == [array     : {s \in Seq(Value \cup {Nil}) : Len(s) <= MaxArrayIndex},
          order     : Seq(HashKey),
          positions : Partial(HashKey, Nat),
          hash      : Partial(HashKey, Value)]

\* OrderIsIndexed of the table t.
Indexed(t) ==
    /\ DOMAIN t.hash \subseteq DOMAIN t.positions
    /\ \A k \in DOMAIN t.positions :
          t.positions[k] \in DOMAIN t.order /\ t.order[t.positions[k]] = k
    /\ \A i \in DOMAIN t.order :
          t.order[i] \in DOMAIN t.positions /\ t.positions[t.order[i]] = i
    /\ ~ {PosZero, NegZero} \subseteq DOMAIN t.positions

Proper == {t \in Table : Indexed(t)}

\* The keys as the program knows them.
Known == Key \ {NegZero}

LEMMA PartialIntro ==
    ASSUME NEW D, NEW R, NEW S \in SUBSET D, NEW f \in [S -> R]
    PROVE  f \in Partial(D, R)
BY DEF Partial

LEMMA PartialElim ==
    ASSUME NEW D, NEW R, NEW f \in Partial(D, R)
    PROVE  /\ DOMAIN f \subseteq D
           /\ \A x \in DOMAIN f : f[x] \in R
           /\ f \in [DOMAIN f -> R]
           /\ f = [x \in DOMAIN f |-> f[x]]
<1> PICK S \in SUBSET D : f \in [S -> R]
  BY DEF Partial
<1> QED
  OBVIOUS

LEMMA TableFields ==
    ASSUME NEW t \in Table
    PROVE  /\ t.array \in Seq(Value \cup {Nil}) /\ Len(t.array) <= MaxArrayIndex
           /\ t.order \in Seq(HashKey)
           /\ t.positions \in Partial(HashKey, Nat)
           /\ t.hash \in Partial(HashKey, Value)
BY DEF Table

\* The vector holds the first keys.
LEMMA ArrayFields ==
    ASSUME NEW t \in Table
    PROVE  /\ Len(t.array) \in Nat /\ Len(t.array) \in 0..MaxArrayIndex
           /\ \A i : i \in DOMAIN t.array <=> i \in 1..Len(t.array)
           /\ DOMAIN t.array \subseteq ArrayKey
           /\ \A i \in DOMAIN t.array : t.array[i] \in Value \cup {Nil}
<1>1. PICK n \in Nat : n = Len(t.array) /\ t.array \in [1..n -> Value \cup {Nil}]
  BY TableFields, LenProperties, ElementOfSeq
<1>2. n <= MaxArrayIndex
  BY <1>1, TableFields
<1>3. QED
  BY <1>1, <1>2, TableAssumption DEF ArrayKey

LEMMA MapFields ==
    ASSUME NEW t \in Table
    PROVE  /\ DOMAIN t.hash \subseteq HashKey
           /\ DOMAIN t.positions \subseteq HashKey
           /\ \A k \in DOMAIN t.hash : t.hash[k] \in Value /\ t.hash[k] # Nil
           /\ \A k \in DOMAIN t.positions : t.positions[k] \in Nat
BY TableFields, PartialElim, TableAssumption

LEMMA OrderFields ==
    ASSUME NEW t \in Table
    PROVE  /\ Len(t.order) \in Nat
           /\ \A i : i \in DOMAIN t.order <=> i \in 1..Len(t.order)
           /\ \A i \in DOMAIN t.order : t.order[i] \in HashKey
<1>1. PICK n \in Nat : n = Len(t.order) /\ t.order \in [1..n -> HashKey]
  BY TableFields, LenProperties, ElementOfSeq
<1>2. QED
  BY <1>1

LEMMA EmptyIsProper == EmptyTable \in Proper
<1>1. <<>> \in Seq(Value \cup {Nil}) /\ Len(<<>>) = 0 /\ <<>> \in Seq(HashKey)
  BY EmptySeq
<1>2. DOMAIN <<>> = {}
  OBVIOUS
<1>3. <<>> \in [{} -> Nat] /\ <<>> \in [{} -> Value]
  OBVIOUS
<1>4. <<>> \in Partial(HashKey, Nat) /\ <<>> \in Partial(HashKey, Value)
  BY <1>3, PartialIntro
<1>5. EmptyTable \in Table
  BY <1>1, <1>4, TableAssumption DEF EmptyTable, Table
<1>6. Indexed(EmptyTable)
  BY <1>2 DEF EmptyTable, Indexed
<1>7. QED
  BY <1>5, <1>6 DEF Proper

-----------------------------------------------------------------------------
(* Keys. *)

LEMMA Keys ==
    /\ ArrayKey \subseteq Nat /\ ArrayKey \cap HashKey = {}
    /\ PosZero \in HashKey /\ NegZero \in HashKey /\ PosZero # NegZero
    /\ Nil \notin Key
BY TableAssumption DEF ArrayKey, Key

LEMMA SameKeys ==
    /\ \A k \in Key : Same(k) \in Known
    /\ \A k \in Known : Same(k) = k
    /\ \A k \in ArrayKey : Same(k) = k /\ k \in Known
    /\ \A k \in HashKey : Same(k) \in HashKey
    /\ \A j, k \in Key : Same(j) = Same(k) =>
                            j = k \/ {j, k} \subseteq {PosZero, NegZero}
BY Keys DEF Same, Known, Key

LEMMA NormalKeys ==
    ASSUME NEW t \in Proper
    PROVE  /\ \A k \in ArrayKey : Normal(t, k) = k
           /\ \A k \in HashKey : Normal(t, k) \in HashKey
           /\ \A k \in Key : Normal(t, k) \in Key /\ Same(Normal(t, k)) = Same(k)
           /\ \A k \in Key : Normal(t, Normal(t, k)) = Normal(t, k)
           /\ Normal(t, Nil) = Nil
           /\ \A k \in Key, j \in DOMAIN t.positions :
                 Same(j) = Same(k) => Normal(t, k) = j
<1>1. DOMAIN t.positions \subseteq HashKey /\ ~ {PosZero, NegZero} \subseteq DOMAIN t.positions
  BY MapFields DEF Proper, Indexed
<1>2. QED
  BY <1>1, Keys, SameKeys DEF Normal, Same, Key

\* The least of a set of numbers.
LEMMA HasMin ==
    ASSUME NEW S \in SUBSET Nat, S # {}
    PROVE  Min(S) \in S /\ \A j \in S : Min(S) <= j
<1>1. PICK x \in S : \A y \in S : ~ (<<y, x>> \in OpToRel(<, Nat))
  BY WFMin, NatLessThanWellFounded
<1>2. \A y \in S : ~ (y < x)
  BY <1>1, Zenon DEF OpToRel
<1>3. \A y \in S : x <= y
  BY <1>2
<1>4. QED
  BY <1>3 DEF Min

-----------------------------------------------------------------------------
(* Reading. *)

LEMMA GetArray ==
    ASSUME NEW t \in Proper, NEW i \in ArrayKey
    PROVE  Get(t, i) = IF i \in DOMAIN t.array THEN t.array[i] ELSE Nil
BY NormalKeys DEF Get

LEMMA GetPresent ==
    ASSUME NEW t \in Proper, NEW k \in HashKey, NEW i \in DOMAIN t.hash, Same(i) = Same(k)
    PROVE  Get(t, k) = t.hash[i]
<1>1. i \in DOMAIN t.positions
  BY DEF Proper, Indexed
<1>2. Normal(t, k) = i
  BY <1>1, NormalKeys DEF Key
<1>3. i \notin ArrayKey
  BY MapFields, Keys DEF Proper
<1>4. QED
  BY <1>2, <1>3 DEF Get

LEMMA GetAbsent ==
    ASSUME NEW t \in Proper, NEW k \in HashKey, \A i \in DOMAIN t.hash : Same(i) # Same(k)
    PROVE  Get(t, k) = Nil
<1>1. Normal(t, k) \notin DOMAIN t.hash
  BY NormalKeys DEF Key
<1>2. Normal(t, k) \notin ArrayKey
  BY NormalKeys, Keys
<1>3. QED
  BY <1>1, <1>2 DEF Get

LEMMA GetType ==
    ASSUME NEW t \in Proper, NEW k \in Key
    PROVE  Get(t, k) \in Value \cup {Nil} /\ Get(t, Same(k)) = Get(t, k)
<1>1. CASE k \in ArrayKey
  BY <1>1, GetArray, ArrayFields, SameKeys DEF Proper
<1>2. CASE k \in HashKey /\ \E i \in DOMAIN t.hash : Same(i) = Same(k)
  <2>1. PICK i \in DOMAIN t.hash : Same(i) = Same(k)
    BY <1>2
  <2>2. Same(Same(k)) = Same(k) /\ Same(k) \in HashKey
    BY <1>2, SameKeys DEF Key
  <2>3. Get(t, k) = t.hash[i] /\ Get(t, Same(k)) = t.hash[i]
    BY <1>2, <2>1, <2>2, GetPresent
  <2>4. QED
    BY <2>1, <2>3, MapFields DEF Proper
<1>3. CASE k \in HashKey /\ ~ \E i \in DOMAIN t.hash : Same(i) = Same(k)
  <2>1. Same(Same(k)) = Same(k) /\ Same(k) \in HashKey
    BY <1>3, SameKeys DEF Key
  <2>2. QED
    BY <1>3, <2>1, GetAbsent
<1>4. QED
  BY <1>1, <1>2, <1>3 DEF Key

\* What a key of the map leads to depends on the entries of the map alone.
LEMMA GetSame ==
    ASSUME NEW t \in Proper, NEW u \in Proper, NEW k \in HashKey,
           \A i \in Key : Same(i) = Same(k) =>
               /\ i \in DOMAIN u.hash <=> i \in DOMAIN t.hash
               /\ i \in DOMAIN t.hash => u.hash[i] = t.hash[i]
    PROVE  Get(u, k) = Get(t, k)
<1>1. DOMAIN t.hash \subseteq Key /\ DOMAIN u.hash \subseteq Key
  BY MapFields DEF Proper, Key
<1>2. CASE \E i \in DOMAIN t.hash : Same(i) = Same(k)
  <2>1. PICK i \in DOMAIN t.hash : Same(i) = Same(k)
    BY <1>2
  <2>2. i \in DOMAIN u.hash /\ u.hash[i] = t.hash[i]
    BY <1>1, <2>1
  <2>3. QED
    BY <2>1, <2>2, GetPresent
<1>3. CASE ~ \E i \in DOMAIN t.hash : Same(i) = Same(k)
  <2>1. \A i \in DOMAIN u.hash : Same(i) # Same(k)
    BY <1>1, <1>3
  <2>2. QED
    BY <1>3, <2>1, GetAbsent
<1>4. QED
  BY <1>2, <1>3

-----------------------------------------------------------------------------
(* Writing. *)

\* u is t after the assignment of v to k.
Updates(t, u, k, v) ==
    \A j \in Key : Get(u, j) = IF Same(j) = Same(k) THEN v ELSE Get(t, j)

\* No entry of u is new, and every key is where it was.
Shrinks(t, u) ==
    /\ u.positions = t.positions /\ u.order = t.order
    /\ Len(u.array) = Len(t.array)
    /\ DOMAIN u.hash \subseteq DOMAIN t.hash
    /\ \A i \in DOMAIN t.array : t.array[i] = Nil => u.array[i] = Nil

\* What the vector a holds at i.
At(a, i) == IF i \in DOMAIN a THEN a[i] ELSE Nil

LEMMA ArrayChange ==
    ASSUME NEW t \in Proper, NEW k \in ArrayKey, NEW v \in Value \cup {Nil},
           NEW a \in Seq(Value \cup {Nil}), Len(a) <= MaxArrayIndex,
           At(a, k) = v, \A i \in ArrayKey \ {k} : At(a, i) = Get(t, i)
    PROVE  /\ [t EXCEPT !.array = a] \in Proper
           /\ Updates(t, [t EXCEPT !.array = a], k, v)
<1> PICK u : u = [t EXCEPT !.array = a]
  OBVIOUS
<1>1. u \in Table
  BY DEF Proper, Table
<1>2. u.array = a /\ u.order = t.order /\ u.positions = t.positions /\ u.hash = t.hash
  BY DEF Proper, Table
<1>3. u \in Proper
  BY <1>1, <1>2 DEF Proper, Indexed
<1>4. ASSUME NEW j \in ArrayKey
      PROVE  Get(u, j) = IF Same(j) = Same(k) THEN v ELSE Get(t, j)
  <2>1. Get(u, j) = At(a, j)
    BY <1>2, <1>3, GetArray DEF At
  <2>2. Same(j) = j /\ Same(k) = k
    BY SameKeys
  <2>3. QED
    BY <2>1, <2>2
<1>5. ASSUME NEW j \in HashKey
      PROVE  Get(u, j) = Get(t, j) /\ Same(j) # Same(k)
  <2>1. Get(u, j) = Get(t, j)
    BY <1>2, <1>3, GetSame
  <2>2. Same(j) # Same(k)
    BY SameKeys, Keys
  <2>3. QED
    BY <2>1, <2>2
<1>6. QED
  BY <1>3, <1>4, <1>5 DEF Updates, Key

LEMMA SeqOfLength ==
    ASSUME NEW S, NEW n \in Nat, NEW s \in [1..n -> S]
    PROVE  s \in Seq(S) /\ Len(s) = n
<1>1. s \in Seq(S)
  BY SeqDef
<1>2. QED
  BY <1>1, LenProperties

LEMMA GreaterOfTwo ==
    ASSUME NEW k \in Nat, NEW m \in Nat
    PROVE  Max({k, m}) = IF k <= m THEN m ELSE k
BY DEF Max

LEMMA SetArrayKeeps ==
    ASSUME NEW t \in Proper, NEW k \in ArrayKey, NEW v \in Value \cup {Nil}
    PROVE  /\ SetArray(t, k, v) \in Proper
           /\ Updates(t, SetArray(t, k, v), k, v)
           /\ k \in DOMAIN t.array /\ (v = Nil \/ t.array[k] # Nil)
                 => Shrinks(t, SetArray(t, k, v))
<1> PICK m \in Nat : m = Len(t.array) /\ m <= MaxArrayIndex
  BY ArrayFields DEF Proper
<1>1. k \in Nat /\ k <= MaxArrayIndex
  BY Keys, TableAssumption DEF ArrayKey
<1>2. \E l \in Nat : /\ l = Max({k, m}) /\ l <= MaxArrayIndex /\ k <= l /\ m <= l
                     /\ k <= m => l = m
  BY <1>1, GreaterOfTwo
<1> PICK n \in Nat : /\ n = Max({k, m}) /\ n <= MaxArrayIndex /\ k <= n /\ m <= n
                     /\ k <= m => n = m
  BY <1>2
<1>a. PICK a : a = [j \in 1..n |-> IF j = k THEN v
                                   ELSE IF j <= m THEN t.array[j] ELSE Nil]
  OBVIOUS
<1>3. n \in Nat /\ n <= MaxArrayIndex
  OBVIOUS
<1>4. \A j \in 1..n : j <= m => j \in DOMAIN t.array
  BY <1>3, ArrayFields DEF Proper
<1>5. a \in [1..n -> Value \cup {Nil}]
  BY <1>a, <1>4, ArrayFields DEF Proper
<1>6. a \in Seq(Value \cup {Nil}) /\ Len(a) = n
  BY <1>5, SeqOfLength
<1>7. SetArray(t, k, v) = [t EXCEPT !.array = a]
  BY <1>a DEF SetArray, Proper, Table
<1>8. ASSUME NEW i \in ArrayKey
      PROVE  (i = k => At(a, i) = v) /\ (i # k => At(a, i) = Get(t, i))
  <2>1. Get(t, i) = IF i <= m THEN t.array[i] ELSE Nil
    BY GetArray, ArrayFields, Keys DEF Proper, ArrayKey
  <2>2. i \in DOMAIN a <=> i <= n
    BY <1>a, <1>3, Keys DEF ArrayKey
  <2>3. i \in Nat /\ (i \in DOMAIN a => a[i] = IF i = k THEN v
                                             ELSE IF i <= m THEN t.array[i] ELSE Nil)
    BY <1>a, Keys
  <2>4. i = k => i <= n
    OBVIOUS
  <2>5. i <= m => i <= n
    BY <2>3
  <2>6. QED
    BY <2>1, <2>2, <2>3, <2>4, <2>5 DEF At
<1>9. SetArray(t, k, v) \in Proper /\ Updates(t, SetArray(t, k, v), k, v)
  <2>1. Len(a) <= MaxArrayIndex
    BY <1>3, <1>6
  <2>2. QED
    BY <1>6, <1>7, <1>8, <2>1, ArrayChange
<1>10. ASSUME k \in DOMAIN t.array, v = Nil \/ t.array[k] # Nil
       PROVE  Shrinks(t, [t EXCEPT !.array = a])
  <2>1. n = m
    <3>1. k <= m
      BY <1>10, ArrayFields DEF Proper
    <3>2. QED
      BY <3>1
  <2>2. \A i \in DOMAIN t.array : i \in 1..m
    BY ArrayFields DEF Proper
  <2>3. \A i \in DOMAIN t.array : t.array[i] = Nil => a[i] = Nil
    BY <1>a, <1>10, <2>1, <2>2
  <2> PICK u : u = [t EXCEPT !.array = a]
    OBVIOUS
  <2>4. u.array = a /\ u.order = t.order /\ u.positions = t.positions /\ u.hash = t.hash
    BY DEF Proper, Table
  <2>5. QED
    BY <1>6, <2>1, <2>3, <2>4 DEF Shrinks
<1>11. QED
  BY <1>7, <1>9, <1>10

LEMMA HashChange ==
    ASSUME NEW t \in Proper, NEW h \in Partial(HashKey, Value),
           DOMAIN h \subseteq DOMAIN t.positions
    PROVE  /\ [t EXCEPT !.hash = h] \in Proper
           /\ [t EXCEPT !.hash = h].hash = h
           /\ [t EXCEPT !.hash = h].array = t.array
           /\ [t EXCEPT !.hash = h].order = t.order
           /\ [t EXCEPT !.hash = h].positions = t.positions
<1> PICK u : u = [t EXCEPT !.hash = h]
  OBVIOUS
<1>1. u \in Table
  BY DEF Proper, Table
<1>2. u.array = t.array /\ u.order = t.order /\ u.positions = t.positions /\ u.hash = h
  BY DEF Proper, Table
<1>3. u \in Proper
  BY <1>1, <1>2 DEF Proper, Indexed
<1>4. QED
  BY <1>2, <1>3

\* The entries of u are those of t, but for the one of k, which is v.
LEMMA HashUpdates ==
    ASSUME NEW t \in Proper, NEW u \in Proper, NEW k \in HashKey, NEW n \in HashKey,
           NEW v, Same(n) = Same(k), u.array = t.array,
           \A i \in Key : Same(i) = Same(k) =>
               IF v = Nil THEN i \notin DOMAIN u.hash
               ELSE i = n => i \in DOMAIN u.hash /\ u.hash[i] = v,
           \A i \in Key : Same(i) # Same(k) =>
               /\ i \in DOMAIN u.hash <=> i \in DOMAIN t.hash
               /\ i \in DOMAIN t.hash => u.hash[i] = t.hash[i]
    PROVE  Updates(t, u, k, v)
<1>1. ASSUME NEW j \in ArrayKey
      PROVE  Get(u, j) = Get(t, j) /\ Same(j) # Same(k)
  BY GetArray, SameKeys, Keys DEF Key
<1>2. ASSUME NEW j \in HashKey, Same(j) # Same(k)
      PROVE  Get(u, j) = Get(t, j)
  BY <1>2, GetSame
<1>3. ASSUME NEW j \in HashKey, Same(j) = Same(k)
      PROVE  Get(u, j) = v
  <2>1. CASE v = Nil
    <3>1. \A i \in DOMAIN u.hash : Same(i) # Same(j)
      BY <1>3, <2>1, MapFields DEF Proper, Key
    <3>2. QED
      BY <2>1, <3>1, GetAbsent
  <2>2. CASE v # Nil
    <3>1. n \in DOMAIN u.hash /\ u.hash[n] = v
      BY <2>2 DEF Key
    <3>2. QED
      BY <1>3, <3>1, GetPresent
  <2>3. QED
    BY <2>1, <2>2
<1>4. QED
  BY <1>1, <1>2, <1>3 DEF Updates, Key

LEMMA RemoveKeeps ==
    ASSUME NEW t \in Proper, NEW k \in Key
    PROVE  /\ Remove(t, k) \in Proper
           /\ Updates(t, Remove(t, k), k, Nil)
           /\ Shrinks(t, Remove(t, k))
<1>1. CASE k \in ArrayKey /\ k \in DOMAIN t.array
  <2>a. PICK a : a = [t.array EXCEPT ![k] = Nil]
    OBVIOUS
  <2>1. Remove(t, k) = [t EXCEPT !.array = a]
    BY <2>a, <1>1, NormalKeys DEF Remove, Proper, Table
  <2>2. /\ a \in Seq(Value \cup {Nil}) /\ Len(a) = Len(t.array) /\ DOMAIN a = DOMAIN t.array
        /\ \A i \in DOMAIN t.array : a[i] = IF i = k THEN Nil ELSE t.array[i]
    BY <2>a, <1>1, TableFields, ArrayFields, ExceptSeq DEF Proper
  <2>3. At(a, k) = Nil /\ \A i \in ArrayKey \ {k} : At(a, i) = Get(t, i)
    BY <1>1, <2>2, GetArray DEF At
  <2>4. Remove(t, k) \in Proper /\ Updates(t, Remove(t, k), k, Nil)
    <3>1. Len(a) <= MaxArrayIndex
      BY <2>2, TableFields DEF Proper
    <3>2. Nil \in Value \cup {Nil} /\ a \in Seq(Value \cup {Nil})
      BY <2>2
    <3>3. [t EXCEPT !.array = a] \in Proper /\ Updates(t, [t EXCEPT !.array = a], k, Nil)
      BY <1>1, <2>3, <3>1, <3>2, ArrayChange
    <3>4. QED
      BY <2>1, <3>3
  <2> PICK u : u = [t EXCEPT !.array = a]
    OBVIOUS
  <2>5. u.array = a /\ u.order = t.order /\ u.positions = t.positions /\ u.hash = t.hash
    BY DEF Proper, Table
  <2>6. Shrinks(t, u)
    BY <2>2, <2>5 DEF Shrinks
  <2>7. QED
    BY <2>1, <2>4, <2>6
<1>2. CASE k \in ArrayKey /\ k \notin DOMAIN t.array
  <2>1. Remove(t, k) = t
    BY <1>2, NormalKeys DEF Remove
  <2>2. Get(t, k) = Nil
    BY <1>2, GetArray
  <2>3. Updates(t, t, k, Nil)
    BY <1>2, <2>2, SameKeys, GetType DEF Updates
  <2>4. QED
    BY <2>1, <2>3 DEF Shrinks
<1>3. CASE k \in HashKey
  <2> PICK n : n = Normal(t, k)
    OBVIOUS
  <2>1. n \in HashKey /\ n \notin ArrayKey /\ Same(n) = Same(k)
    BY <1>3, NormalKeys, Keys DEF Key
  <2> PICK h : h = Restrict(t.hash, DOMAIN t.hash \ {n})
    OBVIOUS
  <2>2. /\ DOMAIN h = DOMAIN t.hash \ {n}
        /\ \A i \in DOMAIN t.hash \ {n} : h[i] = t.hash[i]
    BY DEF Restrict
  <2>3. h \in [DOMAIN t.hash \ {n} -> Value]
    BY MapFields DEF Restrict, Proper
  <2>4. h \in Partial(HashKey, Value)
    BY <2>3, PartialIntro, MapFields DEF Proper
  <2>5. Remove(t, k) = [t EXCEPT !.hash = h]
    BY <2>1 DEF Remove, Proper, Table
  <2> PICK u : u = [t EXCEPT !.hash = h]
    OBVIOUS
  <2>6. DOMAIN h \subseteq DOMAIN t.positions
    BY <2>2 DEF Proper, Indexed
  <2>7. /\ u \in Proper /\ u.hash = h /\ u.array = t.array
        /\ u.order = t.order /\ u.positions = t.positions
    BY <2>4, <2>6, HashChange
  <2>8. \A i \in DOMAIN t.hash : Same(i) = Same(k) => i = n
    BY NormalKeys DEF Proper, Indexed, Key
  <2>9. Updates(t, u, k, Nil)
    BY <1>3, <2>1, <2>2, <2>7, <2>8, HashUpdates
  <2>10. Shrinks(t, u)
    BY <2>2, <2>7 DEF Shrinks
  <2>11. QED
    BY <2>5, <2>7, <2>9, <2>10
<1>4. QED
  BY <1>1, <1>2, <1>3 DEF Key

-----------------------------------------------------------------------------
(* The order of the map. *)

\* Numbering by rank: p tells the elements of S apart, and the rank of an element
\* is the number of those that are not behind it.
Ranking(S, p) == [k \in S |-> Cardinality({j \in S : p[j] <= p[k]})]

LEMMA Ranks ==
    ASSUME NEW S, NEW n \in Nat, NEW p \in [S -> 1..n],
           \A j, k \in S : p[j] = p[k] => j = k,
           NEW r, r = Ranking(S, p)
    PROVE  /\ IsFiniteSet(S) /\ Cardinality(S) \in Nat
           /\ r \in [S -> 1..Cardinality(S)]
           /\ \A j, k \in S : r[j] = r[k] => j = k
           /\ \A i \in 1..Cardinality(S) : \E k \in S : r[k] = i
<1>1. IsFiniteSet(S)
  <2>1. p \in Injection(S, 1..n)
    BY DEF Injection, IsInjective
  <2>2. IsFiniteSet(1..n)
    BY FS_Interval
  <2>3. QED
    BY <2>1, <2>2, FS_Injection
<1> PICK m \in Nat : m = Cardinality(S)
  BY <1>1, FS_CardinalityType
<1>2. ASSUME NEW k \in S
      PROVE  r[k] \in 1..m
  <2> PICK D \in SUBSET S : D = {j \in S : p[j] <= p[k]}
    OBVIOUS
  <2>1. IsFiniteSet(D) /\ Cardinality(D) \in Nat /\ Cardinality(D) <= m
    BY <1>1, FS_Subset, FS_CardinalityType
  <2>2. k \in D
    OBVIOUS
  <2>3. Cardinality(D) # 0
    BY <2>1, <2>2, FS_EmptySet
  <2>4. r[k] = Cardinality(D)
    BY DEF Ranking
  <2>5. QED
    BY <2>1, <2>3, <2>4
<1>3. ASSUME NEW j \in S, NEW k \in S, p[j] < p[k]
      PROVE  r[j] # r[k]
  <2> PICK D \in SUBSET S : D = {i \in S : p[i] <= p[j]}
    OBVIOUS
  <2> PICK E \in SUBSET S : E = {i \in S : p[i] <= p[k]}
    OBVIOUS
  <2>1. D \subseteq E
    BY <1>3
  <2>2. k \in E /\ k \notin D
    BY <1>3
  <2>3. IsFiniteSet(E)
    BY <1>1, FS_Subset
  <2>4. Cardinality(D) # Cardinality(E)
    BY <2>1, <2>2, <2>3, FS_Subset
  <2>5. r[j] = Cardinality(D) /\ r[k] = Cardinality(E)
    BY DEF Ranking
  <2>6. QED
    BY <2>4, <2>5
<1>4. \A j, k \in S : r[j] = r[k] => j = k
  <2> SUFFICES ASSUME NEW j \in S, NEW k \in S, j # k
               PROVE  r[j] # r[k]
    OBVIOUS
  <2>1. p[j] < p[k] \/ p[k] < p[j]
    OBVIOUS
  <2>2. QED
    BY <2>1, <1>3
<1>5. r \in [S -> 1..m]
  BY <1>2 DEF Ranking
<1>6. r \in Injection(S, 1..m)
  BY <1>4, <1>5 DEF Injection, IsInjective
<1>7. IsFiniteSet(1..m) /\ Cardinality(1..m) = m
  BY FS_Interval
<1>8. r \in Surjection(S, 1..m)
  BY <1>6, <1>7, FS_Injection
<1>9. \A i \in 1..m : \E k \in S : r[k] = i
  BY <1>8 DEF Surjection
<1>10. QED
  BY <1>1, <1>4, <1>5, <1>9

LEMMA CompactKeeps ==
    ASSUME NEW t \in Proper
    PROVE  /\ Compact(t) \in Proper
           /\ Compact(t).array = t.array /\ Compact(t).hash = t.hash
           /\ DOMAIN Compact(t).positions \subseteq DOMAIN t.positions
<1>1. CASE Compact(t) = t
  BY <1>1
<1>2. CASE Compact(t) # t
  <2>l. PICK live : live = DOMAIN t.hash
    OBVIOUS
  <2>n. PICK n \in Nat : n = Len(t.order)
    BY OrderFields DEF Proper
  <2>1. /\ live \subseteq DOMAIN t.positions /\ live \subseteq HashKey
        /\ \A k \in DOMAIN t.positions :
              t.positions[k] \in 1..n /\ t.order[t.positions[k]] = k
    BY <2>l, <2>n, OrderFields, MapFields DEF Proper, Indexed
  <2>p. PICK p : p = [k \in live |-> t.positions[k]]
    OBVIOUS
  <2>2. p \in [live -> 1..n] /\ \A j, k \in live : p[j] = p[k] => j = k
    BY <2>p, <2>1
  <2>r. PICK r : r = Ranking(live, p)
    OBVIOUS
  <2>3. /\ IsFiniteSet(live) /\ Cardinality(live) \in Nat
        /\ r \in [live -> 1..Cardinality(live)]
        /\ \A j, k \in live : r[j] = r[k] => j = k
        /\ \A i \in 1..Cardinality(live) : \E k \in live : r[k] = i
    BY <2>2, <2>r, Ranks
  <2>m. PICK m \in Nat : m = Cardinality(live)
    BY <2>3
  <2>4. \A k \in live : Rank(t, k) = r[k]
    BY <2>l, <2>p, <2>r DEF Rank, Ranking
  <2>o. PICK o : o = [i \in 1..m |-> CHOOSE k \in live : Rank(t, k) = i]
    OBVIOUS
  <2>5. \A i \in 1..m : o[i] \in live /\ r[o[i]] = i
    BY <2>m, <2>3, <2>4, <2>o
  <2>6. o \in [1..m -> HashKey]
    BY <2>1, <2>5, <2>o
  <2>7. o \in Seq(HashKey) /\ DOMAIN o = 1..m
    BY <2>6, SeqOfLength
  <2>8. \A k \in live : o[r[k]] = k
    BY <2>m, <2>3, <2>5
  <2>9. r \in Partial(HashKey, Nat)
    <3>1. r \in [live -> Nat]
      BY <2>3
    <3>2. QED
      BY <2>1, <3>1, PartialIntro
  <2>10. r = [k \in live |-> Rank(t, k)]
    BY <2>4, <2>r DEF Ranking
  <2>11. Compact(t) = [t EXCEPT !.order = o, !.positions = r]
    <3>1. o = [i \in 1..Cardinality(DOMAIN t.hash) |->
                  CHOOSE k \in DOMAIN t.hash : Rank(t, k) = i]
      BY <2>l, <2>m, <2>o
    <3>2. r = [k \in DOMAIN t.hash |-> Rank(t, k)]
      BY <2>l, <2>10, Zenon
    <3>3. QED
      BY <1>2, <3>1, <3>2, Zenon DEF Compact
  <2>c. PICK c : c = [t EXCEPT !.order = o, !.positions = r]
    OBVIOUS
  <2>12. c \in Table
    BY <2>c, <2>7, <2>9 DEF Proper, Table
  <2>13. c.order = o /\ c.positions = r /\ c.array = t.array /\ c.hash = t.hash
    BY <2>c DEF Proper, Table
  <2>14. DOMAIN r = live
    BY <2>r DEF Ranking
  <2>15. ~ {PosZero, NegZero} \subseteq live
    BY <2>1 DEF Proper, Indexed
  <2>16. Indexed(c)
    <3>1. DOMAIN c.hash \subseteq DOMAIN c.positions
      BY <2>l, <2>13, <2>14
    <3>2. ASSUME NEW k \in DOMAIN c.positions
          PROVE  c.positions[k] \in DOMAIN c.order /\ c.order[c.positions[k]] = k
      BY <2>m, <2>13, <2>14, <2>3, <2>7, <2>8
    <3>3. ASSUME NEW i \in DOMAIN c.order
          PROVE  c.order[i] \in DOMAIN c.positions /\ c.positions[c.order[i]] = i
      BY <2>13, <2>14, <2>5, <2>7
    <3>4. QED
      BY <3>1, <3>2, <3>3, <2>13, <2>14, <2>15 DEF Indexed
  <2>17. QED
    BY <2>11, <2>c, <2>12, <2>13, <2>14, <2>1, <2>16 DEF Proper
<1>3. QED
  BY <1>1, <1>2

\* A key gets a place in the order; a rebuilt order forgets none of the entries.
LEMMA RegisteredKeeps ==
    ASSUME NEW t \in Proper, NEW k \in HashKey, Normal(t, k) = k
    PROVE  /\ Registered(t, k) \in Proper
           /\ Registered(t, k).array = t.array /\ Registered(t, k).hash = t.hash
           /\ k \in DOMAIN Registered(t, k).positions
           /\ k \in DOMAIN t.positions => Registered(t, k) = t
<1>1. CASE k \in DOMAIN t.positions
  BY <1>1 DEF Registered
<1>2. CASE k \notin DOMAIN t.positions
  <2>c. PICK c : c = Compact(t)
    OBVIOUS
  <2>1. /\ c \in Proper /\ c.array = t.array /\ c.hash = t.hash
        /\ DOMAIN c.positions \subseteq DOMAIN t.positions
    BY <2>c, CompactKeeps
  <2>n. PICK n \in Nat : n = Len(c.order)
    BY <2>1, OrderFields DEF Proper
  <2>o. PICK o : o = Append(c.order, k)
    OBVIOUS
  <2>2. /\ o \in Seq(HashKey) /\ Len(o) = n + 1
        /\ \A i \in 1..n : o[i] = c.order[i]
        /\ o[n + 1] = k
    BY <2>1, <2>n, <2>o, AppendProperties, TableFields DEF Proper
  <2>3. DOMAIN o = 1..(n + 1)
    BY <2>2, LenProperties
  <2>p. PICK p : p = [j \in DOMAIN c.positions \cup {k} |->
                        IF j = k THEN n + 1 ELSE c.positions[j]]
    OBVIOUS
  <2>4. /\ DOMAIN c.positions \subseteq HashKey
        /\ \A j \in DOMAIN c.positions :
              c.positions[j] \in 1..n /\ c.order[c.positions[j]] = j
        /\ \A i \in 1..n : /\ c.order[i] \in DOMAIN c.positions
                           /\ c.positions[c.order[i]] = i
    BY <2>1, <2>n, MapFields, OrderFields DEF Proper, Indexed
  <2>5. k \notin DOMAIN c.positions
    BY <1>2, <2>1
  <2>6. /\ DOMAIN p = DOMAIN c.positions \cup {k} /\ p[k] = n + 1
        /\ \A j \in DOMAIN c.positions : p[j] = c.positions[j]
    BY <2>p, <2>5
  <2>7. p \in Partial(HashKey, Nat)
    <3>1. p \in [DOMAIN c.positions \cup {k} -> Nat]
      BY <2>p, <2>4
    <3>2. QED
      BY <2>4, <3>1, PartialIntro
  <2>u. PICK u : u = [c EXCEPT !.order = o, !.positions = p]
    OBVIOUS
  <2>8. Registered(t, k) = u
    BY <1>2, <2>c, <2>n, <2>o, <2>p, <2>u, <2>1 DEF Registered, Proper, Table
  <2>9. u \in Table
    BY <2>u, <2>1, <2>2, <2>7 DEF Proper, Table
  <2>10. u.order = o /\ u.positions = p /\ u.array = c.array /\ u.hash = c.hash
    BY <2>u, <2>1 DEF Proper, Table
  <2>11. Indexed(u)
    <3>1. DOMAIN u.hash \subseteq DOMAIN u.positions
      BY <2>10, <2>6, <2>1 DEF Proper, Indexed
    <3>2. ASSUME NEW j \in DOMAIN u.positions
          PROVE  u.positions[j] \in DOMAIN u.order /\ u.order[u.positions[j]] = j
      <4>1. CASE j = k
        BY <4>1, <2>10, <2>6, <2>2, <2>3
      <4>2. CASE j # k
        BY <4>2, <2>10, <2>6, <2>2, <2>3, <2>4
      <4>3. QED
        BY <4>1, <4>2
    <3>3. ASSUME NEW i \in DOMAIN u.order
          PROVE  u.order[i] \in DOMAIN u.positions /\ u.positions[u.order[i]] = i
      <4>1. CASE i = n + 1
        BY <4>1, <2>10, <2>6, <2>2
      <4>2. CASE i \in 1..n
        BY <4>2, <2>10, <2>6, <2>2, <2>4
      <4>3. QED
        BY <4>1, <4>2, <2>3, <2>10
    <3>4. ~ {PosZero, NegZero} \subseteq DOMAIN u.positions
      <4>1. ~ {PosZero, NegZero} \subseteq DOMAIN c.positions
        BY <2>1 DEF Proper, Indexed
      <4>2. k \in {PosZero, NegZero} => DOMAIN t.positions \cap {PosZero, NegZero} = {}
        BY <1>2 DEF Normal
      <4>3. QED
        BY <4>1, <4>2, <2>1, <2>6, <2>10, Keys
    <3>5. QED
      BY <3>1, <3>2, <3>3, <3>4 DEF Indexed
  <2>12. QED
    BY <1>2, <2>1, <2>6, <2>8, <2>9, <2>10, <2>11 DEF Proper
<1>3. QED
  BY <1>1, <1>2

\* An assignment changes the entry of its key alone; one that makes no entry moves
\* no key.
LEMMA SetKeeps ==
    ASSUME NEW t \in Proper, NEW k \in Key, NEW v \in Value \cup {Nil}
    PROVE  /\ Set(t, k, v) \in Proper
           /\ Updates(t, Set(t, k, v), k, v)
           /\ v = Nil \/ Get(t, k) # Nil => Shrinks(t, Set(t, k, v))
<1>n. PICK n : n = Normal(t, k)
  OBVIOUS
<1>1. n \in Key /\ Same(n) = Same(k) /\ Normal(t, n) = n
  BY <1>n, NormalKeys
<1>2. CASE v = Nil
  <2>1. Set(t, k, v) = Remove(t, n)
    BY <1>n, <1>2 DEF Set
  <2>2. /\ Remove(t, n) \in Proper /\ Updates(t, Remove(t, n), n, Nil)
        /\ Shrinks(t, Remove(t, n))
    BY <1>1, RemoveKeeps
  <2>3. Updates(t, Remove(t, n), k, Nil)
    BY <1>1, <2>2 DEF Updates
  <2>4. QED
    BY <1>2, <2>1, <2>2, <2>3
<1>3. CASE v # Nil /\ k \in ArrayKey
  <2>1. Set(t, k, v) = SetArray(t, k, v)
    BY <1>3, NormalKeys DEF Set
  <2>2. Get(t, k) # Nil => k \in DOMAIN t.array /\ t.array[k] # Nil
    BY <1>3, GetArray
  <2>3. QED
    BY <1>3, <2>1, <2>2, SetArrayKeeps
<1>4. CASE v # Nil /\ k \in HashKey
  <2>1. n \in HashKey /\ n \notin ArrayKey /\ v \in Value
    BY <1>4, <1>n, NormalKeys, Keys
  <2>r. PICK r : r = Registered(t, n)
    OBVIOUS
  <2>2. /\ r \in Proper /\ r.array = t.array /\ r.hash = t.hash
        /\ n \in DOMAIN r.positions /\ (n \in DOMAIN t.positions => r = t)
    BY <2>r, <2>1, <1>1, RegisteredKeeps
  <2>h. PICK h : h = [j \in DOMAIN t.hash \cup {n} |-> IF j = n THEN v ELSE t.hash[j]]
    OBVIOUS
  <2>3. h \in Partial(HashKey, Value)
    <3>1. h \in [DOMAIN t.hash \cup {n} -> Value]
      BY <2>h, <2>1, MapFields DEF Proper
    <3>2. QED
      BY <2>1, <3>1, PartialIntro, MapFields DEF Proper
  <2>4. /\ DOMAIN h = DOMAIN t.hash \cup {n} /\ h[n] = v
        /\ \A j \in DOMAIN t.hash \ {n} : h[j] = t.hash[j]
    BY <2>h
  <2>5. DOMAIN h \subseteq DOMAIN r.positions
    BY <2>2, <2>4 DEF Proper, Indexed
  <2>u. PICK u : u = [r EXCEPT !.hash = h]
    OBVIOUS
  <2>6. Set(t, k, v) = u
    BY <1>4, <1>n, <2>1, <2>r, <2>2, <2>h, <2>u DEF Set, Proper, Table
  <2>7. /\ u \in Proper /\ u.hash = h /\ u.array = r.array
        /\ u.order = r.order /\ u.positions = r.positions
    BY <2>u, <2>2, <2>3, <2>5, HashChange
  <2>8. Updates(t, u, k, v)
    <3>1. \A i \in Key : Same(i) = Same(k) =>
              IF v = Nil THEN i \notin DOMAIN u.hash
              ELSE i = n => i \in DOMAIN u.hash /\ u.hash[i] = v
      BY <1>4, <2>4, <2>7
    <3>2. \A i \in Key : Same(i) # Same(k) =>
              /\ i \in DOMAIN u.hash <=> i \in DOMAIN t.hash
              /\ i \in DOMAIN t.hash => u.hash[i] = t.hash[i]
      BY <1>1, <2>4, <2>7
    <3>3. u.array = t.array
      BY <2>2, <2>7
    <3>4. QED
      BY <1>1, <1>4, <2>1, <2>7, <3>1, <3>2, <3>3, HashUpdates
  <2>9. ASSUME Get(t, k) # Nil
        PROVE  Shrinks(t, u)
    <3>1. PICK i \in DOMAIN t.hash : Same(i) = Same(k)
      BY <1>4, <2>9, GetAbsent
    <3>2. i = n
      BY <1>n, <3>1, NormalKeys DEF Proper, Indexed
    <3>3. n \in DOMAIN t.hash /\ n \in DOMAIN t.positions
      BY <3>1, <3>2 DEF Proper, Indexed
    <3>4. r = t
      BY <2>2, <3>3
    <3>5. DOMAIN u.hash \subseteq DOMAIN t.hash
      BY <2>4, <2>7, <3>3
    <3>6. QED
      BY <2>7, <3>4, <3>5 DEF Shrinks
  <2>10. QED
    BY <1>4, <2>6, <2>7, <2>8, <2>9
<1>5. QED
  BY <1>2, <1>3, <1>4 DEF Key

-----------------------------------------------------------------------------
(* Traversals. *)

WalkType == [phase  : {"idle", "going", "over", "failed"},
             cursor : Key \cup {Nil},
             seen   : SUBSET Known,
             loose  : BOOLEAN]

\* What a traversal relies on that has come to c and has visited s: exactly the
\* entries that are not behind c.
AtArray(t, c, s) ==
    /\ c \in DOMAIN t.array
    /\ \A i \in s : i \in ArrayKey /\ i <= c
    /\ \A i \in DOMAIN t.array : i <= c /\ t.array[i] # Nil => i \in s
AtHash(t, c, s) ==
    /\ c \in DOMAIN t.positions
    /\ \A i \in DOMAIN t.array : t.array[i] # Nil => i \in s
    /\ \A k \in DOMAIN t.hash : t.positions[k] <= t.positions[c] => Same(k) \in s
    /\ \A k \in DOMAIN t.positions : t.positions[k] > t.positions[c] => Same(k) \notin s
Keeping(t, c, s) ==
    /\ c = Nil => s = {}
    /\ c \in ArrayKey => AtArray(t, c, s)
    /\ c \in HashKey => AtHash(t, c, s)

WalkOK(t, x) ==
    /\ x \in WalkType
    /\ x.phase # "going" => x = Stopped(x.phase)
    /\ x.phase = "going" /\ ~ x.loose => Keeping(t, x.cursor, x.seen)

\* The search in the map: the first entry from a position on, if there is one.
LEMMA NextHashFinds ==
    ASSUME NEW t \in Proper, NEW from \in Nat \ {0}
    PROVE  \/ /\ NextHash(t, from) = Nothing("end")
              /\ \A k \in DOMAIN t.hash : t.positions[k] < from
           \/ \E k \in DOMAIN t.hash :
                 /\ NextHash(t, from) = Found(k)
                 /\ t.positions[k] >= from
                 /\ \A j \in DOMAIN t.hash :
                       t.positions[j] >= from => t.positions[j] >= t.positions[k]
<1>n. PICK n \in Nat : n = Len(t.order)
  BY OrderFields DEF Proper
<1>l. PICK live : live = {i \in from..Len(t.order) : t.order[i] \in DOMAIN t.hash}
  OBVIOUS
<1>1. \A k \in DOMAIN t.hash :
         t.positions[k] \in 1..n /\ t.order[t.positions[k]] = k
  BY <1>n, OrderFields DEF Proper, Indexed
<1>2. \A i \in 1..n : t.order[i] \in DOMAIN t.hash => t.positions[t.order[i]] = i
  BY <1>n, OrderFields DEF Proper, Indexed
<1>3. \A i : i \in live <=> i \in 1..n /\ from <= i /\ t.order[i] \in DOMAIN t.hash
  BY <1>n, <1>l
<1>4. \A k \in DOMAIN t.hash : t.positions[k] >= from => t.positions[k] \in live
  BY <1>1, <1>3
<1>5. CASE live = {}
  <2>1. NextHash(t, from) = Nothing("end")
    BY <1>l, <1>5, Zenon DEF NextHash
  <2>2. \A k \in DOMAIN t.hash : t.positions[k] < from
    BY <1>1, <1>4, <1>5
  <2>3. QED
    BY <2>1, <2>2
<1>6. CASE live # {}
  <2>m. PICK m : m = Min(live)
    OBVIOUS
  <2>1. live \in SUBSET Nat
    BY <1>3
  <2>2. m \in live /\ \A i \in live : m <= i
    BY <2>m, <1>6, <2>1, HasMin
  <2>k. PICK k : k = t.order[m]
    OBVIOUS
  <2>3. k \in DOMAIN t.hash /\ t.positions[k] = m /\ m >= from
    BY <2>2, <2>k, <1>2, <1>3
  <2>4. NextHash(t, from) = Found(k)
    BY <1>l, <1>6, <2>m, <2>k, Zenon DEF NextHash
  <2>5. QED
    BY <1>4, <2>2, <2>3, <2>4
<1>7. QED
  BY <1>5, <1>6

\* The search in the vector behind i, which goes on with the map.
LEMMA NextFromFinds ==
    ASSUME NEW t \in Proper, NEW i \in Nat
    PROVE  \/ /\ NextFrom(t, i) = NextHash(t, 1)
              /\ \A j \in DOMAIN t.array : j > i => t.array[j] = Nil
           \/ \E j \in DOMAIN t.array :
                 /\ NextFrom(t, i) = Found(j)
                 /\ j > i /\ t.array[j] # Nil
                 /\ \A l \in DOMAIN t.array : l > i /\ t.array[l] # Nil => l >= j
<1>n. PICK n \in Nat : n = Len(t.array)
  BY ArrayFields DEF Proper
<1>l. PICK live : live = {j \in i + 1..Len(t.array) : t.array[j] # Nil}
  OBVIOUS
<1>1. \A j : j \in DOMAIN t.array <=> j \in 1..n
  BY <1>n, ArrayFields DEF Proper
<1>2. \A j : j \in live <=> j \in 1..n /\ j > i /\ t.array[j] # Nil
  BY <1>n, <1>l
<1>3. CASE live = {}
  <2>1. NextFrom(t, i) = NextHash(t, 1)
    BY <1>l, <1>3, Zenon DEF NextFrom
  <2>2. QED
    BY <2>1, <1>1, <1>2, <1>3
<1>4. CASE live # {}
  <2>m. PICK m : m = Min(live)
    OBVIOUS
  <2>1. live \in SUBSET Nat
    BY <1>2
  <2>2. m \in live /\ \A j \in live : m <= j
    BY <2>m, <1>4, <2>1, HasMin
  <2>3. NextFrom(t, i) = Found(m)
    BY <1>l, <1>4, <2>m, Zenon DEF NextFrom
  <2>4. QED
    BY <1>1, <1>2, <2>2, <2>3
<1>5. QED
  BY <1>3, <1>4

\* Every key that a search returns has an entry.
Present(t, k) == k \in Key /\ Get(t, k) # Nil

LEMMA HashPresent ==
    ASSUME NEW t \in Proper, NEW k \in DOMAIN t.hash
    PROVE  Present(t, k) /\ k \in HashKey /\ k \in DOMAIN t.positions
<1>1. k \in HashKey /\ t.hash[k] # Nil
  BY MapFields DEF Proper
<1>2. Get(t, k) = t.hash[k]
  BY <1>1, GetPresent
<1>3. QED
  BY <1>1, <1>2 DEF Present, Key, Proper, Indexed

LEMMA ArrayPresent ==
    ASSUME NEW t \in Proper, NEW k \in DOMAIN t.array, t.array[k] # Nil
    PROVE  Present(t, k) /\ k \in ArrayKey
<1>1. k \in ArrayKey
  BY ArrayFields DEF Proper
<1>2. QED
  BY <1>1, GetArray DEF Present, Key

\* No other key has one.
LEMMA PresentWhere ==
    ASSUME NEW t \in Proper, NEW k \in Known, Present(t, k)
    PROVE  \/ k \in DOMAIN t.array /\ t.array[k] # Nil
           \/ \E i \in DOMAIN t.hash : Same(i) = k
<1>1. CASE k \in ArrayKey
  BY <1>1, GetArray DEF Present
<1>2. CASE k \in HashKey
  <2>1. Same(k) = k
    BY SameKeys
  <2>2. QED
    BY <1>2, <2>1, GetAbsent DEF Present
<1>3. QED
  BY <1>1, <1>2 DEF Present, Key

LEMMA Answers ==
    /\ \A k : Found(k).is = "key" /\ Found(k).key = k
    /\ \A w : Nothing(w).is = w
BY DEF Found, Nothing

LEMMA TryNextCases ==
    ASSUME NEW t \in Proper, NEW c \in Key \cup {Nil}
    PROVE  /\ c = Nil => TryNext(t, c) = NextFrom(t, 0)
           /\ c \in DOMAIN t.array => TryNext(t, c) = NextFrom(t, c)
           /\ c \in DOMAIN t.positions => TryNext(t, c) = NextHash(t, t.positions[c] + 1)
           /\ \/ TryNext(t, c) = NextFrom(t, 0)
              \/ \E i \in Nat : TryNext(t, c) = NextFrom(t, i)
              \/ \E i \in Nat \ {0} : TryNext(t, c) = NextHash(t, i)
              \/ TryNext(t, c) = Nothing("invalid")
<1>k. PICK k : k = Normal(t, c)
  OBVIOUS
<1>1. k \in Key \cup {Nil} /\ (c = Nil <=> k = Nil) /\ (c \in ArrayKey => k = c)
  BY <1>k, NormalKeys, Keys DEF Key
<1>2. DOMAIN t.array \subseteq ArrayKey /\ DOMAIN t.positions \subseteq HashKey
  BY ArrayFields, MapFields DEF Proper
<1>3. c \in DOMAIN t.positions => k = c
  BY <1>k, <1>2, NormalKeys DEF Key
<1>4. \A j \in DOMAIN t.positions : t.positions[j] + 1 \in Nat \ {0}
  BY MapFields DEF Proper
<1>5. TryNext(t, c) =
        IF k = Nil THEN NextFrom(t, 0)
        ELSE IF k \in ArrayKey
             THEN IF k \in DOMAIN t.array THEN NextFrom(t, k) ELSE Nothing("invalid")
        ELSE IF k \in DOMAIN t.positions THEN NextHash(t, t.positions[k] + 1)
        ELSE Nothing("invalid")
  BY <1>k DEF TryNext
<1>6. c = Nil => TryNext(t, c) = NextFrom(t, 0)
  BY <1>1, <1>5
<1>7. c \in DOMAIN t.array => TryNext(t, c) = NextFrom(t, c)
  BY <1>1, <1>2, <1>5, Keys DEF Key
<1>8. c \in DOMAIN t.positions => TryNext(t, c) = NextHash(t, t.positions[c] + 1)
  BY <1>1, <1>2, <1>3, <1>5, Keys DEF Key
<1>9. \/ TryNext(t, c) = NextFrom(t, 0)
      \/ \E i \in Nat : TryNext(t, c) = NextFrom(t, i)
      \/ \E i \in Nat \ {0} : TryNext(t, c) = NextHash(t, i)
      \/ TryNext(t, c) = Nothing("invalid")
  BY <1>1, <1>4, <1>5, Keys
<1>10. QED
  BY <1>6, <1>7, <1>8, <1>9

\* A search returns an entry.
LEMMA FoundIsPresent ==
    ASSUME NEW t \in Proper, NEW c \in Key \cup {Nil}, TryNext(t, c).is = "key"
    PROVE  Present(t, TryNext(t, c).key)
<1>1. ASSUME NEW i \in Nat \ {0}, NextHash(t, i).is = "key"
      PROVE  Present(t, NextHash(t, i).key)
  <2>1. NextHash(t, i) # Nothing("end")
    BY <1>1, Answers
  <2>2. PICK k \in DOMAIN t.hash : NextHash(t, i) = Found(k)
    BY <2>1, NextHashFinds
  <2>3. QED
    BY <2>2, HashPresent, Answers
<1>2. ASSUME NEW i \in Nat, NextFrom(t, i).is = "key"
      PROVE  Present(t, NextFrom(t, i).key)
  <2>1. CASE NextFrom(t, i) = NextHash(t, 1)
    BY <1>1, <1>2, <2>1
  <2>2. CASE \E j \in DOMAIN t.array : NextFrom(t, i) = Found(j) /\ t.array[j] # Nil
    BY <2>2, ArrayPresent, Answers
  <2>3. QED
    BY <2>1, <2>2, NextFromFinds
<1>3. TryNext(t, c) # Nothing("invalid")
  BY Answers
<1>4. QED
  BY <1>1, <1>2, <1>3, TryNextCases

\* Where a traversal stands whose next key is the first entry from a position on.
AtMap(t, from, s) ==
    /\ \A i \in DOMAIN t.array : t.array[i] # Nil => i \in s
    /\ \A k \in DOMAIN t.hash : t.positions[k] < from => Same(k) \in s
    /\ \A k \in DOMAIN t.positions : t.positions[k] >= from => Same(k) \notin s

\* What a call of next does to a traversal that has visited s.
Proceeds(t, n, s) ==
    /\ n.is = "key" => Same(n.key) \notin s /\ Keeping(t, n.key, s \cup {Same(n.key)})
    /\ n.is # "key" => n.is = "end" /\ \A k \in Known : Present(t, k) => k \in s

LEMMA DistinctPositions ==
    ASSUME NEW t \in Proper
    PROVE  \A j, k \in DOMAIN t.positions :
              j # k => t.positions[j] # t.positions[k] /\ Same(j) # Same(k)
<1>1. \A j, k \in DOMAIN t.positions : j # k => t.positions[j] # t.positions[k]
  BY DEF Proper, Indexed
<1>2. \A j, k \in DOMAIN t.positions : j # k => Same(j) # Same(k)
  BY MapFields, SameKeys DEF Proper, Indexed, Key
<1>3. QED
  BY <1>1, <1>2

LEMMA MapProceeds ==
    ASSUME NEW t \in Proper, NEW from \in Nat \ {0}, NEW s \in SUBSET Known,
           AtMap(t, from, s)
    PROVE  Proceeds(t, NextHash(t, from), s)
<1>n. PICK n : n = NextHash(t, from)
  OBVIOUS
<1>1. CASE n = Nothing("end") /\ \A k \in DOMAIN t.hash : t.positions[k] < from
  <2>1. n.is = "end"
    BY <1>1, Answers
  <2>2. ASSUME NEW k \in Known, Present(t, k) PROVE k \in s
    BY <1>1, <2>2, PresentWhere DEF AtMap
  <2>3. QED
    BY <1>n, <2>1, <2>2 DEF Proceeds
<1>2. ASSUME NEW k \in DOMAIN t.hash, n = Found(k), t.positions[k] >= from,
             \A j \in DOMAIN t.hash :
                t.positions[j] >= from => t.positions[j] >= t.positions[k]
      PROVE  Proceeds(t, n, s)
  <2>1. n.is = "key" /\ n.key = k
    BY <1>2, Answers
  <2>2. k \in HashKey /\ k \in DOMAIN t.positions /\ k # Nil /\ k \notin ArrayKey
    BY HashPresent, Keys DEF Key
  <2>3. Same(k) \notin s
    BY <1>2, <2>2 DEF AtMap
  <2>p. \A j \in DOMAIN t.positions : t.positions[j] \in Nat
    BY MapFields DEF Proper
  <2>4. ASSUME NEW j \in DOMAIN t.hash, t.positions[j] <= t.positions[k]
        PROVE  Same(j) \in s \cup {Same(k)}
    <3>1. j \in DOMAIN t.positions
      BY HashPresent
    <3>2. CASE t.positions[j] < from
      BY <3>2 DEF AtMap
    <3>3. CASE t.positions[j] >= from
      <4>1. t.positions[j] = t.positions[k]
        BY <1>2, <2>2, <2>p, <2>4, <3>1, <3>3
      <4>2. QED
        BY <2>2, <3>1, <4>1, DistinctPositions
    <3>4. QED
      BY <2>p, <3>1, <3>2, <3>3
  <2>5. ASSUME NEW j \in DOMAIN t.positions, t.positions[j] > t.positions[k]
        PROVE  Same(j) \notin s \cup {Same(k)}
    <3>1. t.positions[j] >= from
      BY <1>2, <2>2, <2>p, <2>5
    <3>2. Same(j) \notin s
      BY <3>1 DEF AtMap
    <3>3. j # k
      BY <2>2, <2>p, <2>5
    <3>4. QED
      BY <2>2, <3>2, <3>3, DistinctPositions
  <2>6. AtHash(t, k, s \cup {Same(k)})
    BY <2>2, <2>4, <2>5 DEF AtHash, AtMap
  <2>7. Keeping(t, k, s \cup {Same(k)})
    BY <2>2, <2>6 DEF Keeping
  <2>8. QED
    BY <2>1, <2>3, <2>7 DEF Proceeds
<1>3. QED
  BY <1>n, <1>1, <1>2, NextHashFinds

LEMMA VectorProceeds ==
    ASSUME NEW t \in Proper, NEW i \in Nat, NEW s \in SUBSET Known,
           \A k \in s : k \in ArrayKey /\ k <= i,
           \A j \in DOMAIN t.array : j <= i /\ t.array[j] # Nil => j \in s
    PROVE  Proceeds(t, NextFrom(t, i), s)
<1>n. PICK n : n = NextFrom(t, i)
  OBVIOUS
<1>1. DOMAIN t.array \subseteq ArrayKey /\ ArrayKey \subseteq Nat
  BY ArrayFields, Keys DEF Proper
<1>2. CASE n = NextHash(t, 1) /\ \A j \in DOMAIN t.array : j > i => t.array[j] = Nil
  <2>1. ASSUME NEW j \in DOMAIN t.array, t.array[j] # Nil PROVE j \in s
    <3>1. j \in Nat /\ ~ (j > i)
      BY <1>1, <1>2, <2>1
    <3>2. j <= i
      BY <3>1
    <3> QED BY <2>1, <3>2
  <2>2. \A k \in DOMAIN t.hash : ~ (t.positions[k] < 1)
    BY HashPresent, OrderFields DEF Proper, Indexed
  <2>3. \A k \in DOMAIN t.positions : Same(k) \notin s
    BY MapFields, SameKeys, Keys DEF Proper
  <2>4. AtMap(t, 1, s)
    BY <2>1, <2>2, <2>3 DEF AtMap
  <2>5. QED
    BY <1>n, <1>2, <2>4, MapProceeds
<1>3. ASSUME NEW j \in DOMAIN t.array, n = Found(j), j > i, t.array[j] # Nil,
             \A l \in DOMAIN t.array : l > i /\ t.array[l] # Nil => l >= j
      PROVE  Proceeds(t, n, s)
  <2>1. n.is = "key" /\ n.key = j
    BY <1>3, Answers
  <2>2. j \in ArrayKey /\ Same(j) = j /\ j \notin HashKey /\ j # Nil
    BY <1>1, SameKeys, Keys DEF Key
  <2>n. j \in Nat /\ i < j /\ \A k \in s : k \in Nat /\ k < j
    <3>1. j \in Nat /\ i < j
      BY <1>1, <1>3
    <3>2. ASSUME NEW k \in s PROVE k \in Nat /\ k < j
      <4>1. k \in ArrayKey /\ k <= i
        OBVIOUS
      <4>2. k \in Nat
        BY <1>1, <4>1
      <4>3. QED
        BY <3>1, <4>1, <4>2
    <3>3. QED
      BY <3>1, <3>2
  <2>3. j \notin s
    BY <2>n
  <2>4. \A k \in s \cup {j} : k \in ArrayKey /\ k <= j
    BY <2>n, <2>2
  <2>5. ASSUME NEW l \in DOMAIN t.array, l <= j, t.array[l] # Nil
        PROVE  l \in s \cup {j}
    <3>1. l \in Nat
      BY <1>1
    <3>2. l <= i => l \in s
      BY <2>5
    <3>3. l > i => l >= j
      BY <1>3, <2>5
    <3>4. QED
      BY <3>1, <3>2, <3>3, <2>n, <2>5
  <2>6. AtArray(t, j, s \cup {j})
    BY <2>4, <2>5 DEF AtArray
  <2>7. Keeping(t, j, s \cup {j})
    BY <2>2, <2>6 DEF Keeping
  <2>8. QED
    BY <2>1, <2>2, <2>3, <2>7 DEF Proceeds
<1>4. QED
  BY <1>n, <1>2, <1>3, NextFromFinds

\* A traversal that no new key disturbs goes on with an entry that it has not
\* visited, or ends when it has visited them all; next does not refuse its key.
LEMMA TraversalProceeds ==
    ASSUME NEW t \in Proper, NEW c \in Key \cup {Nil}, NEW s \in SUBSET Known,
           Keeping(t, c, s)
    PROVE  Proceeds(t, TryNext(t, c), s)
<1>1. CASE c = Nil
  <2>1. \A j \in DOMAIN t.array : ~ (j <= 0)
    BY ArrayFields DEF Proper
  <2>2. s = {}
    BY <1>1 DEF Keeping
  <2>3. QED
    BY <1>1, <2>1, <2>2, VectorProceeds, TryNextCases
<1>2. CASE c \in ArrayKey
  <2>1. AtArray(t, c, s)
    BY <1>2 DEF Keeping
  <2>2. c \in Nat /\ c \in DOMAIN t.array
    BY <1>2, <2>1, Keys DEF AtArray
  <2>3. QED
    BY <2>1, <2>2, VectorProceeds, TryNextCases DEF AtArray
<1>3. CASE c \in HashKey
  <2>1. AtHash(t, c, s)
    BY <1>3 DEF Keeping
  <2>p. PICK p \in Nat : p = t.positions[c]
    BY <2>1, MapFields DEF AtHash, Proper
  <2>2. \A k \in DOMAIN t.positions : t.positions[k] \in Nat
    BY MapFields DEF Proper
  <2>3. AtMap(t, p + 1, s)
    <3>1. \A k \in DOMAIN t.hash : t.positions[k] < p + 1 => Same(k) \in s
      BY <2>1, <2>p, <2>2, HashPresent DEF AtHash
    <3>2. \A k \in DOMAIN t.positions : t.positions[k] >= p + 1 => Same(k) \notin s
      BY <2>1, <2>p, <2>2 DEF AtHash
    <3>3. QED
      BY <2>1, <3>1, <3>2 DEF AtMap, AtHash
  <2>4. QED
    BY <2>1, <2>p, <2>3, MapProceeds, TryNextCases DEF AtHash
<1>4. QED
  BY <1>1, <1>2, <1>3 DEF Key

\* An assignment that makes no entry leaves a traversal where it is.
LEMMA ShrinkingKeeps ==
    ASSUME NEW t \in Proper, NEW u \in Proper, Shrinks(t, u), NEW c, NEW s,
           Keeping(t, c, s)
    PROVE  Keeping(u, c, s)
<1>1. \A i : i \in DOMAIN u.array <=> i \in DOMAIN t.array
  BY ArrayFields DEF Shrinks, Proper
<1>2. c \in ArrayKey => AtArray(u, c, s)
  BY <1>1 DEF Keeping, AtArray, Shrinks
<1>3. c \in HashKey => AtHash(u, c, s)
  BY <1>1 DEF Keeping, AtHash, Shrinks
<1>4. QED
  BY <1>2, <1>3 DEF Keeping

-----------------------------------------------------------------------------
(* The invariant. *)

\* What the steps of TableSpec preserve.  Without Keeping, the claim that a
\* traversal visits no key twice and skips none would not be inductive.
TableInvariant ==
    /\ tab \in Proper
    /\ walk \in [Walks -> WalkType]
    /\ \A w \in Walks : WalkOK(tab, walk[w])

\* The refinement mapping: the variables of Lua.
Entries == [k \in Key \ {NegZero} |-> Get(tab, k)]
Phases == [w \in Walks |-> walk[w].phase]
Seen == [w \in Walks |-> walk[w].seen]
Loose == {w \in Walks : walk[w].loose}

LEMMA WalkFields ==
    ASSUME NEW x \in WalkType
    PROVE  /\ x.phase \in {"idle", "going", "over", "failed"}
           /\ x.cursor \in Key \cup {Nil}
           /\ x.seen \in SUBSET Known
           /\ x.loose \in BOOLEAN
           /\ x = [phase |-> x.phase, cursor |-> x.cursor,
                   seen |-> x.seen, loose |-> x.loose]
BY DEF WalkType

LEMMA StoppedOK ==
    ASSUME NEW t, NEW how \in {"idle", "over", "failed"}
    PROVE  /\ Stopped(how) \in WalkType /\ WalkOK(t, Stopped(how))
           /\ Stopped(how).phase = how /\ Stopped(how).seen = {} /\ ~ Stopped(how).loose
           /\ Stopped(how).cursor = Nil
<1>1. Stopped(how) \in WalkType
  BY DEF Stopped, WalkType
<1>2. /\ Stopped(how).phase = how /\ Stopped(how).seen = {} /\ ~ Stopped(how).loose
      /\ Stopped(how).cursor = Nil
  BY DEF Stopped
<1>3. QED
  BY <1>1, <1>2 DEF WalkOK

LEMMA InitHolds ==
    ASSUME TableInit
    PROVE  TableInvariant /\ Lua!Init
<1>1. tab \in Proper
  BY EmptyIsProper DEF TableInit
<1>2. walk = [w \in Walks |-> Stopped("idle")]
  BY DEF TableInit
<1>3. \A w \in Walks : walk[w] = Stopped("idle")
  BY <1>2
<1>4. walk \in [Walks -> WalkType] /\ \A w \in Walks : WalkOK(tab, walk[w])
  BY <1>2, <1>3, StoppedOK
<1>5. \A k \in Key : Get(tab, k) = Nil
  <2>1. DOMAIN tab.array = {} /\ DOMAIN tab.hash = {}
    BY DEF TableInit, EmptyTable
  <2>2. QED
    BY <1>1, <2>1, GetArray, GetAbsent DEF Key
<1>6. /\ Entries = [k \in Key \ {NegZero} |-> Nil]
      /\ Phases = [w \in Walks |-> "idle"]
      /\ Seen = [w \in Walks |-> {}]
      /\ Loose = {}
  BY <1>3, <1>5, StoppedOK DEF Entries, Phases, Seen, Loose
<1>7. QED
  BY <1>1, <1>4, <1>6 DEF TableInvariant, Lua!Init, Entries, Phases, Seen, Loose

\* An assignment of the abstract dictionary, from what Updates says.
LEMMA UpdateIsAssign ==
    ASSUME tab \in Proper, NEW k \in Key, NEW v \in Value \cup {Nil},
           Updates(tab, tab', k, v)
    PROVE  Entries' = [Entries EXCEPT ![Same(k)] = v]
<1>1. Same(k) \in Key \ {NegZero}
  BY SameKeys DEF Known
<1>2. \A j \in Key \ {NegZero} : Same(j) = j
  BY SameKeys DEF Known
<1>3. \A j \in Key \ {NegZero} :
         Get(tab', j) = IF j = Same(k) THEN v ELSE Get(tab, j)
  BY <1>2 DEF Updates
<1>4. Entries' = [j \in Key \ {NegZero} |-> Get(tab', j)]
  BY DEF Entries
<1>5. QED
  BY <1>1, <1>3, <1>4 DEF Entries

LEMMA PresentEntry ==
    ASSUME tab \in Proper, NEW k \in Key
    PROVE  Same(k) \in Lua!Present <=> Get(tab, k) # Nil
<1>1. Same(k) \in Key \ {NegZero} /\ Get(tab, Same(k)) = Get(tab, k)
  BY SameKeys, GetType DEF Known
<1>2. QED
  BY <1>1 DEF Lua!Present

LEMMA AssignHolds ==
    ASSUME TableInvariant, NEW k \in Key, NEW v \in Value \cup {Nil}, Assign(k, v)
    PROVE  TableInvariant' /\ Lua!Assign(Same(k), v)
<1>1. tab \in Proper /\ walk \in [Walks -> WalkType]
  BY DEF TableInvariant
<1>2. /\ tab' \in Proper /\ Updates(tab, tab', k, v)
      /\ v = Nil \/ Get(tab, k) # Nil => Shrinks(tab, tab')
  BY <1>1, SetKeeps DEF Assign
<1>3. Entries' = [Entries EXCEPT ![Same(k)] = v]
  BY <1>1, <1>2, UpdateIsAssign
<1>4. CASE v = Nil \/ Get(tab, k) # Nil
  <2>1. \A w \in Walks : Disturbed(k, v)[w] = walk[w]
    BY <1>1, <1>4, WalkFields DEF Disturbed, WalkType
  <2>2. walk' = walk
    BY <1>1, <2>1 DEF Assign, Disturbed
  <2>3. \A w \in Walks : WalkOK(tab', walk[w])
    BY <1>1, <1>2, <1>4, ShrinkingKeeps DEF TableInvariant, WalkOK
  <2>4. TableInvariant'
    BY <1>1, <1>2, <2>2, <2>3 DEF TableInvariant
  <2>5. Same(k) \in Lua!Present \/ v = Nil
    BY <1>1, <1>4, PresentEntry
  <2>6. QED
    BY <1>3, <2>2, <2>4, <2>5 DEF Lua!Assign, Entries
<1>5. CASE v # Nil /\ Get(tab, k) = Nil
  <2>1. ASSUME NEW w \in Walks
        PROVE  /\ walk'[w] \in WalkType
               /\ walk'[w].phase = walk[w].phase
               /\ walk'[w].cursor = walk[w].cursor
               /\ walk'[w].seen = walk[w].seen
               /\ walk'[w].loose <=> walk[w].loose \/ walk[w].phase = "going"
               /\ walk[w].phase # "going" => walk'[w] = walk[w]
    <3>1. walk'[w] = [walk[w] EXCEPT !.loose = @ \/ walk[w].phase = "going"]
      BY <1>5 DEF Assign, Disturbed, Going
    <3>2. walk[w] \in WalkType
      BY <1>1
    <3>3. QED
      BY <3>1, <3>2, ZenonT(60) DEF WalkType
  <2>2. walk' \in [Walks -> WalkType]
    BY <2>1 DEF Assign, Disturbed
  <2>3. \A w \in Walks : WalkOK(tab', walk'[w])
    BY <2>1 DEF TableInvariant, WalkOK
  <2>4. TableInvariant'
    BY <1>2, <2>2, <2>3 DEF TableInvariant
  <2>5. ~ (Same(k) \in Lua!Present \/ v = Nil)
    BY <1>1, <1>5, PresentEntry
  <2>6. Phases' = Phases /\ Seen' = Seen
    BY <2>1 DEF Phases, Seen
  <2>7. Loose' = Loose \cup {w \in Walks : walk[w].phase = "going"}
    BY <2>1 DEF Loose
  <2>8. Lua!Going = {w \in Walks : walk[w].phase = "going"}
    BY DEF Lua!Going
  <2>9. QED
    BY <1>3, <2>4, <2>5, <2>6, <2>7, <2>8
    DEF Lua!Assign, Entries, Phases, Seen, Loose
<1>6. QED
  BY <1>4, <1>5

LEMMA SweepHolds ==
    ASSUME TableInvariant, NEW k \in Key, Sweep(k)
    PROVE  TableInvariant' /\ Lua!Assign(Same(k), Nil)
<1>1. tab \in Proper /\ walk \in [Walks -> WalkType] /\ walk' = walk
  BY DEF TableInvariant, Sweep
<1>2. tab' \in Proper /\ Updates(tab, tab', k, Nil) /\ Shrinks(tab, tab')
  <2>1. CASE k \in DOMAIN tab.array
    <3>1. k \in ArrayKey
      BY <1>1, <2>1, ArrayFields DEF Proper
    <3>2. QED
      BY <1>1, <2>1, <3>1, SetArrayKeeps DEF Sweep
  <2>2. CASE k \notin DOMAIN tab.array
    BY <1>1, <2>2, RemoveKeeps DEF Sweep
  <2>3. QED
    BY <2>1, <2>2
<1>3. Entries' = [Entries EXCEPT ![Same(k)] = Nil]
  BY <1>1, <1>2, UpdateIsAssign
<1>4. \A w \in Walks : WalkOK(tab', walk[w])
  BY <1>1, <1>2, ShrinkingKeeps DEF TableInvariant, WalkOK
<1>5. TableInvariant'
  BY <1>1, <1>2, <1>4 DEF TableInvariant
<1>6. QED
  BY <1>1, <1>3, <1>5 DEF Lua!Assign, Entries

\* One traversal changes, the table does not.
LEMMA WalkChanges ==
    ASSUME TableInvariant, tab' = tab, NEW w \in Walks, NEW x \in WalkType,
           walk' = [walk EXCEPT ![w] = x], WalkOK(tab, x)
    PROVE  /\ TableInvariant'
           /\ Entries' = Entries
           /\ Phases' = [Phases EXCEPT ![w] = x.phase]
           /\ Seen' = [Seen EXCEPT ![w] = x.seen]
           /\ Loose' = IF x.loose THEN Loose \cup {w} ELSE Loose \ {w}
<1>1. walk' \in [Walks -> WalkType] /\ walk'[w] = x
      /\ \A v \in Walks \ {w} : walk'[v] = walk[v]
  BY DEF TableInvariant
<1>2. \A v \in Walks : WalkOK(tab', walk'[v])
  BY <1>1 DEF TableInvariant
<1>3. TableInvariant'
  BY <1>1, <1>2 DEF TableInvariant
<1>4. Entries' = Entries
  BY DEF Entries
<1>5. Phases' = [Phases EXCEPT ![w] = x.phase]
  BY <1>1 DEF Phases
<1>6. Seen' = [Seen EXCEPT ![w] = x.seen]
  BY <1>1 DEF Seen
<1>7. Loose' = IF x.loose THEN Loose \cup {w} ELSE Loose \ {w}
  BY <1>1 DEF Loose
<1>8. QED
  BY <1>3, <1>4, <1>5, <1>6, <1>7

LEMMA StopHolds ==
    ASSUME TableInvariant, tab' = tab, NEW w \in Walks,
           NEW how \in {"idle", "over", "failed"},
           walk' = [walk EXCEPT ![w] = Stopped(how)]
    PROVE  TableInvariant' /\ Lua!Stop(w, how)
<1>x. PICK x : x = Stopped(how)
  OBVIOUS
<1>1. /\ x \in WalkType /\ WalkOK(tab, x)
      /\ x.phase = how /\ x.seen = {} /\ ~ x.loose
  BY <1>x, StoppedOK
<1>2. walk' = [walk EXCEPT ![w] = x]
  BY <1>x
<1>3. /\ TableInvariant'
      /\ Entries' = Entries
      /\ Phases' = [Phases EXCEPT ![w] = x.phase]
      /\ Seen' = [Seen EXCEPT ![w] = x.seen]
      /\ Loose' = IF x.loose THEN Loose \cup {w} ELSE Loose \ {w}
  <2>1. x \in WalkType /\ WalkOK(tab, x)
    BY <1>1
  <2>2. QED
    BY <1>2, <2>1, WalkChanges
<1>4. QED
  BY <1>1, <1>3 DEF Lua!Stop, Entries, Phases, Seen, Loose

LEMMA BeginHolds ==
    ASSUME TableInvariant, NEW w \in Walks, Begin(w)
    PROVE  TableInvariant' /\ Lua!Begin(w)
<1>1. walk[w] \in WalkType /\ WalkOK(tab, walk[w]) /\ walk[w].phase = "idle" /\ tab' = tab
  BY DEF TableInvariant, Begin
<1>2. walk[w] = Stopped("idle")
  BY <1>1 DEF WalkOK
<1>3. walk[w].cursor = Nil /\ walk[w].seen = {} /\ ~ walk[w].loose
  BY <1>2, StoppedOK
<1>x. PICK x : x = [walk[w] EXCEPT !.phase = "going"]
  OBVIOUS
<1>4. /\ x \in WalkType /\ x.phase = "going"
      /\ x.cursor = Nil /\ x.seen = {} /\ ~ x.loose
  BY <1>x, <1>1, <1>3 DEF WalkType
<1>5. Keeping(tab, x.cursor, x.seen)
  BY <1>4, Keys DEF Keeping, Key
<1>6. WalkOK(tab, x)
  BY <1>4, <1>5 DEF WalkOK
<1>7. walk' = [walk EXCEPT ![w] = x]
  BY <1>x DEF Begin
<1>8. /\ TableInvariant'
      /\ Entries' = Entries
      /\ Phases' = [Phases EXCEPT ![w] = "going"]
      /\ Seen' = [Seen EXCEPT ![w] = {}]
      /\ Loose' = Loose \ {w}
  BY <1>1, <1>4, <1>6, <1>7, WalkChanges
<1>9. Seen' = Seen /\ Loose' = Loose
  <2>1. Seen[w] = {} /\ w \notin Loose
    BY <1>3 DEF Seen, Loose
  <2>2. Seen = [v \in Walks |-> Seen[v]]
    BY DEF Seen
  <2>3. QED
    BY <1>8, <2>1, <2>2
<1>10. Phases[w] = "idle"
  BY <1>1 DEF Phases
<1>11. QED
  BY <1>8, <1>9, <1>10 DEF Lua!Begin, Entries, Phases, Seen, Loose

LEMMA StepHolds ==
    ASSUME TableInvariant, NEW w \in Walks, Step(w)
    PROVE  TableInvariant' /\ (\/ Lua!Finish(w) \/ Lua!Fail(w)
                               \/ \E k \in Key \ {NegZero} : Lua!Visit(w, k))
<1>1. /\ tab' = tab /\ tab \in Proper
      /\ walk[w] \in WalkType /\ WalkOK(tab, walk[w]) /\ walk[w].phase = "going"
  BY DEF TableInvariant, Step, Going
<1>c. PICK c : c = walk[w].cursor
  OBVIOUS
<1>s. PICK s : s = walk[w].seen
  OBVIOUS
<1>n. PICK n : n = TryNext(tab, c)
  OBVIOUS
<1>2. c \in Key \cup {Nil} /\ s \in SUBSET Known
  BY <1>1, <1>c, <1>s, WalkFields
<1>3. ~ walk[w].loose => Proceeds(tab, n, s)
  BY <1>1, <1>2, <1>c, <1>s, <1>n, TraversalProceeds DEF WalkOK
<1>4. w \in Lua!Going /\ (w \in Loose <=> walk[w].loose) /\ Seen[w] = s
  BY <1>1, <1>s DEF Lua!Going, Loose, Seen
<1>5. CASE n.is = "key" /\ walk' = [walk EXCEPT ![w].cursor = n.key,
                                               ![w].seen = @ \cup {Same(n.key)}]
  <2>k. PICK k : k = n.key
    OBVIOUS
  <2>1. k \in Key /\ Get(tab, k) # Nil /\ Same(k) \in Known
    BY <1>1, <1>2, <1>n, <1>5, <2>k, FoundIsPresent, SameKeys DEF Present
  <2>2. Same(k) \in Lua!Present
    BY <1>1, <2>1, PresentEntry
  <2>3. ~ walk[w].loose => Same(k) \notin s /\ Keeping(tab, k, s \cup {Same(k)})
    BY <1>3, <1>5, <2>k DEF Proceeds
  <2>x. PICK x : x = [walk[w] EXCEPT !.cursor = k, !.seen = s \cup {Same(k)}]
    OBVIOUS
  <2>4. /\ x \in WalkType /\ x.phase = "going" /\ x.loose = walk[w].loose
        /\ x.cursor = k /\ x.seen = s \cup {Same(k)}
    BY <1>1, <1>2, <2>1, <2>x DEF WalkType
  <2>5. WalkOK(tab, x)
    BY <2>3, <2>4 DEF WalkOK
  <2>6. walk' = [walk EXCEPT ![w] = x]
    BY <1>1, <1>5, <1>s, <2>k, <2>x DEF TableInvariant
  <2>7. /\ TableInvariant'
        /\ Entries' = Entries
        /\ Phases' = [Phases EXCEPT ![w] = x.phase]
        /\ Seen' = [Seen EXCEPT ![w] = x.seen]
        /\ Loose' = IF x.loose THEN Loose \cup {w} ELSE Loose \ {w}
    <3>1. x \in WalkType /\ tab' = tab
      BY <1>1, <2>4
    <3>2. QED
      BY <2>5, <2>6, <3>1, WalkChanges
  <2>8. Phases' = Phases /\ Loose' = Loose
    BY <1>1, <1>4, <2>4, <2>7 DEF Phases, Loose
  <2>9. Lua!Visit(w, Same(k))
    <3>1. Seen' = [Seen EXCEPT ![w] = s \cup {Same(k)}]
      BY <2>4, <2>7
    <3>2. w \in Loose \/ Same(k) \notin Seen[w]
      BY <1>4, <2>3
    <3>3. Seen' = [Seen EXCEPT ![w] = @ \cup {Same(k)}]
      BY <1>4, <3>1
    <3>4. QED
      BY <1>4, <2>2, <2>7, <2>8, <3>2, <3>3
      DEF Lua!Visit, Entries, Phases, Seen, Loose
  <2>10. QED
    BY <2>1, <2>7, <2>9 DEF Known
<1>6. CASE n.is # "key" /\ walk' = [walk EXCEPT ![w] = Stopped("over")]
  <2>1. TableInvariant' /\ Lua!Stop(w, "over")
    BY <1>1, <1>6, StopHolds
  <2>2. ~ walk[w].loose => Lua!Present \subseteq s
    <3>1. \A k \in Lua!Present : k \in Known /\ Present(tab, k)
      BY DEF Lua!Present, Present, Known
    <3>2. QED
      BY <1>3, <1>6, <3>1 DEF Proceeds
  <2>3. Lua!Finish(w)
    BY <1>4, <2>1, <2>2 DEF Lua!Finish, Seen, Loose
  <2>4. QED
    BY <2>1, <2>3
<1>7. CASE n.is = "invalid" /\ walk' = [walk EXCEPT ![w] = Stopped("failed")]
  <2>1. TableInvariant' /\ Lua!Stop(w, "failed")
    BY <1>1, <1>7, StopHolds
  <2>2. walk[w].loose
    BY <1>3, <1>7 DEF Proceeds
  <2>3. Lua!Fail(w)
    BY <1>4, <2>1, <2>2 DEF Lua!Fail, Loose
  <2>4. QED
    BY <2>1, <2>3
<1>8. QED
  BY <1>c, <1>n, <1>5, <1>6, <1>7 DEF Step

LEMMA LeaveHolds ==
    ASSUME TableInvariant, NEW w \in Walks, Leave(w)
    PROVE  TableInvariant' /\ Lua!Leave(w)
BY StopHolds DEF Leave, Lua!Leave

LEMMA NextHolds ==
    ASSUME TableInvariant, [TableNext]_tableVars
    PROVE  TableInvariant' /\ [Lua!Next]_Lua!vars
<1>1. ASSUME NEW k \in Key, NEW v \in Value \cup {Nil}, Assign(k, v) \/ (v = Nil /\ Sweep(k))
      PROVE  TableInvariant' /\ Lua!Next
  <2>1. Same(k) \in Key \ {NegZero}
    BY SameKeys DEF Known
  <2>2. TableInvariant' /\ Lua!Assign(Same(k), v)
    BY <1>1, AssignHolds, SweepHolds
  <2>3. QED
    BY <2>1, <2>2 DEF Lua!Next
<1>2. ASSUME NEW w \in Walks, Begin(w) \/ Step(w) \/ Leave(w)
      PROVE  TableInvariant' /\ Lua!Next
  BY <1>2, BeginHolds, StepHolds, LeaveHolds DEF Lua!Next
<1>3. CASE UNCHANGED tableVars
  <2>1. tab' = tab /\ walk' = walk
    BY <1>3 DEF tableVars
  <2>2. TableInvariant'
    BY <2>1 DEF TableInvariant
  <2>3. UNCHANGED Lua!vars
    BY <2>1 DEF Lua!vars
  <2>4. QED
    BY <2>2, <2>3
<1>4. Nil \in Value \cup {Nil}
  OBVIOUS
<1>5. QED
  BY <1>1, <1>2, <1>3, <1>4 DEF TableNext

-----------------------------------------------------------------------------
(* Length. *)

\* Without numbers near the end of the search.  A key above MaxInteger \div 2 may be
\* missed by the code (section 6 of the README).
ShortKeys == \A k \in Key \cap Nat : k <= MaxInteger \div 2

LEMMA NumbersFound ==
    ASSUME NEW t \in Proper, NEW n \in Nat
    PROVE  /\ Get(t, n) # Nil => n \in Key
           /\ Get(t, 0) = Nil
           /\ Filled(t, n) => n > 0 /\ Get(t, n) # Nil
           /\ ShortKeys /\ ~ Filled(t, n) => Get(t, n) = Nil
<1>1. ASSUME NEW i \in Nat, i \notin Key
      PROVE  Get(t, i) = Nil
  <2>1. Normal(t, i) = i
    BY <1>1, Keys DEF Normal, Key
  <2>2. i \notin ArrayKey /\ i \notin DOMAIN t.hash
    BY <1>1, MapFields DEF Proper, Key
  <2> QED
    BY <2>1, <2>2 DEF Get
<1>2. 0 \notin Key
  BY TableAssumption DEF Key, ArrayKey
<1>3. ASSUME ShortKeys, ~ Filled(t, n), Get(t, n) # Nil
      PROVE  FALSE
  <2>1. n \in Key
    BY <1>1, <1>3
  <2>2. n <= MaxInteger \div 2 /\ MaxInteger \in Nat
    BY <1>3, <2>1, TableAssumption DEF ShortKeys
  <2> QED
    BY <1>3, <2>2 DEF Filled
<1> QED
  BY <1>1, <1>2, <1>3 DEF Filled

Pairs == Nat \X Nat
\* What the bisection answers when its index is p, if f answers for smaller gaps.
Bisected(t, f, p) ==
    LET l == p[1]  h == p[2]
        mid == l + (h - l) \div 2
    IN  IF h - l <= 1 THEN l
        ELSE f[IF Filled(t, mid) THEN <<mid, h>> ELSE <<l, mid>>]
Bisects(t, f) == f = [p \in Pairs |-> Bisected(t, f, p)]

Half(t) == [p \in Pairs |->
    LET mid == p[1] + (p[2] - p[1]) \div 2
    IN  IF Filled(t, mid) THEN <<mid, p[2]>> ELSE <<p[1], mid>>]
Gap == [p \in Pairs |-> IF p[2] > p[1] THEN p[2] - p[1] ELSE 0]
Near == {p \in Pairs : p[2] - p[1] <= 1}
First == [p \in Pairs |-> p[1]]
Pass == [q \in Pairs \X Nat |-> q[2]]

\* The middle is inside, so each half is smaller.
LEMMA HalfIsSmaller ==
    ASSUME NEW t
    PROVE  /\ Gap \in [Pairs -> Nat]
           /\ \A p \in Pairs \ Near :
                 /\ Half(t)[p] \in Pairs /\ Gap[Half(t)[p]] < Gap[p]
                 /\ p[1] < p[2]
                 /\ \/ /\ Filled(t, Half(t)[p][1])
                       /\ p[1] < Half(t)[p][1] /\ Half(t)[p][1] < p[2] /\ Half(t)[p][2] = p[2]
                    \/ /\ ~ Filled(t, Half(t)[p][2])
                       /\ Half(t)[p][1] = p[1] /\ p[1] < Half(t)[p][2] /\ Half(t)[p][2] < p[2]
<1>1. Gap \in [Pairs -> Nat]
  BY DEF Gap, Pairs
<1>2. ASSUME NEW p \in Pairs \ Near
      PROVE  /\ Half(t)[p] \in Pairs /\ Gap[Half(t)[p]] < Gap[p]
             /\ p[1] < p[2]
             /\ \/ /\ Filled(t, Half(t)[p][1])
                   /\ p[1] < Half(t)[p][1] /\ Half(t)[p][1] < p[2] /\ Half(t)[p][2] = p[2]
                \/ /\ ~ Filled(t, Half(t)[p][2])
                   /\ Half(t)[p][1] = p[1] /\ p[1] < Half(t)[p][2] /\ Half(t)[p][2] < p[2]
  <2>1. p[1] \in Nat /\ p[2] \in Nat /\ p[2] - p[1] >= 2 /\ p = <<p[1], p[2]>>
    BY DEF Near, Pairs
  <2>2. PICK l \in Nat, h \in Nat : l = p[1] /\ h = p[2]
    BY <2>1
  <2>3. PICK m \in Nat : m = p[1] + (p[2] - p[1]) \div 2 /\ l < m /\ m < h
    BY <2>1, <2>2
  <2>4. \/ Half(t)[p] = <<m, h>> /\ Filled(t, m)
        \/ Half(t)[p] = <<l, m>> /\ ~ Filled(t, m)
    BY <2>2, <2>3, <2>1 DEF Half
  <2>5. Gap[<<m, h>>] = h - m /\ Gap[<<l, m>>] = m - l /\ Gap[p] = h - l
    BY <2>2, <2>3, <2>1 DEF Gap, Pairs
  <2> QED
    BY <2>2, <2>4, <2>5, <2>3 DEF Pairs
<1> QED
  BY <1>1, <1>2

LEMMA BisectionExists ==
    ASSUME NEW t
    PROVE  \E f : Bisects(t, f)
<1>1. First \in [Pairs -> Nat] /\ Pass \in [Pairs \X Nat -> Nat]
  BY DEF First, Pass, Pairs
<1>2. PICK f \in [Pairs -> Nat] : Recursive(f, Pairs, Near, First, Pass, Half(t))
  <2>1. Gap \in [Pairs -> Nat]
    BY HalfIsSmaller
  <2>2. \A p \in Pairs \ Near : Half(t)[p] \in Pairs /\ Gap[Half(t)[p]] < Gap[p]
    BY HalfIsSmaller
  <2> QED
    BY <1>1, <2>1, <2>2, RecursionExists, Zenon
<1>3. ASSUME NEW p \in Pairs
      PROVE  f[p] = Bisected(t, f, p)
  <2>1. f[p] = IF p \in Near THEN First[p] ELSE Pass[<<p, f[Half(t)[p]]>>]
    BY <1>2 DEF Recursive
  <2>2. p \in Near <=> p[2] - p[1] <= 1
    BY DEF Near
  <2>3. First[p] = p[1]
    BY DEF First
  <2>4. p \notin Near => f[Half(t)[p]] \in Nat
    BY HalfIsSmaller
  <2>5. p \notin Near => Pass[<<p, f[Half(t)[p]]>>] = f[Half(t)[p]]
    BY <2>4 DEF Pass
  <2>6. Half(t)[p] = IF Filled(t, p[1] + (p[2] - p[1]) \div 2)
                     THEN <<p[1] + (p[2] - p[1]) \div 2, p[2]>>
                     ELSE <<p[1], p[1] + (p[2] - p[1]) \div 2>>
    BY DEF Half
  <2> QED
    BY <2>1, <2>2, <2>3, <2>5, <2>6 DEF Bisected
<1> QED
  BY <1>3, <1>2 DEF Bisects, Recursive

\* The bisection keeps a filled index, or 0, below and an empty one above.
LEMMA BisectFindsBorder ==
    ASSUME NEW t, NEW low \in Nat, NEW high \in Nat, low < high,
           low = 0 \/ Filled(t, low), ~ Filled(t, high)
    PROVE  /\ Bisect(t, low, high) \in Nat
           /\ Bisect(t, low, high) = 0 \/ Filled(t, Bisect(t, low, high))
           /\ ~ Filled(t, Bisect(t, low, high) + 1)
<1> DEFINE f == CHOOSE g : Bisects(t, g)
           Starts == {p \in Pairs : /\ p[1] < p[2] /\ ~ Filled(t, p[2])
                                    /\ p[1] = 0 \/ Filled(t, p[1])}
           Good(r) == r \in Nat /\ (r = 0 \/ Filled(t, r)) /\ ~ Filled(t, r + 1)
           Bad == {p \in Starts : ~ Good(f[p])}
           Gaps == {Gap[p] : p \in Bad}
<1>1. Bisects(t, f)
  BY BisectionExists
<1>2. \A p \in Pairs : f[p] = Bisected(t, f, p)
  BY <1>1 DEF Bisects
<1>3. Bisect(t, low, high) = f[<<low, high>>]
  BY DEF Bisect, Bisects, Bisected, Pairs
<1> HIDE DEF f
<1>4. Bad = {}
  <2> SUFFICES ASSUME Bad # {} PROVE FALSE
    OBVIOUS
  <2>1. Gaps \in SUBSET Nat /\ Gaps # {}
    BY HalfIsSmaller
  <2>2. PICK k \in Gaps : \A j \in Gaps : k <= j
    BY <2>1, LeastNumber
  <2>3. PICK p \in Bad : Gap[p] = k
    BY <2>2
  <2>4. p[1] \in Nat /\ p[2] \in Nat
    BY DEF Pairs
  <2>5. f[p] = Bisected(t, f, p)
    BY <1>2
  <2>6. CASE p \in Near
    <3>1. p[2] = p[1] + 1
      BY <2>4, <2>6 DEF Near
    <3>2. f[p] = p[1]
      BY <2>5, <2>6 DEF Bisected, Near
    <3> QED
      BY <2>4, <3>1, <3>2
  <2>7. CASE p \notin Near
    <3> DEFINE q == Half(t)[p]
    <3>1. q \in Pairs /\ Gap[q] < Gap[p] /\ q \in Starts
      <4>1. q \in Pairs /\ Gap[q] < Gap[p]
        BY <2>7, HalfIsSmaller
      <4>2. q[1] \in Nat /\ q[2] \in Nat
        BY <4>1 DEF Pairs
      <4>3. \/ Filled(t, q[1]) /\ p[1] < q[1] /\ q[1] < p[2] /\ q[2] = p[2]
            \/ ~ Filled(t, q[2]) /\ q[1] = p[1] /\ p[1] < q[2] /\ q[2] < p[2]
        BY <2>7, HalfIsSmaller
      <4> HIDE DEF q
      <4> QED
        BY <4>1, <4>2, <4>3, <2>4
    <3>2. f[p] = f[q]
      BY <2>5, <2>7 DEF Bisected, Half, Near
    <3>3. q \in Bad
      BY <3>1, <3>2
    <3>4. Gap[q] \in Gaps
      BY <3>3
    <3>5. Gap[q] \in Nat /\ Gap[p] \in Nat
      BY <3>1, HalfIsSmaller
    <3>6. Gap[p] <= Gap[q]
      BY <3>4, <2>2, <2>3
    <3> HIDE DEF q, Bad, Gaps, Starts
    <3> QED
      BY <3>1, <3>5, <3>6
  <2> QED
    BY <2>6, <2>7
<1>5. <<low, high>> \in Starts
  BY DEF Pairs
<1> QED
  BY <1>3, <1>4, <1>5

\* What the search by doubling answers, if f answers for larger indices.
Doubled(t, f, p) ==
    LET l == p[1]  h == p[2]
    IN  IF ~ Filled(t, h) THEN Bisect(t, l, h)
        ELSE IF h > MaxInteger \div 2 THEN h
        ELSE f[<<h, 2 * h>>]
Doubles(t, f) == f = [p \in Pairs |-> Doubled(t, f, p)]

Ended(t) == {p \in Pairs : ~ Filled(t, p[2]) \/ p[2] > MaxInteger \div 2}
FoundAt(t) == [p \in Pairs |-> IF ~ Filled(t, p[2]) THEN Bisect(t, p[1], p[2]) ELSE p[2]]
Double == [p \in Pairs |-> <<p[2], 2 * p[2]>>]
Rest == [p \in Pairs |-> IF p[2] > MaxInteger THEN 0 ELSE MaxInteger - p[2]]

LEMMA DoubleIsLarger ==
    ASSUME NEW t \in Proper
    PROVE  /\ Rest \in [Pairs -> Nat]
           /\ \A p \in Pairs \ Ended(t) :
                 /\ Double[p] \in Pairs /\ Rest[Double[p]] < Rest[p]
                 /\ Double[p] = <<p[2], 2 * p[2]>> /\ p[2] < 2 * p[2]
<1>1. Rest \in [Pairs -> Nat]
  BY TableAssumption DEF Rest, Pairs
<1>2. ASSUME NEW p \in Pairs \ Ended(t)
      PROVE  /\ Double[p] \in Pairs /\ Rest[Double[p]] < Rest[p]
             /\ Double[p] = <<p[2], 2 * p[2]>> /\ p[2] < 2 * p[2]
  <2>1. PICK h \in Nat : h = p[2]
    BY DEF Pairs
  <2>2. Filled(t, h) /\ h <= MaxInteger \div 2
    BY <2>1, TableAssumption DEF Ended
  <2>3. h > 0 /\ h < 2 * h /\ 2 * h <= MaxInteger /\ 2 * h \in Nat
    BY <2>2, NumbersFound, TableAssumption
  <2>4. Double[p] = <<h, 2 * h>>
    BY <2>1 DEF Double
  <2>5. Rest[<<h, 2 * h>>] = MaxInteger - 2 * h /\ Rest[p] = MaxInteger - h
    BY <2>1, <2>3, TableAssumption DEF Rest, Pairs
  <2> QED
    BY <2>1, <2>3, <2>4, <2>5, TableAssumption DEF Pairs
<1> QED
  BY <1>1, <1>2

LEMMA DoublingExists ==
    ASSUME NEW t \in Proper
    PROVE  \E f : Doubles(t, f)
<1> DEFINE R == {FoundAt(t)[p] : p \in Pairs}
           Keep == [q \in Pairs \X R |-> q[2]]
<1>1. FoundAt(t) \in [Pairs -> R] /\ Keep \in [Pairs \X R -> R]
  BY DEF FoundAt
<1>2. PICK f \in [Pairs -> R] : Recursive(f, Pairs, Ended(t), FoundAt(t), Keep, Double)
  <2>1. Rest \in [Pairs -> Nat]
    BY DoubleIsLarger
  <2>2. \A p \in Pairs \ Ended(t) : Double[p] \in Pairs /\ Rest[Double[p]] < Rest[p]
    BY DoubleIsLarger
  <2> HIDE DEF R, Keep
  <2> QED
    BY <1>1, <2>1, <2>2, RecursionExists, Zenon
<1>3. ASSUME NEW p \in Pairs
      PROVE  f[p] = Doubled(t, f, p)
  <2>1. f[p] = IF p \in Ended(t) THEN FoundAt(t)[p] ELSE Keep[<<p, f[Double[p]]>>]
    BY <1>2 DEF Recursive
  <2>2. p \in Ended(t) <=> ~ Filled(t, p[2]) \/ p[2] > MaxInteger \div 2
    BY DEF Ended
  <2>3. FoundAt(t)[p] = IF ~ Filled(t, p[2]) THEN Bisect(t, p[1], p[2]) ELSE p[2]
    BY DEF FoundAt
  <2>4. p \notin Ended(t) => f[Double[p]] \in R /\ Double[p] = <<p[2], 2 * p[2]>>
    BY DoubleIsLarger
  <2>5. p \notin Ended(t) => Keep[<<p, f[Double[p]]>>] = f[<<p[2], 2 * p[2]>>]
    <3> HIDE DEF R
    <3> QED
      BY <2>4
  <2> HIDE DEF R, Keep
  <2> QED
    BY <2>1, <2>2, <2>3, <2>5 DEF Doubled
<1> HIDE DEF R, Keep
<1> QED
  BY <1>3, <1>2 DEF Doubles, Recursive

\* Doubling ends at an empty index, between which and the last filled one there is
\* a border.
LEMMA UnboundFindsBorder ==
    ASSUME NEW t \in Proper, NEW low \in Nat, NEW high \in Nat, low < high,
           low = 0 \/ Filled(t, low)
    PROVE  /\ Unbound(t, low, high) \in Nat
           /\ Unbound(t, low, high) = 0 \/ Filled(t, Unbound(t, low, high))
           /\ ShortKeys => ~ Filled(t, Unbound(t, low, high) + 1)
<1> DEFINE f == CHOOSE g : Doubles(t, g)
           Starts == {p \in Pairs : p[1] < p[2] /\ (p[1] = 0 \/ Filled(t, p[1]))}
           Good(r) == /\ r \in Nat /\ (r = 0 \/ Filled(t, r))
                      /\ ShortKeys => ~ Filled(t, r + 1)
           Bad == {p \in Starts : ~ Good(f[p])}
           Rests == {Rest[p] : p \in Bad}
<1>1. Doubles(t, f)
  BY DoublingExists
<1>2. \A p \in Pairs : f[p] = Doubled(t, f, p)
  BY <1>1 DEF Doubles
<1>3. Unbound(t, low, high) = f[<<low, high>>]
  BY DEF Unbound, Doubles, Doubled, Pairs
<1> HIDE DEF f
<1>4. Bad = {}
  <2> SUFFICES ASSUME Bad # {} PROVE FALSE
    OBVIOUS
  <2>1. Rests \in SUBSET Nat /\ Rests # {}
    BY DoubleIsLarger
  <2>2. PICK k \in Rests : \A j \in Rests : k <= j
    BY <2>1, LeastNumber
  <2>3. PICK p \in Bad : Rest[p] = k
    BY <2>2
  <2>4. p[1] \in Nat /\ p[2] \in Nat
    BY DEF Pairs
  <2>5. f[p] = Doubled(t, f, p)
    BY <1>2
  <2>6. CASE ~ Filled(t, p[2])
    <3>1. f[p] = Bisect(t, p[1], p[2])
      BY <2>5, <2>6 DEF Doubled
    <3> QED
      BY <2>4, <2>6, <3>1, BisectFindsBorder
  <2>7. CASE Filled(t, p[2]) /\ p[2] > MaxInteger \div 2
    <3>1. p[2] \in Key
      BY <2>4, <2>7, NumbersFound
    <3>2. f[p] = p[2]
      BY <2>5, <2>7 DEF Doubled
    <3> QED
      BY <2>4, <2>7, <3>1, <3>2, TableAssumption DEF ShortKeys
  <2>8. CASE p \notin Ended(t)
    <3> DEFINE q == Double[p]
    <3>1. q \in Pairs /\ Rest[q] < Rest[p] /\ q \in Starts
      BY <2>8, <2>4, DoubleIsLarger DEF Ended
    <3>2. f[p] = f[q]
      BY <2>5, <2>8, DoubleIsLarger DEF Doubled, Ended
    <3>3. q \in Bad
      BY <3>1, <3>2
    <3>4. Rest[q] \in Rests
      BY <3>3
    <3>5. Rest[q] \in Nat /\ Rest[p] \in Nat
      BY <3>1, DoubleIsLarger
    <3>6. Rest[p] <= Rest[q]
      BY <3>4, <2>2, <2>3
    <3> HIDE DEF q, Bad, Rests, Starts
    <3> QED
      BY <3>1, <3>5, <3>6
  <2> QED
    BY <2>6, <2>7, <2>8 DEF Ended
<1>5. <<low, high>> \in Starts
  BY DEF Pairs
<1> QED
  BY <1>3, <1>4, <1>5

LEMMA LengthFindsBorder ==
    ASSUME NEW t \in Proper
    PROVE  LET n == Length(t)
           IN  /\ n \in Nat /\ (n = 0 \/ Get(t, n) # Nil)
               /\ ShortKeys => Get(t, n + 1) = Nil
<1>1. PICK size \in Nat : size = Len(t.array)
  BY ArrayFields DEF Proper
<1>2. /\ Length(t) \in Nat
      /\ Length(t) = 0 \/ Filled(t, Length(t))
      /\ ShortKeys => ~ Filled(t, Length(t) + 1)
  <2>1. CASE size > 0 /\ ~ Filled(t, size)
    <3>1. Length(t) = Bisect(t, 0, size)
      BY <1>1, <2>1 DEF Length
    <3> QED
      BY <2>1, <3>1, BisectFindsBorder
  <2>2. CASE size > 0 /\ Filled(t, size) /\ ~ Filled(t, size + 1)
    <3>1. Length(t) = size
      BY <1>1, <2>2 DEF Length
    <3> QED
      BY <2>2, <3>1
  <2>3. CASE size = 0 \/ (Filled(t, size) /\ Filled(t, size + 1))
    <3>1. PICK high \in Nat : high = (IF size = 0 THEN 1 ELSE 2 * size) /\ size < high
      OBVIOUS
    <3>2. Length(t) = Unbound(t, size, high)
      BY <1>1, <2>3, <3>1 DEF Length
    <3> QED
      BY <2>3, <3>1, <3>2, UnboundFindsBorder
  <2>4. size = 0 \/ size > 0
    OBVIOUS
  <2> QED
    BY <2>1, <2>2, <2>3, <2>4
<1> QED
  BY <1>2, NumbersFound

-----------------------------------------------------------------------------
(* The theorems. *)

\* Every step of the table and of its traversals preserves TableInvariant.
THEOREM TableKeepsInvariant == TableSpec => []TableInvariant
<1>1. TableInit => TableInvariant
  BY InitHolds
<1>2. TableInvariant /\ [TableNext]_tableVars => TableInvariant'
  BY NextHolds
<1>3. QED
  BY <1>1, <1>2, PTL DEF TableSpec

\* OrderIsIndexed: whatever is assigned, removed, compacted or swept, the positions
\* are the inverse of the order, and the order knows every key of the map.
THEOREM TableOrderIsIndexed == TableSpec => []OrderIsIndexed
<1>1. TableInvariant => OrderIsIndexed
  BY DEF TableInvariant, Proper, Indexed, OrderIsIndexed
<1>2. QED
  BY <1>1, TableKeepsInvariant, PTL

\* LengthIsBorder: whatever parts of an array lie in the vector and in the map, and
\* however many nils are in between, the two searches end at a border.
THEOREM LengthsAreBorders ==
    ASSUME ShortKeys
    PROVE  TableSpec => []LengthIsBorder
<1>1. TableInvariant => LengthIsBorder
  BY LengthFindsBorder DEF TableInvariant, LengthIsBorder
<1>2. QED
  BY <1>1, TableKeepsInvariant, PTL

\* TableIsDictionary: a key has the value assigned last, and a traversal that no
\* new key disturbs visits every entry exactly once and is never refused.
THEOREM TableImplementsDictionary == TableSpec => TableIsDictionary
<1>1. TableInit => Lua!Init
  BY InitHolds
<1>2. TableInvariant /\ [TableNext]_tableVars => [Lua!Next]_Lua!vars
  BY NextHolds
<1>3. QED
  BY <1>1, <1>2, TableKeepsInvariant, PTL DEF TableSpec, TableIsDictionary, Lua!Spec


-----------------------------------------------------------------------------
(* The states of a sort. *)

Index == Nat \ {0}
List == Seq(Value \cup {Nil})

RunState == [width : Index, middle : Index, right : Index, left : Index,
             first : Index, second : Index, output : Index]

LEMMA SortFields ==
    ASSUME NEW s \in SortState
    PROVE  /\ s.phase \in {"idle", "calling", "commit", "failed"}
           /\ s.stage \in {"validate", "merge", "complete"}
           /\ s.pending \in {"none", "ValidatePrimary", "ValidateReverse",
                             "MergePrimary", "MergeReverse"}
           /\ s.custom \in BOOLEAN /\ s.metamethod \in BOOLEAN /\ s.honest \in BOOLEAN
           /\ s.values \in List /\ s.scratch \in List /\ s.given \in List
           /\ s.index \in Index /\ s.run \in RunState
           /\ Size(s) \in Nat /\ Size(s) = Len(s.values) /\ Len(s.scratch) = Size(s)
           /\ s.run.middle <= Size(s) + 1 /\ s.run.right <= Size(s) + 1
           /\ s = [phase |-> s.phase, stage |-> s.stage, pending |-> s.pending,
                   custom |-> s.custom, metamethod |-> s.metamethod,
                   values |-> s.values, scratch |-> s.scratch, index |-> s.index,
                   run |-> s.run, given |-> s.given, honest |-> s.honest]
BY DEF SortState, Size, List, Index, RunState

\* A record with the fields of a sort and no other.
Complete(s) ==
    s = [phase |-> s.phase, stage |-> s.stage, pending |-> s.pending,
         custom |-> s.custom, metamethod |-> s.metamethod, values |-> s.values,
         scratch |-> s.scratch, index |-> s.index, run |-> s.run, given |-> s.given,
         honest |-> s.honest]

\* A record that is given by all of its fields.
IsSort(s, phase, stage, pending, custom, metamethod, values, scratch, index, run, given, honest) ==
    s = [phase |-> phase, stage |-> stage, pending |-> pending,
         custom |-> custom, metamethod |-> metamethod, values |-> values,
         scratch |-> scratch, index |-> index, run |-> run, given |-> given,
         honest |-> honest]

Begun(s, c, m, v, e, g) ==
    [s EXCEPT !.custom = c, !.metamethod = m, !.values = v, !.scratch = e, !.given = g]

LEMMA SortBegun ==
    ASSUME NEW s, Complete(s), NEW c, NEW m, NEW v, NEW e, NEW g
    PROVE  IsSort(Begun(s, c, m, v, e, g), s.phase, s.stage, s.pending, c, m, v, e, s.index,
                  s.run, g, s.honest)
<1>1. PICK t : t = [s EXCEPT !.custom = c, !.metamethod = m]
  OBVIOUS
<1>2. t = [phase |-> s.phase, stage |-> s.stage, pending |-> s.pending,
           custom |-> c, metamethod |-> m, values |-> s.values,
           scratch |-> s.scratch, index |-> s.index, run |-> s.run, given |-> s.given,
           honest |-> s.honest]
  BY <1>1 DEF Complete
<1>3. /\ t.phase = s.phase /\ t.custom = c /\ t.metamethod = m /\ t.stage = s.stage
      /\ t.pending = s.pending /\ t.index = s.index /\ t.run = s.run /\ t.honest = s.honest
  BY <1>2
<1>4. Complete(t)
  BY <1>1 DEF Complete
<1>5. PICK u : u = [t EXCEPT !.values = v, !.scratch = e, !.given = g]
  OBVIOUS
<1>6. u = [phase |-> t.phase, stage |-> t.stage, pending |-> t.pending,
           custom |-> t.custom, metamethod |-> t.metamethod, values |-> v,
           scratch |-> e, index |-> t.index, run |-> t.run, given |-> g,
           honest |-> t.honest]
  BY <1>4, <1>5 DEF Complete
<1>7. u = [phase |-> s.phase, stage |-> s.stage, pending |-> s.pending,
           custom |-> c, metamethod |-> m, values |-> v,
           scratch |-> e, index |-> s.index, run |-> s.run, given |-> g,
           honest |-> s.honest]
  BY <1>3, <1>6
<1>8. Begun(s, c, m, v, e, g) = u
  BY <1>1, <1>5 DEF Begun
<1> QED
  BY <1>7, <1>8 DEF IsSort

LEMMA SortIntro ==
    ASSUME NEW s,
           s = [phase |-> s.phase, stage |-> s.stage, pending |-> s.pending,
                custom |-> s.custom, metamethod |-> s.metamethod,
                values |-> s.values, scratch |-> s.scratch, index |-> s.index,
                run |-> s.run, given |-> s.given, honest |-> s.honest],
           s.phase \in {"idle", "calling", "commit", "failed"},
           s.stage \in {"validate", "merge", "complete"},
           s.pending \in {"none", "ValidatePrimary", "ValidateReverse",
                          "MergePrimary", "MergeReverse"},
           s.custom \in BOOLEAN, s.metamethod \in BOOLEAN, s.honest \in BOOLEAN,
           s.values \in List, s.scratch \in List, s.given \in List,
           s.index \in Index, s.run \in RunState,
           Len(s.scratch) = Len(s.values),
           s.run.middle <= Len(s.values) + 1, s.run.right <= Len(s.values) + 1
    PROVE  s \in SortState
BY DEF SortState, Size, List, Index, RunState

LEMMA RunFields ==
    ASSUME NEW r \in RunState
    PROVE  /\ r.width \in Nat /\ r.width > 0 /\ r.middle \in Nat /\ r.middle > 0
           /\ r.right \in Nat /\ r.right > 0 /\ r.left \in Nat /\ r.left > 0
           /\ r.first \in Nat /\ r.first > 0 /\ r.second \in Nat /\ r.second > 0
           /\ r.output \in Nat /\ r.output > 0
BY DEF RunState, Index

LEMMA LesserOfTwo ==
    ASSUME NEW a \in Nat, NEW b \in Nat
    PROVE  Min({a, b}) = IF a <= b THEN a ELSE b
<1>1. {a, b} \in SUBSET Nat /\ {a, b} # {}
  OBVIOUS
<1>2. Min({a, b}) \in {a, b} /\ \A j \in {a, b} : Min({a, b}) <= j
  BY <1>1, HasMin
<1> QED
  BY <1>2

\* A new run has its two parts before it.
LEMMA RunBegins ==
    ASSUME NEW n \in Nat, NEW w \in Index, NEW left \in Index
    PROVE  LET r == Run(n, w, left)
           IN  /\ r \in RunState /\ r.width = w /\ r.left = left /\ r.first = left
               /\ r.output = left /\ r.second = r.middle
               /\ r.middle = (IF left + w <= n + 1 THEN left + w ELSE n + 1)
               /\ r.right = (IF left + 2 * w <= n + 1 THEN left + 2 * w ELSE n + 1)
<1>1. /\ Min({left + w, n + 1}) = IF left + w <= n + 1 THEN left + w ELSE n + 1
      /\ Min({left + 2 * w, n + 1}) = IF left + 2 * w <= n + 1 THEN left + 2 * w ELSE n + 1
  <2>1. left + w \in Nat /\ n + 1 \in Nat /\ left + 2 * w \in Nat
    BY DEF Index
  <2> QED
    BY <2>1, LesserOfTwo
<1>2. PICK m \in Index, h \in Index :
        /\ m = IF left + w <= n + 1 THEN left + w ELSE n + 1
        /\ h = IF left + 2 * w <= n + 1 THEN left + 2 * w ELSE n + 1
  BY DEF Index
<1>3. Run(n, w, left) = [width |-> w, middle |-> m, right |-> h, left |-> left,
                         first |-> left, second |-> m, output |-> left]
  BY <1>1, <1>2 DEF Run
<1> QED
  BY <1>2, <1>3 DEF RunState

-----------------------------------------------------------------------------
(* One turn of the loop. *)

\* What taking a value changes; the value must be there.
LEMMA TakenFields ==
    ASSUME NEW s \in SortState, NEW fromSecond \in BOOLEAN
    PROVE  LET t == Taken(s, fromSecond)
               i == IF fromSecond THEN s.run.second ELSE s.run.first
           IN  /\ t.phase = s.phase /\ t.stage = s.stage /\ t.pending = s.pending
               /\ t.custom = s.custom /\ t.metamethod = s.metamethod
               /\ t.honest = s.honest /\ t.values = s.values /\ t.given = s.given
               /\ t.index = s.index
               /\ t.scratch = [s.scratch EXCEPT ![s.run.output] = s.values[i]]
               /\ t.run \in RunState
               /\ t.run.width = s.run.width /\ t.run.middle = s.run.middle
               /\ t.run.right = s.run.right /\ t.run.left = s.run.left
               /\ t.run.output = s.run.output + 1
               /\ t.run.first = (IF fromSecond THEN s.run.first ELSE s.run.first + 1)
               /\ t.run.second = (IF fromSecond THEN s.run.second + 1 ELSE s.run.second)
               /\ t = [phase |-> t.phase, stage |-> t.stage, pending |-> t.pending,
                       custom |-> t.custom, metamethod |-> t.metamethod,
                       values |-> t.values, scratch |-> t.scratch, index |-> t.index,
                       run |-> t.run, given |-> t.given, honest |-> t.honest]
<1> DEFINE g == [s.run EXCEPT !.output = @ + 1,
                              !.first = IF fromSecond THEN @ ELSE @ + 1,
                              !.second = IF fromSecond THEN @ + 1 ELSE @]
           i == IF fromSecond THEN s.run.second ELSE s.run.first
           a == [s.scratch EXCEPT ![s.run.output] = s.values[i]]
<1>1. /\ g \in RunState
      /\ g.width = s.run.width /\ g.middle = s.run.middle
      /\ g.right = s.run.right /\ g.left = s.run.left
      /\ g.output = s.run.output + 1
      /\ g.first = (IF fromSecond THEN s.run.first ELSE s.run.first + 1)
      /\ g.second = (IF fromSecond THEN s.run.second + 1 ELSE s.run.second)
  <2>1. PICK r \in RunState : r = s.run
    BY SortFields
  <2>2. PICK f \in Index, c \in Index, o \in Index :
           /\ f = (IF fromSecond THEN r.first ELSE r.first + 1)
           /\ c = (IF fromSecond THEN r.second + 1 ELSE r.second)
           /\ o = r.output + 1
    BY RunFields DEF Index
  <2>3. g = [r EXCEPT !.output = o, !.first = f, !.second = c]
    BY <2>1, <2>2 DEF RunState
  <2>4. g = [width |-> r.width, middle |-> r.middle, right |-> r.right, left |-> r.left,
             first |-> f, second |-> c, output |-> o]
    <3>1. r = [width |-> r.width, middle |-> r.middle, right |-> r.right,
               left |-> r.left, first |-> r.first, second |-> r.second,
               output |-> r.output]
      BY DEF RunState
    <3> HIDE DEF g
    <3> QED
      BY <2>3, <3>1
  <2> QED
    BY <2>1, <2>2, <2>4 DEF RunState
<1>2. Taken(s, fromSecond) = [s EXCEPT !.scratch = a, !.run = g]
  BY SortFields DEF Taken
<1> HIDE DEF g, a
<1>3. Taken(s, fromSecond) =
        [phase |-> s.phase, stage |-> s.stage, pending |-> s.pending,
         custom |-> s.custom, metamethod |-> s.metamethod,
         values |-> s.values, scratch |-> a, index |-> s.index,
         run |-> g, given |-> s.given, honest |-> s.honest]
  BY <1>2, SortFields, ZenonT(60)
<1> QED
  BY <1>1, <1>3 DEF a

LEMMA TakenType ==
    ASSUME NEW s \in SortState, NEW fromSecond \in BOOLEAN,
           IF fromSecond THEN s.run.second < s.run.right ELSE s.run.first < s.run.middle
    PROVE  Taken(s, fromSecond) \in SortState
<1> DEFINE i == IF fromSecond THEN s.run.second ELSE s.run.first
<1>1. i \in 1..Len(s.values)
  BY SortFields, RunFields
<1>2. s.values[i] \in Value \cup {Nil}
  BY <1>1, SortFields DEF List
<1>3. /\ [s.scratch EXCEPT ![s.run.output] = s.values[i]] \in List
      /\ Len([s.scratch EXCEPT ![s.run.output] = s.values[i]]) = Len(s.scratch)
  <2>1. PICK v \in Value \cup {Nil}, a \in List : v = s.values[i] /\ a = s.scratch
    BY <1>2, SortFields
  <2>2. [a EXCEPT ![s.run.output] = v] \in List /\ Len([a EXCEPT ![s.run.output] = v]) = Len(a)
    <3>1. CASE s.run.output \in 1..Len(a)
      BY <3>1, ExceptSeq DEF List
    <3>2. CASE s.run.output \notin 1..Len(a)
      <4>1. [a EXCEPT ![s.run.output] = v] = a
        BY <3>2 DEF List
      <4> QED
        BY <4>1
    <3> QED
      BY <3>1, <3>2
  <2> QED
    BY <2>1, <2>2
<1>4. PICK t : t = Taken(s, fromSecond)
  OBVIOUS
<1>5. t.scratch \in List /\ t.run \in RunState /\ Len(t.scratch) = Len(s.scratch)
  BY <1>3, <1>4, TakenFields
<1>6. /\ t.phase = s.phase /\ t.stage = s.stage /\ t.pending = s.pending
      /\ t.custom = s.custom /\ t.metamethod = s.metamethod
      /\ t.honest = s.honest /\ t.values = s.values /\ t.given = s.given
      /\ t.index = s.index
      /\ t.run.middle = s.run.middle /\ t.run.right = s.run.right
      /\ t = [phase |-> t.phase, stage |-> t.stage, pending |-> t.pending,
              custom |-> t.custom, metamethod |-> t.metamethod,
              values |-> t.values, scratch |-> t.scratch, index |-> t.index,
              run |-> t.run, given |-> t.given, honest |-> t.honest]
  BY <1>4, TakenFields
<1>7. t \in SortState
  BY <1>5, <1>6, SortFields, SortIntro
<1> QED
  BY <1>4, <1>7

\* Whether t is a record with the fields of a sort state, and the choices of s.
Kept(s, t) ==
    /\ t = [phase |-> t.phase, stage |-> t.stage, pending |-> t.pending,
            custom |-> t.custom, metamethod |-> t.metamethod,
            values |-> t.values, scratch |-> t.scratch, index |-> t.index,
            run |-> t.run, given |-> t.given, honest |-> t.honest]
    /\ t.custom = s.custom /\ t.metamethod = s.metamethod
    /\ t.honest = s.honest /\ t.given = s.given
SameLists(s, t) == t.values = s.values /\ t.scratch = s.scratch
SameCourse(s, t) == t.phase = s.phase /\ t.pending = s.pending /\ t.index = s.index

Both(s) == s.run.first < s.run.middle /\ s.run.second < s.run.right
Comparable(s) == {s.values[s.run.second], s.values[s.run.first]} \subseteq Value

Asks(s, t) ==
    /\ SameLists(s, t) /\ t.stage = s.stage /\ t.run = s.run /\ t.index = s.index
    /\ t.phase = "calling"
    /\ \/ s.stage = "validate" /\ t.pending = "ValidatePrimary"
       \/ s.stage = "merge" /\ Both(s) /\ t.pending = "MergePrimary"
Validated(s, t) ==
    /\ s.stage = "validate" /\ SameLists(s, t) /\ SameCourse(s, t)
    /\ \/ Size(s) < 2 /\ t.stage = "complete" /\ t.run = s.run
       \/ Size(s) >= 2 /\ t.stage = "merge" /\ t.run = Run(Size(s), 1, 1)
Commits(s, t) ==
    /\ s.stage = "complete" /\ SameLists(s, t) /\ t.stage = s.stage /\ t.run = s.run
    /\ t.phase = "commit" /\ t.pending = s.pending /\ t.index = 1
GivesUp(s, t) ==
    /\ s.stage = "merge" /\ Both(s) /\ ~ Comparable(s)
    /\ SameLists(s, t) /\ t.stage = s.stage /\ t.run = s.run
    /\ t.phase = "failed" /\ t.pending = s.pending /\ t.index = s.index
Takes2(s, t) ==
    /\ s.stage = "merge"
    /\ \/ /\ Both(s) /\ Comparable(s)
          /\ t = Taken(s, s.values[s.run.second] < s.values[s.run.first])
       \/ s.run.first < s.run.middle /\ ~ (s.run.second < s.run.right) /\ t = Taken(s, FALSE)
       \/ ~ (s.run.first < s.run.middle) /\ s.run.second < s.run.right /\ t = Taken(s, TRUE)
Merged(s) ==
    /\ s.stage = "merge"
    /\ ~ (s.run.first < s.run.middle) /\ ~ (s.run.second < s.run.right)
NextRun(s, t) ==
    /\ Merged(s) /\ s.run.left + 2 * s.run.width <= Size(s)
    /\ SameLists(s, t) /\ SameCourse(s, t) /\ t.stage = s.stage
    /\ t.run = Run(Size(s), s.run.width, s.run.left + 2 * s.run.width)
Swaps(s, t) ==
    /\ Merged(s) /\ ~ (s.run.left + 2 * s.run.width <= Size(s))
    /\ t.values = s.scratch /\ t.scratch = s.values /\ SameCourse(s, t)
    /\ \/ /\ t.stage = "complete" /\ t.run = s.run
          /\ s.run.width > Size(s) \div 2 \/ 2 * s.run.width >= Size(s)
       \/ /\ t.stage = "merge" /\ t.run = Run(Size(s), 2 * s.run.width, 1)
          /\ 2 * s.run.width < Size(s)

LEMMA TakenIsKept ==
    ASSUME NEW s \in SortState, NEW fromSecond \in BOOLEAN
    PROVE  Kept(s, Taken(s, fromSecond))
<1>1. PICK t : t = Taken(s, fromSecond)
  OBVIOUS
<1>2. /\ t.custom = s.custom /\ t.metamethod = s.metamethod
      /\ t.honest = s.honest /\ t.given = s.given
      /\ t = [phase |-> t.phase, stage |-> t.stage, pending |-> t.pending,
              custom |-> t.custom, metamethod |-> t.metamethod,
              values |-> t.values, scratch |-> t.scratch, index |-> t.index,
              run |-> t.run, given |-> t.given, honest |-> t.honest]
  BY <1>1, TakenFields
<1> QED
  BY <1>1, <1>2 DEF Kept

\* An answer is TRUE or FALSE because values are numbers.
LEMMA ComparedTruly ==
    ASSUME NEW s, Comparable(s)
    PROVE  (s.values[s.run.second] < s.values[s.run.first]) \in BOOLEAN
<1>1. s.values[s.run.second] \in Int /\ s.values[s.run.first] \in Int
  BY LibraryAssumption DEF Comparable
<1> QED
  BY <1>1

LEMMA TurnCases ==
    ASSUME NEW s \in SortState, NEW t, t = Turn(s)
    PROVE  /\ Kept(s, t)
           /\ \/ Asks(s, t) \/ Validated(s, t) \/ Commits(s, t) \/ GivesUp(s, t)
              \/ Takes2(s, t) \/ NextRun(s, t) \/ Swaps(s, t)
<1>1. /\ s = [phase |-> s.phase, stage |-> s.stage, pending |-> s.pending,
              custom |-> s.custom, metamethod |-> s.metamethod,
              values |-> s.values, scratch |-> s.scratch, index |-> s.index,
              run |-> s.run, given |-> s.given, honest |-> s.honest]
      /\ s.stage \in {"validate", "merge", "complete"} /\ Size(s) \in Nat
      /\ s.custom \in BOOLEAN /\ s.metamethod \in BOOLEAN
  BY SortFields
<1>2. CASE s.stage = "validate"
  <2>1. CASE s.custom /\ s.index <= Size(s)
    <3>1. t = [s EXCEPT !.phase = "calling", !.pending = "ValidatePrimary"]
      BY <1>1, <1>2, <2>1 DEF Turn
    <3> QED
      BY <1>1, <1>2, <3>1 DEF Kept, Asks, SameLists
  <2>2. CASE ~ (s.custom /\ s.index <= Size(s)) /\ Size(s) < 2
    <3>1. t = [s EXCEPT !.stage = "complete"]
      BY <1>1, <1>2, <2>2 DEF Turn
    <3> QED
      BY <1>1, <1>2, <2>2, <3>1 DEF Kept, Validated, SameLists, SameCourse
  <2>3. CASE ~ (s.custom /\ s.index <= Size(s)) /\ ~ (Size(s) < 2)
    <3> DEFINE g == Run(Size(s), 1, 1)
    <3>1. t = [s EXCEPT !.stage = "merge", !.run = g]
      BY <1>1, <1>2, <2>3 DEF Turn
    <3> HIDE DEF g
    <3>2. /\ t.run = g /\ t.stage = "merge" /\ SameLists(s, t)
          /\ SameCourse(s, t) /\ Kept(s, t)
      BY <1>1, <3>1 DEF Kept, SameCourse, SameLists
    <3> QED
      BY <1>1, <1>2, <2>3, <3>2 DEF Validated, g
  <2> QED
    BY <2>1, <2>2, <2>3
<1>3. CASE s.stage = "complete"
  <2>1. t = [s EXCEPT !.phase = "commit", !.index = 1]
    BY <1>1, <1>3 DEF Turn
  <2> QED
    BY <1>1, <1>3, <2>1 DEF Kept, Commits, SameLists
<1>4. CASE s.stage = "merge" /\ Both(s)
  <2>1. CASE s.custom \/ (~ Comparable(s) /\ s.metamethod)
    <3>1. t = [s EXCEPT !.phase = "calling", !.pending = "MergePrimary"]
      BY <1>1, <1>4, <2>1 DEF Turn, Both, Comparable
    <3> QED
      BY <1>1, <1>4, <3>1 DEF Kept, Asks, SameLists
  <2>2. CASE ~ s.custom /\ Comparable(s)
    <3>1. t = Taken(s, s.values[s.run.second] < s.values[s.run.first])
      BY <1>1, <1>4, <2>2 DEF Turn, Both, Comparable
    <3>2. PICK b \in BOOLEAN : t = Taken(s, b)
      BY <1>1, <2>2, <3>1, ComparedTruly
    <3>3. Kept(s, t)
      BY <3>2, TakenIsKept
    <3> QED
      BY <1>4, <2>2, <3>1, <3>3 DEF Takes2
  <2>3. CASE ~ s.custom /\ ~ Comparable(s) /\ ~ s.metamethod
    <3>1. t = [s EXCEPT !.phase = "failed"]
      BY <1>1, <1>4, <2>3 DEF Turn, Both, Comparable
    <3> QED
      BY <1>1, <1>4, <2>3, <3>1 DEF Kept, GivesUp, SameLists
  <2> QED
    BY <1>1, <2>1, <2>2, <2>3
<1>5. CASE s.stage = "merge" /\ ~ Both(s)
  <2>1. CASE s.run.first < s.run.middle
    <3>1. t = Taken(s, FALSE)
      BY <1>1, <1>5, <2>1 DEF Turn, Both
    <3>2. Kept(s, t)
      BY <3>1, TakenIsKept
    <3> QED
      BY <1>5, <2>1, <3>1, <3>2 DEF Takes2, Both
  <2>2. CASE ~ (s.run.first < s.run.middle) /\ s.run.second < s.run.right
    <3>1. t = Taken(s, TRUE)
      BY <1>1, <1>5, <2>2 DEF Turn, Both
    <3>2. Kept(s, t)
      BY <3>1, TakenIsKept
    <3> QED
      BY <1>5, <2>2, <3>1, <3>2 DEF Takes2, Both
  <2>3. CASE Merged(s) /\ s.run.left + 2 * s.run.width <= Size(s)
    <3> DEFINE g == Run(Size(s), s.run.width, s.run.left + 2 * s.run.width)
    <3>1. t = [s EXCEPT !.run = g]
      BY <1>1, <1>5, <2>3 DEF Turn, Both, Merged
    <3> HIDE DEF g
    <3>2. t.run = g /\ t.stage = s.stage /\ SameLists(s, t) /\ SameCourse(s, t) /\ Kept(s, t)
      BY <1>1, <3>1 DEF Kept, SameLists, SameCourse
    <3> QED
      BY <2>3, <3>2 DEF NextRun, g
  <2>4. CASE Merged(s) /\ ~ (s.run.left + 2 * s.run.width <= Size(s))
    <3>1. t = NextPass(s)
      BY <1>1, <1>5, <2>4 DEF Turn, Both, Merged
    <3>2. CASE s.run.width > Size(s) \div 2 \/ 2 * s.run.width >= Size(s)
      <4>1. t = [[s EXCEPT !.values = s.scratch, !.scratch = s.values] EXCEPT !.stage = "complete"]
        BY <3>1, <3>2 DEF NextPass
      <4>2. t = [s EXCEPT !.values = s.scratch, !.scratch = s.values, !.stage = "complete"]
        BY <1>1, <4>1
      <4> QED
        BY <1>1, <2>4, <3>2, <4>2 DEF Kept, Swaps, SameCourse
    <3>3. CASE ~ (s.run.width > Size(s) \div 2 \/ 2 * s.run.width >= Size(s))
      <4> DEFINE g == Run(Size(s), 2 * s.run.width, 1)
      <4>1. t = [[s EXCEPT !.values = s.scratch, !.scratch = s.values] EXCEPT !.run = g]
        BY <3>1, <3>3 DEF NextPass
      <4> HIDE DEF g
      <4>2. t = [s EXCEPT !.values = s.scratch, !.scratch = s.values, !.run = g]
        BY <1>1, <4>1
      <4>3. 2 * s.run.width < Size(s)
        BY <3>3, <1>1, SortFields, RunFields
      <4>4. /\ t.run = g /\ t.stage = "merge" /\ t.values = s.scratch /\ t.scratch = s.values
            /\ SameCourse(s, t) /\ Kept(s, t)
        BY <1>1, <1>5, <4>2 DEF Kept, SameCourse
      <4> QED
        BY <2>4, <4>3, <4>4 DEF Swaps, g
    <3> QED
      BY <3>2, <3>3
  <2> QED
    BY <1>5, <2>1, <2>2, <2>3, <2>4 DEF Merged
<1> QED
  BY <1>1, <1>2, <1>3, <1>4, <1>5

LEMMA TurnType ==
    ASSUME NEW s \in SortState
    PROVE  Turn(s) \in SortState
<1> PICK t : t = Turn(s)
  OBVIOUS
<1> SUFFICES t \in SortState
  OBVIOUS
<1>1. Kept(s, t)
  BY TurnCases
<1>2. ASSUME /\ t.phase \in {"idle", "calling", "commit", "failed"}
             /\ t.stage \in {"validate", "merge", "complete"}
             /\ t.pending \in {"none", "ValidatePrimary", "ValidateReverse",
                               "MergePrimary", "MergeReverse"}
             /\ t.values \in List /\ t.scratch \in List /\ t.index \in Index
             /\ t.run \in RunState /\ Len(t.scratch) = Len(t.values)
             /\ t.run.middle <= Len(t.values) + 1 /\ t.run.right <= Len(t.values) + 1
      PROVE  t \in SortState
  BY <1>1, <1>2, SortFields, SortIntro DEF Kept
<1>3. CASE Asks(s, t) \/ Commits(s, t) \/ GivesUp(s, t)
  BY <1>2, <1>3, SortFields DEF Asks, Commits, GivesUp, SameLists, Index
<1>4. CASE Validated(s, t)
  <2> DEFINE g == Run(Size(s), 1, 1)
  <2>1. Size(s) \in Nat /\ 1 \in Index
    BY SortFields DEF Index
  <2>2. g \in RunState /\ g.middle <= Size(s) + 1 /\ g.right <= Size(s) + 1
    BY <2>1, RunBegins
  <2> HIDE DEF g
  <2>3. /\ t.run = s.run \/ t.run = g
        /\ t.stage \in {"complete", "merge"} /\ SameLists(s, t) /\ SameCourse(s, t)
    BY <1>4 DEF Validated, g
  <2> QED
    BY <1>2, <2>2, <2>3, SortFields DEF SameLists, SameCourse
<1>5. CASE Takes2(s, t)
  <2>1. PICK b \in BOOLEAN : /\ t = Taken(s, b)
                             /\ IF b THEN s.run.second < s.run.right
                                ELSE s.run.first < s.run.middle
    <3>1. CASE Both(s) /\ Comparable(s) /\ t = Taken(s, s.values[s.run.second] < s.values[s.run.first])
      <4>1. (s.values[s.run.second] < s.values[s.run.first]) \in BOOLEAN
        BY <3>1, ComparedTruly
      <4> QED
        BY <3>1, <4>1 DEF Both
    <3> QED
      BY <1>5, <3>1 DEF Takes2
  <2> QED
    BY <2>1, TakenType
<1>6. CASE NextRun(s, t)
  <2> DEFINE g == Run(Size(s), s.run.width, s.run.left + 2 * s.run.width)
  <2>1. s.run.left + 2 * s.run.width \in Index /\ s.run.width \in Index
    BY SortFields, RunFields DEF Index
  <2>2. g \in RunState /\ g.middle <= Size(s) + 1 /\ g.right <= Size(s) + 1
    BY <2>1, SortFields, RunBegins
  <2> HIDE DEF g
  <2>3. t.run = g /\ t.stage = s.stage /\ SameLists(s, t) /\ SameCourse(s, t)
    BY <1>6 DEF NextRun, g
  <2> QED
    BY <1>2, <2>2, <2>3, SortFields DEF SameLists, SameCourse
<1>7. CASE Swaps(s, t)
  <2> DEFINE g == Run(Size(s), 2 * s.run.width, 1)
  <2>1. 2 * s.run.width \in Index /\ 1 \in Index
    BY SortFields, RunFields DEF Index
  <2>2. g \in RunState /\ g.middle <= Size(s) + 1 /\ g.right <= Size(s) + 1
    BY <2>1, SortFields, RunBegins
  <2> HIDE DEF g
  <2>3. /\ t.values = s.scratch /\ t.scratch = s.values /\ SameCourse(s, t)
        /\ t.stage \in {"complete", "merge"} /\ (t.run = g \/ t.run = s.run)
    BY <1>7 DEF Swaps, g
  <2> QED
    BY <1>2, <2>2, <2>3, SortFields DEF SameCourse
<1> QED
  BY <1>3, <1>4, <1>5, <1>6, <1>7, TurnCases

-----------------------------------------------------------------------------
(* The loop ends. *)

\* The numbers whose higher digit is a and whose lower digit, at most B, is b.
Digits(a, B, b) == a * (B + 1) + b

LEMMA DigitsOrder ==
    ASSUME NEW a \in Nat, NEW c \in Nat, NEW B \in Nat, NEW b \in Nat, NEW d \in Nat
    PROVE  /\ Digits(a, B, b) \in Nat
           /\ c < a /\ d <= B => Digits(c, B, d) < Digits(a, B, b)
           /\ c = a /\ d < b => Digits(c, B, d) < Digits(a, B, b)
           /\ c <= a /\ d <= b => Digits(c, B, d) <= Digits(a, B, b)
<1> DEFINE K == B + 1
<1>1. K \in Nat /\ (d <= B => d < K)
  OBVIOUS
<1>2. ASSUME NEW x \in Nat, NEW y \in Nat, x <= y
      PROVE  x * K \in Nat /\ y * K \in Nat /\ x * K <= y * K
  <2>1. PICK z \in Nat : y = x + z
    <3>1. y - x \in Nat /\ y = x + (y - x)
      BY <1>2
    <3> QED
      BY <3>1
  <2> HIDE DEF K
  <2>2. y * K = x * K + z * K /\ x * K \in Nat /\ z * K \in Nat
    BY <2>1, <1>1
  <2> QED
    BY <2>2
<1>3. ASSUME c < a
      PROVE  c * K + K <= a * K /\ c * K \in Nat /\ a * K \in Nat
  <2>1. c + 1 \in Nat /\ c + 1 <= a /\ (c + 1) * K = c * K + K
    BY <1>3
  <2> HIDE DEF K
  <2> QED
    BY <1>1, <2>1, <1>2
<1>4. a * K \in Nat /\ c * K \in Nat /\ (c <= a => c * K <= a * K)
  BY <1>2
<1>5. Digits(a, B, b) = a * K + b /\ Digits(c, B, d) = c * K + d
  BY DEF Digits
<1> HIDE DEF K
<1>6. CASE c < a
  <2>1. d <= B => d < K
    BY DEF K
  <2> QED
    BY <1>1, <1>3, <1>4, <1>5, <2>1, <1>6
<1>7. CASE ~ (c < a)
  BY <1>4, <1>5, <1>7
<1> QED
  BY <1>6, <1>7

Excess(a, b) == IF a > b THEN a - b ELSE 0

LEMMA ExcessIs ==
    ASSUME NEW a \in Nat, NEW b \in Nat
    PROVE  /\ Excess(a, b) \in Nat /\ Excess(a, b) <= a
           /\ b < a => Excess(a, b + 1) < Excess(a, b)
           /\ \A c \in Nat : b < a /\ b < c => Excess(a, c) < Excess(a, b)
           /\ \A n \in Nat : a <= n + 1 /\ b > 0 => Excess(a, b) <= n
BY DEF Excess

\* What is left to do: values of the run, runs of the pass, passes, and stages.
InRun(s) == Excess(s.run.middle, s.run.first) + Excess(s.run.right, s.run.second)
InPass(s) == Digits(Excess(Size(s) + 1, s.run.left), 2 * Size(s), InRun(s))
MostInPass(n) == Digits(n, 2 * n, 2 * n)
InMerge(s) == Digits(Excess(Size(s) + 1, s.run.width), MostInPass(Size(s)), InPass(s))
MostInMerge(n) == Digits(n, MostInPass(n), MostInPass(n))
Stages(s) == IF s.stage = "validate" THEN 2 ELSE IF s.stage = "merge" THEN 1 ELSE 0
Work(s) == IF Halted(s) THEN 0 ELSE 1 + Digits(Stages(s), MostInMerge(Size(s)), InMerge(s))

LEMMA WorkType ==
    ASSUME NEW s \in SortState
    PROVE  /\ InRun(s) \in Nat /\ InRun(s) <= 2 * Size(s)
           /\ InPass(s) \in Nat /\ InPass(s) <= MostInPass(Size(s))
           /\ InMerge(s) \in Nat /\ InMerge(s) <= MostInMerge(Size(s))
           /\ MostInPass(Size(s)) \in Nat /\ MostInMerge(Size(s)) \in Nat
           /\ Excess(Size(s) + 1, s.run.left) \in Nat
           /\ Excess(Size(s) + 1, s.run.width) \in Nat
           /\ Stages(s) \in Nat /\ Work(s) \in Nat
<1>1. PICK n \in Nat : n = Size(s)
  BY SortFields
<1>2. InRun(s) \in Nat /\ InRun(s) <= 2 * n
  <2>1. /\ Excess(s.run.middle, s.run.first) \in Nat
        /\ Excess(s.run.middle, s.run.first) <= n
        /\ Excess(s.run.right, s.run.second) \in Nat
        /\ Excess(s.run.right, s.run.second) <= n
    BY <1>1, SortFields, RunFields, ExcessIs
  <2> QED
    BY <2>1 DEF InRun
<1>3. /\ Excess(n + 1, s.run.left) \in Nat /\ Excess(n + 1, s.run.left) <= n
      /\ Excess(n + 1, s.run.width) \in Nat /\ Excess(n + 1, s.run.width) <= n
  <2>1. /\ n + 1 \in Nat /\ n + 1 <= n + 1 /\ s.run.left \in Nat /\ s.run.left > 0
        /\ s.run.width \in Nat /\ s.run.width > 0
    BY SortFields, RunFields
  <2> QED
    BY <2>1, ExcessIs
<1>4. InPass(s) \in Nat /\ InPass(s) <= MostInPass(n) /\ MostInPass(n) \in Nat
  <2>1. 2 * n \in Nat /\ 2 * n <= 2 * n
    OBVIOUS
  <2>2. InPass(s) = Digits(Excess(n + 1, s.run.left), 2 * n, InRun(s))
    BY <1>1 DEF InPass
  <2>3. Digits(n, 2 * n, 2 * n) \in Nat
    BY <2>1, DigitsOrder
  <2>4. /\ Digits(Excess(n + 1, s.run.left), 2 * n, InRun(s)) \in Nat
        /\ Digits(Excess(n + 1, s.run.left), 2 * n, InRun(s)) <= Digits(n, 2 * n, 2 * n)
    BY <1>2, <1>3, <2>1, DigitsOrder
  <2> QED
    BY <2>2, <2>3, <2>4 DEF MostInPass
<1>5. InMerge(s) \in Nat /\ InMerge(s) <= MostInMerge(n) /\ MostInMerge(n) \in Nat
  <2> DEFINE B == MostInPass(n)
  <2>1. InMerge(s) = Digits(Excess(n + 1, s.run.width), B, InPass(s))
    BY <1>1 DEF InMerge
  <2>2. Digits(n, B, B) \in Nat
    BY <1>4, DigitsOrder
  <2>3. /\ Digits(Excess(n + 1, s.run.width), B, InPass(s)) \in Nat
        /\ Digits(Excess(n + 1, s.run.width), B, InPass(s)) <= Digits(n, B, B)
    BY <1>3, <1>4, DigitsOrder
  <2> QED
    BY <2>1, <2>2, <2>3 DEF MostInMerge
<1>6. Stages(s) \in Nat
  BY DEF Stages
<1>7. Work(s) \in Nat
  <2>1. Digits(Stages(s), MostInMerge(n), InMerge(s)) \in Nat
    BY <1>5, <1>6, DigitsOrder
  <2> QED
    BY <1>1, <2>1 DEF Work
<1> QED
  BY <1>1, <1>2, <1>3, <1>4, <1>5, <1>6, <1>7

LEMMA TurnKeepsSize ==
    ASSUME NEW s \in SortState
    PROVE  Size(Turn(s)) = Size(s)
<1>1. PICK t : t = Turn(s)
  OBVIOUS
<1>2. ASSUME NEW b \in BOOLEAN, t = Taken(s, b)
      PROVE  t.values = s.values
  BY <1>2, TakenFields
<1>3. t.values = s.values \/ t.values = s.scratch
  <2>1. CASE Takes2(s, t)
    <3>1. PICK b \in BOOLEAN : t = Taken(s, b)
      BY <2>1, ComparedTruly DEF Takes2
    <3> QED
      BY <3>1, <1>2
  <2> QED
    BY <1>1, <2>1, TurnCases
       DEF Asks, Validated, Commits, GivesUp, NextRun, Swaps, SameLists
<1>4. Len(t.values) = Len(s.values)
  BY <1>3, SortFields
<1> QED
  BY <1>1, <1>4 DEF Size

\* Every turn lessens the work.
LEMMA TurnIsProgress ==
    ASSUME NEW s \in SortState, ~ Halted(s)
    PROVE  Work(Turn(s)) < Work(s)
<1>1. PICK t \in SortState : t = Turn(s)
  BY TurnType
<1>2. PICK n \in Nat : n = Size(s) /\ n = Size(t)
  BY <1>1, TurnKeepsSize, SortFields
<1>3. /\ Work(s) = 1 + Digits(Stages(s), MostInMerge(n), InMerge(s))
      /\ InMerge(s) \in Nat /\ InMerge(t) \in Nat /\ Stages(s) \in Nat /\ Stages(t) \in Nat
      /\ InMerge(t) <= MostInMerge(n) /\ MostInMerge(n) \in Nat
  BY <1>2, WorkType DEF Work
<1>4. Digits(Stages(s), MostInMerge(n), InMerge(s)) \in Nat
  BY <1>3, DigitsOrder
<1>5. CASE Halted(t)
  BY <1>1, <1>3, <1>4, <1>5 DEF Work
<1>6. ASSUME ~ Halted(t),
             Stages(t) < Stages(s) \/ (Stages(t) = Stages(s) /\ InMerge(t) < InMerge(s))
      PROVE  Work(t) < Work(s)
  <2>1. Work(t) = 1 + Digits(Stages(t), MostInMerge(n), InMerge(t))
    BY <1>2, <1>6 DEF Work
  <2>2. /\ Digits(Stages(t), MostInMerge(n), InMerge(t)) <
              Digits(Stages(s), MostInMerge(n), InMerge(s))
        /\ Digits(Stages(t), MostInMerge(n), InMerge(t)) \in Nat
    BY <1>3, <1>6, DigitsOrder
  <2> QED
    BY <1>3, <1>4, <2>1, <2>2
<1>7. ASSUME t.stage = s.stage, t.run.width = s.run.width, InPass(t) < InPass(s)
      PROVE  Stages(t) = Stages(s) /\ InMerge(t) < InMerge(s)
  <2>1. /\ InPass(s) \in Nat /\ InPass(t) \in Nat /\ MostInPass(n) \in Nat
        /\ Excess(n + 1, s.run.width) \in Nat
    BY <1>2, WorkType
  <2> QED
    BY <2>1, <1>2, <1>7, DigitsOrder DEF InMerge, Stages
<1>8. CASE Takes2(s, t)
  <2>1. PICK b \in BOOLEAN : /\ t = Taken(s, b)
                             /\ IF b THEN s.run.second < s.run.right
                                ELSE s.run.first < s.run.middle
    <3>1. CASE Both(s) /\ Comparable(s) /\ t = Taken(s, s.values[s.run.second] < s.values[s.run.first])
      <4>1. (s.values[s.run.second] < s.values[s.run.first]) \in BOOLEAN
        BY <3>1, ComparedTruly
      <4> QED
        BY <3>1, <4>1 DEF Both
    <3> QED
      BY <1>8, <3>1 DEF Takes2
  <2>2. /\ t.stage = s.stage /\ t.run.width = s.run.width /\ t.run.left = s.run.left
        /\ t.run.middle = s.run.middle /\ t.run.right = s.run.right
        /\ t.run.first = (IF b THEN s.run.first ELSE s.run.first + 1)
        /\ t.run.second = (IF b THEN s.run.second + 1 ELSE s.run.second)
    BY <2>1, TakenFields, ZenonT(60)
  <2>3. InRun(t) < InRun(s)
    <3>1. /\ s.run.middle \in Nat /\ s.run.first \in Nat
          /\ s.run.right \in Nat /\ s.run.second \in Nat
      BY SortFields, RunFields
    <3>2. /\ Excess(s.run.middle, s.run.first) \in Nat
          /\ Excess(s.run.right, s.run.second) \in Nat
          /\ ~ b => /\ Excess(s.run.middle, s.run.first + 1) < Excess(s.run.middle, s.run.first)
                    /\ Excess(s.run.middle, s.run.first + 1) \in Nat
          /\ b => /\ Excess(s.run.right, s.run.second + 1) < Excess(s.run.right, s.run.second)
                  /\ Excess(s.run.right, s.run.second + 1) \in Nat
      <4>1. s.run.first + 1 \in Nat /\ s.run.second + 1 \in Nat
        BY <3>1
      <4> QED
        BY <2>1, <3>1, <4>1, ExcessIs
    <3> QED
      BY <2>2, <3>2 DEF InRun
  <2>4. InPass(t) < InPass(s)
    <3>1. /\ InRun(s) \in Nat /\ InRun(t) \in Nat /\ 2 * n \in Nat
          /\ Excess(n + 1, s.run.left) \in Nat
      <4>1. 2 * n \in Nat
        OBVIOUS
      <4> QED
        BY <1>2, <4>1, WorkType
    <3> QED
      BY <3>1, <1>2, <2>2, <2>3, DigitsOrder DEF InPass
  <2> QED
    BY <1>1, <1>5, <1>6, <1>7, <2>2, <2>4
<1>9. CASE NextRun(s, t)
  <2>1. /\ t.stage = s.stage
        /\ t.run = Run(Size(s), s.run.width, s.run.left + 2 * s.run.width)
        /\ s.run.left + 2 * s.run.width <= n
    BY <1>2, <1>9 DEF NextRun
  <2>2. s.run.left + 2 * s.run.width \in Index /\ s.run.width \in Index
    <3>1. s.run \in RunState
      BY SortFields
    <3>2. PICK l \in Nat, w \in Nat : l = s.run.left /\ w = s.run.width /\ l > 0 /\ w > 0
      BY <3>1, RunFields
    <3>3. l + 2 * w \in Index /\ w \in Index
      BY <3>2 DEF Index
    <3> QED
      BY <3>2, <3>3
  <2>3. t.run.width = s.run.width /\ t.run.left = s.run.left + 2 * s.run.width
    BY <2>1, <2>2, <1>2, RunBegins
  <2>4. Excess(n + 1, t.run.left) < Excess(n + 1, s.run.left)
    <3>1. s.run \in RunState
      BY SortFields
    <3>2. PICK l \in Nat, w \in Nat : l = s.run.left /\ w = s.run.width /\ l > 0 /\ w > 0
      BY <3>1, RunFields
    <3>3. PICK k : k = t.run.left
      OBVIOUS
    <3>4. k = l + 2 * w /\ k <= n
      BY <2>1, <2>3, <3>2, <3>3
    <3>5. PICK v \in Nat : v = 2 * w /\ v > 0
      BY <3>2
    <3>6. k = l + v
      BY <3>4, <3>5
    <3>7. Excess(n + 1, k) = n + 1 - k /\ Excess(n + 1, l) = n + 1 - l
      BY <3>2, <3>4, <3>5, <3>6 DEF Excess
    <3>8. Excess(n + 1, k) < Excess(n + 1, l)
      BY <3>4, <3>5, <3>6, <3>7
    <3> QED
      BY <3>2, <3>3, <3>8
  <2>5. InPass(t) < InPass(s)
    <3>1. /\ InRun(s) \in Nat /\ InRun(t) \in Nat /\ InRun(t) <= 2 * n /\ 2 * n \in Nat
          /\ Excess(n + 1, s.run.left) \in Nat /\ Excess(n + 1, t.run.left) \in Nat
      <4>1. 2 * n \in Nat
        OBVIOUS
      <4> QED
        BY <1>2, <4>1, WorkType
    <3> QED
      BY <3>1, <1>2, <2>4, DigitsOrder DEF InPass
  <2> QED
    BY <1>1, <1>5, <1>6, <1>7, <2>1, <2>3, <2>5
<1>10. CASE Swaps(s, t)
  <2>1. CASE t.stage = "complete"
    <3>1. Stages(t) < Stages(s)
      BY <1>10, <2>1 DEF Swaps, Merged, Stages
    <3> QED
      BY <1>1, <1>5, <1>6, <3>1
  <2>2. CASE t.run = Run(Size(s), 2 * s.run.width, 1) /\ 2 * s.run.width < n /\ t.stage = "merge"
    <3>1. 2 * s.run.width \in Index /\ 1 \in Index
      BY SortFields, RunFields DEF Index
    <3>2. t.run.width = 2 * s.run.width
      BY <3>1, <2>2, <1>2, RunBegins
    <3>3. Excess(n + 1, t.run.width) < Excess(n + 1, s.run.width)
      BY <3>1, <3>2, <2>2, SortFields, RunFields DEF Excess, Index
    <3>4. /\ InPass(s) \in Nat /\ InPass(t) \in Nat /\ MostInPass(n) \in Nat
          /\ InPass(t) <= MostInPass(n)
          /\ Excess(n + 1, s.run.width) \in Nat /\ Excess(n + 1, t.run.width) \in Nat
      BY <1>2, WorkType
    <3>5. InMerge(t) < InMerge(s)
      BY <3>3, <3>4, <1>2, DigitsOrder DEF InMerge
    <3>6. Stages(t) = Stages(s)
      BY <1>10, <2>2 DEF Swaps, Merged, Stages
    <3> QED
      BY <1>1, <1>5, <1>6, <3>5, <3>6
  <2> QED
    BY <1>2, <1>10, <2>1, <2>2 DEF Swaps
<1>11. CASE Validated(s, t)
  <2>1. Stages(t) < Stages(s)
    BY <1>11 DEF Validated, Stages
  <2> QED
    BY <1>1, <1>5, <1>6, <2>1
<1>12. CASE Asks(s, t) \/ Commits(s, t) \/ GivesUp(s, t)
  BY <1>1, <1>5, <1>12 DEF Asks, Commits, GivesUp, Halted
<1> QED
  BY <1>1, <1>8, <1>9, <1>10, <1>11, <1>12, TurnCases

\* What the loop answers in t, if f answers after a turn.
Looped(f, t) == IF Halted(t) THEN t ELSE f[Turn(t)]
Loops(f) == f = [t \in SortState |-> Looped(f, t)]

LEMMA LoopExists == \E f \in [SortState -> SortState] : Loops(f)
<1> DEFINE End == {t \in SortState : Halted(t)}
           Ground == [t \in SortState |-> t]
           Down == [t \in SortState |-> Turn(t)]
           Left == [t \in SortState |-> Work(t)]
           Up == [q \in SortState \X SortState |-> q[2]]
<1>1. /\ Ground \in [SortState -> SortState]
      /\ Up \in [SortState \X SortState -> SortState]
      /\ Left \in [SortState -> Nat]
  BY WorkType
<1>2. \A t \in SortState \ End : Down[t] \in SortState /\ Left[Down[t]] < Left[t]
  BY TurnType, TurnIsProgress
<1>3. PICK f \in [SortState -> SortState] : Recursive(f, SortState, End, Ground, Up, Down)
  <2> HIDE DEF End, Ground, Down, Left, Up
  <2> QED
    BY <1>1, <1>2, RecursionExists, Zenon
<1>4. ASSUME NEW t \in SortState
      PROVE  f[t] = Looped(f, t)
  <2>1. f[t] = IF t \in End THEN Ground[t] ELSE Up[<<t, f[Down[t]]>>]
    BY <1>3 DEF Recursive
  <2>2. Ground[t] = t /\ Down[t] = Turn(t) /\ (t \in End <=> Halted(t))
    OBVIOUS
  <2>3. Turn(t) \in SortState
    BY TurnType
  <2>4. Up[<<t, f[Turn(t)]>>] = f[Turn(t)]
    BY <2>3
  <2> HIDE DEF End, Ground, Down, Left, Up
  <2> QED
    BY <2>1, <2>2, <2>4 DEF Looped
<1> HIDE DEF End, Ground, Down, Left, Up
<1> QED
  BY <1>3, <1>4 DEF Loops, Recursive

LEMMA AdvanceUnfolds ==
    ASSUME NEW s \in SortState
    PROVE  /\ Advance(s) = IF Halted(s) THEN s ELSE Advance(Turn(s))
           /\ Turn(s) \in SortState
<1> DEFINE f == CHOOSE g : Loops(g)
<1>1. Loops(f)
  BY LoopExists
<1>2. \A t : Advance(t) = f[t]
  BY DEF Advance, Loops, Looped
<1> HIDE DEF f
<1>3. f[s] = Looped(f, s)
  BY <1>1 DEF Loops
<1> QED
  BY <1>2, <1>3, TurnType DEF Looped

-----------------------------------------------------------------------------
(* What the loop keeps. *)

Multiples(w) == {k * w : k \in Nat}

\* Until the position end, a ascends, except where one part of w values ends.
Ascends(a, w, end) == \A i \in 1..end - 1 : i \notin Multiples(w) => a[i] <= a[i + 1]

\* The comparison told the truth so far, and no value was nil.
Clean(s) == s.honest /\ Occurrences(s.given, Nil) = {}

SameValues(s) ==
    \A v \in Value \cup {Nil} :
        Cardinality(Occurrences(s.given, v)) = Cardinality(Occurrences(s.values, v))

\* The run lies where the pass has come to, and output counts what was taken of it.
InPlace(s) ==
    LET r == s.run
        n == Size(s)
    IN  /\ r.left <= n /\ r.left - 1 \in Multiples(2 * r.width)
        /\ r.middle = (IF r.left + r.width <= n + 1 THEN r.left + r.width ELSE n + 1)
        /\ r.right = (IF r.left + 2 * r.width <= n + 1 THEN r.left + 2 * r.width ELSE n + 1)
        /\ r.left <= r.first /\ r.first <= r.middle
        /\ r.middle <= r.second /\ r.second <= r.right
        /\ r.output = r.first + r.second - r.middle

\* The positions whose values this pass has taken.
Used(r) == (1..r.first - 1) \cup (r.middle..r.second - 1)

\* The output holds what was taken, every value as often.
Copied(s) ==
    \A v \in Value \cup {Nil} :
        Cardinality({i \in 1..s.run.output - 1 : s.scratch[i] = v}) =
            Cardinality({i \in Used(s.run) : s.values[i] = v})

\* The parts ascend, so does the output, and what is left in the run is not less.
Merging(s) ==
    LET r == s.run
    IN  /\ Ascends(s.values, r.width, Size(s))
        /\ Ascends(s.scratch, 2 * r.width, r.output - 1)
        /\ r.left < r.output =>
              /\ r.first < r.middle => s.scratch[r.output - 1] <= s.values[r.first]
              /\ r.second < r.right => s.scratch[r.output - 1] <= s.values[r.second]

MergeSound(s) == InPlace(s) /\ Copied(s) /\ (Clean(s) => Merging(s))

Sorted(s) == \A i \in 1..Size(s) - 1 : s.values[i] <= s.values[i + 1]

\* What is true of a sort whatever it waits for; Sound adds what it waits for.
Kernel(s) ==
    /\ s \in SortState /\ SameValues(s)
    /\ s.stage = "merge" => MergeSound(s)
    /\ s.stage = "complete" /\ Clean(s) => Sorted(s)
    /\ s.phase = "commit" => s.stage = "complete"
    /\ s.phase = "failed" => ~ Clean(s)

Sound(s) ==
    /\ Kernel(s)
    /\ s.pending = "ValidateReverse" => ~ s.honest
    /\ s.pending \in {"MergePrimary", "MergeReverse"} => s.stage = "merge" /\ Both(s)
    /\ s.pending = "MergeReverse" /\ Clean(s) =>
          s.values[s.run.second] < s.values[s.run.first]

-----------------------------------------------------------------------------
(* Multiples. *)

LEMMA MultipleIs ==
    ASSUME NEW w \in Nat, NEW k \in Nat
    PROVE  k * w \in Multiples(w) /\ k * w \in Nat
BY DEF Multiples

LEMMA NoMultipleBetween ==
    ASSUME NEW w \in Nat, NEW a \in Multiples(w), NEW j \in Nat, 0 < j, j < w
    PROVE  a \in Nat /\ a + j \notin Multiples(w)
<1>1. PICK k \in Nat : a = k * w
  BY DEF Multiples
<1>2. a \in Nat
  BY <1>1, MultipleIs
<1> SUFFICES ASSUME a + j \in Multiples(w) PROVE FALSE
  BY <1>2
<1>3. PICK m \in Nat : a + j = m * w
  BY DEF Multiples
<1>4. CASE m <= k
  <2>1. PICK d \in Nat : k = m + d
    <3>1. k - m \in Nat /\ k = m + (k - m)
      BY <1>4
    <3> QED
      BY <3>1
  <2>2. k * w = m * w + d * w /\ d * w \in Nat /\ m * w \in Nat
    BY <2>1
  <2> QED
    BY <1>1, <1>2, <1>3, <2>2
<1>5. CASE ~ (m <= k)
  <2>1. PICK d \in Nat : m = k + 1 + d
    <3>1. m - (k + 1) \in Nat /\ m = k + 1 + (m - (k + 1))
      BY <1>5
    <3> QED
      BY <3>1
  <2>2. m * w = k * w + w + d * w /\ d * w \in Nat /\ k * w \in Nat
    BY <2>1
  <2> QED
    BY <1>1, <1>2, <1>3, <2>2
<1> QED
  BY <1>4, <1>5

\* Where a run of two parts ends, the next one begins, and both are ends of parts.
LEMMA MultiplesNest ==
    ASSUME NEW w \in Nat, NEW a \in Multiples(2 * w)
    PROVE  /\ a \in Nat /\ a \in Multiples(w)
           /\ a + w \in Multiples(w) /\ a + 2 * w \in Multiples(2 * w)
<1>1. PICK k \in Nat : a = k * (2 * w)
  BY DEF Multiples
<1>2. 2 * k \in Nat /\ 2 * k + 1 \in Nat /\ k + 1 \in Nat
  OBVIOUS
<1>3. /\ a = (2 * k) * w /\ a + w = (2 * k + 1) * w /\ a + 2 * w = (k + 1) * (2 * w)
  BY <1>1
<1>4. 2 * w \in Nat
  OBVIOUS
<1> QED
  BY <1>2, <1>3, <1>4, MultipleIs

-----------------------------------------------------------------------------
(* A value is taken. *)

LEMMA ValuesPresent ==
    ASSUME NEW s \in SortState, SameValues(s), Clean(s)
    PROVE  \A i \in 1..Size(s) : s.values[i] \in Value /\ s.values[i] \in Int
<1>1. s.values \in List /\ Size(s) = Len(s.values)
  BY SortFields
<1>2. DOMAIN s.values = 1..Size(s) /\ \A i \in 1..Size(s) : s.values[i] \in Value \cup {Nil}
  BY <1>1 DEF List
<1>3. Cardinality(Occurrences(s.values, Nil)) = 0
  <2>1. Cardinality(Occurrences(s.given, Nil)) = 0
    BY FS_EmptySet DEF Clean
  <2> QED
    BY <2>1 DEF SameValues
<1>4. IsFiniteSet(Occurrences(s.values, Nil))
  <2>1. IsFiniteSet(1..Size(s))
    BY <1>1, SortFields, FS_Interval
  <2>2. Occurrences(s.values, Nil) \subseteq 1..Size(s)
    BY <1>2 DEF Occurrences
  <2> QED
    BY <2>1, <2>2, FS_Subset
<1>5. Occurrences(s.values, Nil) = {}
  BY <1>3, <1>4, FS_EmptySet
<1> QED
  BY <1>2, <1>5, LibraryAssumption DEF Occurrences

\* Where the two candidates are.
LEMMA RunInside ==
    ASSUME NEW s \in SortState, InPlace(s)
    PROVE  /\ s.run.first < s.run.middle => s.run.first \in 1..Size(s)
           /\ s.run.second < s.run.right => s.run.second \in 1..Size(s)
           /\ s.run.output < s.run.right =>
                 s.run.output \in 1..Size(s) /\ s.run.output \in DOMAIN s.scratch
           /\ s.run.first < s.run.middle \/ s.run.second < s.run.right =>
                 s.run.output < s.run.right
           /\ s.run.left <= s.run.output
<1>1. Size(s) \in Nat /\ s.run \in RunState /\ s.scratch \in List /\ Len(s.scratch) = Size(s)
  BY SortFields
<1>2. DOMAIN s.scratch = 1..Size(s)
  BY <1>1 DEF List
<1>3. PICK n \in Nat, f \in Nat, c \in Nat, m \in Nat, h \in Nat, l \in Nat, o \in Nat :
        /\ n = Size(s) /\ f = s.run.first /\ c = s.run.second /\ m = s.run.middle
        /\ h = s.run.right /\ l = s.run.left /\ o = s.run.output
        /\ 0 < f /\ 0 < c /\ 0 < o
  BY <1>1, RunFields
<1>4. m <= n + 1 /\ h <= n + 1
  BY <1>3, SortFields
<1>5. l <= f /\ f <= m /\ m <= c /\ c <= h /\ o = f + c - m
  BY <1>3 DEF InPlace
<1>6. /\ f < m => f \in 1..n
      /\ c < h => c \in 1..n
      /\ o < h => o \in 1..n
      /\ f < m \/ c < h => o < h
      /\ l <= o
  BY <1>3, <1>4, <1>5
<1> QED
  BY <1>2, <1>3, <1>6

\* The size of the copy and the indices of the run, under short names.
NumbersOf(s, n, w, f, c, m, h, l, o) ==
    /\ n = Size(s) /\ w = s.run.width
    /\ f = s.run.first /\ c = s.run.second /\ m = s.run.middle
    /\ h = s.run.right /\ l = s.run.left /\ o = s.run.output
    /\ 0 < f /\ 0 < c /\ 0 < o /\ 0 < l /\ 0 < w /\ 0 < m

LEMMA RunNumbers ==
    ASSUME NEW s \in SortState
    PROVE  \E n \in Nat, w \in Nat, f \in Nat, c \in Nat, m \in Nat, h \in Nat, l \in Nat,
              o \in Nat : NumbersOf(s, n, w, f, c, m, h, l, o)
<1>1. Size(s) \in Nat /\ s.run \in RunState
  BY SortFields
<1>2. /\ s.run.width \in Nat /\ s.run.first \in Nat /\ s.run.second \in Nat
      /\ s.run.middle \in Nat /\ s.run.right \in Nat /\ s.run.left \in Nat
      /\ s.run.output \in Nat
      /\ NumbersOf(s, Size(s), s.run.width, s.run.first, s.run.second, s.run.middle,
                   s.run.right, s.run.left, s.run.output)
  BY <1>1, RunFields DEF NumbersOf
<1> QED
  BY <1>1, <1>2

LEMMA TakeInPlace ==
    ASSUME NEW s \in SortState, InPlace(s), NEW b \in BOOLEAN,
           IF b THEN s.run.second < s.run.right ELSE s.run.first < s.run.middle
    PROVE  InPlace(Taken(s, b))
<1>1. PICK t : t = Taken(s, b)
  OBVIOUS
<1>2. /\ t.values = s.values
      /\ t.run.width = s.run.width /\ t.run.middle = s.run.middle
      /\ t.run.right = s.run.right /\ t.run.left = s.run.left
      /\ t.run.output = s.run.output + 1
      /\ t.run.first = (IF b THEN s.run.first ELSE s.run.first + 1)
      /\ t.run.second = (IF b THEN s.run.second + 1 ELSE s.run.second)
  BY <1>1, TakenFields
<1>3. Size(t) = Size(s) /\ s.run \in RunState /\ Size(s) \in Nat
  BY <1>2, SortFields DEF Size
<1>4. InPlace(t)
  BY <1>2, <1>3, RunFields DEF InPlace
<1> QED
  BY <1>1, <1>4

LEMMA BothGrow ==
    ASSUME NEW S, NEW T, IsFiniteSet(S), IsFiniteSet(T), Cardinality(S) = Cardinality(T),
           NEW x, x \notin S, NEW y, y \notin T
    PROVE  Cardinality(S \cup {x}) = Cardinality(T \cup {y})
BY FS_AddElement

LEMMA TakeCopied ==
    ASSUME NEW s \in SortState, InPlace(s), Copied(s), NEW b \in BOOLEAN,
           IF b THEN s.run.second < s.run.right ELSE s.run.first < s.run.middle
    PROVE  Copied(Taken(s, b))
<1> DEFINE i == IF b THEN s.run.second ELSE s.run.first
           o == s.run.output
<1>1. PICK t : t = Taken(s, b)
  OBVIOUS
<1>2. /\ t.values = s.values /\ t.run.middle = s.run.middle
      /\ t.scratch = [s.scratch EXCEPT ![o] = s.values[i]]
      /\ t.run.output = o + 1
      /\ t.run.first = (IF b THEN s.run.first ELSE s.run.first + 1)
      /\ t.run.second = (IF b THEN s.run.second + 1 ELSE s.run.second)
  BY <1>1, TakenFields
<1>3. /\ s.run.first \in Nat /\ s.run.first > 0 /\ s.run.middle \in Nat
      /\ s.run.second \in Nat /\ o \in Nat /\ o > 0
      /\ s.run.first <= s.run.middle /\ s.run.middle <= s.run.second
  BY SortFields, RunFields DEF InPlace
<1>4. o \in DOMAIN s.scratch
  BY RunInside
<1>5. Used(t.run) = Used(s.run) \cup {i} /\ i \notin Used(s.run)
  <2>1. CASE b
    <3>1. Used(t.run) = (1..s.run.first - 1) \cup (s.run.middle..s.run.second)
      BY <1>2, <1>3, <2>1 DEF Used
    <3>2. s.run.middle..s.run.second = (s.run.middle..s.run.second - 1) \cup {s.run.second}
      BY <1>3
    <3> QED
      BY <3>1, <3>2, <1>3, <2>1 DEF Used
  <2>2. CASE ~ b
    <3>1. Used(t.run) = (1..s.run.first) \cup (s.run.middle..s.run.second - 1)
      BY <1>2, <1>3, <2>2 DEF Used
    <3>2. 1..s.run.first = (1..s.run.first - 1) \cup {s.run.first}
      BY <1>3
    <3> QED
      BY <3>1, <3>2, <1>3, <2>2 DEF Used
  <2> QED
    BY <2>1, <2>2
<1>6. IsFiniteSet(1..o - 1) /\ IsFiniteSet(Used(s.run))
  <2>1. /\ s.run.first - 1 \in Int /\ s.run.middle \in Int /\ s.run.second - 1 \in Int
        /\ o - 1 \in Int /\ 1 \in Int
    BY <1>3
  <2>2. /\ IsFiniteSet(1..s.run.first - 1) /\ IsFiniteSet(s.run.middle..s.run.second - 1)
        /\ IsFiniteSet(1..o - 1)
    BY <2>1, FS_Interval
  <2> QED
    BY <2>2, FS_Union DEF Used
<1>7. 1..(o + 1) - 1 = (1..o - 1) \cup {o} /\ o \notin 1..o - 1
  BY <1>3
<1>8. \A j \in 1..o - 1 : t.scratch[j] = s.scratch[j]
  BY <1>2, <1>7
<1>9. t.scratch[o] = s.values[i]
  BY <1>2, <1>4
<1> HIDE DEF i, o
<1>10. ASSUME NEW v \in Value \cup {Nil}
       PROVE  Cardinality({j \in 1..t.run.output - 1 : t.scratch[j] = v}) =
                  Cardinality({j \in Used(t.run) : t.values[j] = v})
  <2> DEFINE A == {j \in 1..o - 1 : s.scratch[j] = v}
             C == {j \in Used(s.run) : s.values[j] = v}
  <2>1. Cardinality(A) = Cardinality(C)
    BY DEF Copied, o
  <2>2. IsFiniteSet(A) /\ IsFiniteSet(C)
    BY <1>6, FS_Subset
  <2>3. o \notin A /\ i \notin C
    BY <1>7, <1>5
  <2>4. CASE s.values[i] = v
    <3>1. {j \in 1..t.run.output - 1 : t.scratch[j] = v} = A \cup {o}
      BY <1>2, <1>7, <1>8, <1>9, <2>4
    <3>2. {j \in Used(t.run) : t.values[j] = v} = C \cup {i}
      BY <1>2, <1>5, <2>4
    <3> HIDE DEF A, C
    <3> QED
      BY <2>1, <2>2, <2>3, <3>1, <3>2, BothGrow
  <2>5. CASE s.values[i] # v
    <3>1. {j \in 1..t.run.output - 1 : t.scratch[j] = v} = A
      BY <1>2, <1>7, <1>8, <1>9, <2>5
    <3>2. {j \in Used(t.run) : t.values[j] = v} = C
      BY <1>2, <1>5, <2>5
    <3> QED
      BY <2>1, <3>1, <3>2
  <2> QED
    BY <2>4, <2>5
<1>11. Copied(t)
  BY <1>10 DEF Copied
<1> QED
  BY <1>1, <1>11

LEMMA TakeMerging ==
    ASSUME NEW s \in SortState, InPlace(s), Merging(s), NEW b \in BOOLEAN,
           IF b THEN s.run.second < s.run.right ELSE s.run.first < s.run.middle,
           IF b THEN s.run.first < s.run.middle =>
                        s.values[s.run.second] <= s.values[s.run.first]
                ELSE s.run.second < s.run.right =>
                        s.values[s.run.first] <= s.values[s.run.second]
    PROVE  Merging(Taken(s, b))
<1> DEFINE A == s.values
           B == s.scratch
<1>1a. PICK n \in Nat, w \in Nat, f \in Nat, c \in Nat, m \in Nat, h \in Nat, l \in Nat,
             o \in Nat : NumbersOf(s, n, w, f, c, m, h, l, o)
  BY RunNumbers
<1>1. /\ n = Size(s) /\ w = s.run.width
      /\ f = s.run.first /\ c = s.run.second /\ m = s.run.middle
      /\ h = s.run.right /\ l = s.run.left /\ o = s.run.output
      /\ 0 < f /\ 0 < c /\ 0 < o /\ 0 < l /\ 0 < w /\ 0 < m
  BY <1>1a DEF NumbersOf
<1>2. /\ l <= n /\ l - 1 \in Multiples(2 * w)
      /\ m = (IF l + w <= n + 1 THEN l + w ELSE n + 1)
      /\ h = (IF l + 2 * w <= n + 1 THEN l + 2 * w ELSE n + 1)
      /\ l <= f /\ f <= m /\ m <= c /\ c <= h /\ o = f + c - m
  BY <1>1 DEF InPlace
<1>t. PICK t : t = Taken(s, b)
  OBVIOUS
<1>i. PICK i \in Nat : i = IF b THEN c ELSE f
  OBVIOUS
<1>3. /\ t.values = A /\ t.scratch = [B EXCEPT ![o] = A[i]]
      /\ i = (IF b THEN c ELSE f)
      /\ t.run.width = w /\ t.run.middle = m /\ t.run.right = h /\ t.run.left = l
      /\ t.run.output = o + 1
      /\ t.run.first = (IF b THEN f ELSE f + 1)
      /\ t.run.second = (IF b THEN c + 1 ELSE c)
      /\ Size(t) = n
  BY <1>1, <1>t, <1>i, TakenFields DEF Size
<1>4. /\ Ascends(A, w, n) /\ Ascends(B, 2 * w, o - 1)
      /\ l < o => /\ f < m => B[o - 1] <= A[f]
                  /\ c < h => B[o - 1] <= A[c]
  BY <1>1 DEF Merging
<1>5. o \in DOMAIN B
  <2>1. s.run.first < s.run.middle \/ s.run.second < s.run.right
    OBVIOUS
  <2> QED
    BY <2>1, <1>1, RunInside
<1>6. /\ b => c < h /\ (f < m => A[c] <= A[f])
      /\ ~ b => f < m /\ (c < h => A[f] <= A[c])
  BY <1>1
<1> HIDE DEF A, B
<1>7. t.scratch[o] = A[i] /\ \A j \in 1..o - 1 : t.scratch[j] = B[j]
  BY <1>1, <1>3, <1>5
<1>8. Ascends(t.scratch, 2 * w, o)
  <2> SUFFICES ASSUME NEW j \in 1..o - 1, j \notin Multiples(2 * w)
               PROVE  t.scratch[j] <= t.scratch[j + 1]
    BY DEF Ascends
  <2>1. CASE j < o - 1
    <3>1. j \in 1..(o - 1) - 1 /\ j + 1 \in 1..o - 1
      BY <2>1, <1>1
    <3>2. B[j] <= B[j + 1]
      BY <3>1, <1>4 DEF Ascends
    <3> QED
      BY <3>1, <3>2, <1>7
  <2>2. CASE ~ (j < o - 1)
    <3>1. j = o - 1 /\ j + 1 = o
      BY <2>2, <1>1
    <3>2. l < o
      <4>1. l <= o /\ (l = o => l - 1 = j)
        BY <3>1, <1>1, <1>2
      <4> QED
        BY <4>1, <1>2
    <3>3. B[o - 1] <= A[i]
      BY <3>2, <1>3, <1>4, <1>6
    <3> QED
      BY <3>1, <3>3, <1>7
  <2> QED
    BY <2>1, <2>2
<1>9. /\ l - 1 \in Nat /\ l - 1 \in Multiples(w) /\ l - 1 + w \in Multiples(w)
  BY <1>2, MultiplesNest
<1>10. t.run.first < m => A[i] <= A[t.run.first]
  <2>1. CASE ~ b
    <3> SUFFICES ASSUME f + 1 < m PROVE A[f] <= A[f + 1]
      BY <1>3, <2>1
    <3>1. PICK j \in Nat : 0 < j /\ j < w /\ f = (l - 1) + j
      <4>1. f - (l - 1) \in Nat /\ 0 < f - (l - 1) /\ f - (l - 1) < w
        BY <1>1, <1>2, <1>9
      <4> QED
        BY <4>1, <1>9
    <3>2. f \notin Multiples(w)
      BY <3>1, <1>9, NoMultipleBetween
    <3>3. f \in 1..n - 1
      BY <1>1, <1>2
    <3> QED
      BY <3>2, <3>3, <1>4 DEF Ascends
  <2>2. CASE b
    BY <2>2, <1>3, <1>6
  <2> QED
    BY <2>1, <2>2
<1>11. t.run.second < h => A[i] <= A[t.run.second]
  <2>1. CASE b
    <3> SUFFICES ASSUME c + 1 < h PROVE A[c] <= A[c + 1]
      BY <1>3, <2>1
    <3>1. PICK j \in Nat : 0 < j /\ j < w /\ c = (l - 1 + w) + j
      <4>1. m = l + w
        BY <1>1, <1>2
      <4>2. c - (l - 1 + w) \in Nat /\ 0 < c - (l - 1 + w) /\ c - (l - 1 + w) < w
        BY <4>1, <1>1, <1>2, <1>9
      <4> QED
        BY <4>2, <1>9
    <3>2. c \notin Multiples(w)
      BY <3>1, <1>9, NoMultipleBetween
    <3>3. c \in 1..n - 1
      BY <1>1, <1>2
    <3> QED
      BY <3>2, <3>3, <1>4 DEF Ascends
  <2>2. CASE ~ b
    BY <2>2, <1>3, <1>6
  <2> QED
    BY <2>1, <2>2
<1>12. (o + 1) - 1 = o
  OBVIOUS
<1>13. Merging(t)
  BY <1>3, <1>4, <1>7, <1>8, <1>10, <1>11, <1>12 DEF Merging
<1> QED
  BY <1>t, <1>13

\* Taking the right value of two, or any of one.
LEMMA TakeKeeps ==
    ASSUME NEW s, Kernel(s), s.stage = "merge", NEW b \in BOOLEAN,
           IF b THEN s.run.second < s.run.right ELSE s.run.first < s.run.middle,
           Clean(s) =>
              IF b THEN s.run.first < s.run.middle =>
                           s.values[s.run.second] <= s.values[s.run.first]
                   ELSE s.run.second < s.run.right =>
                           s.values[s.run.first] <= s.values[s.run.second]
    PROVE  Kernel(Taken(s, b))
<1>1. s \in SortState /\ MergeSound(s)
  BY DEF Kernel
<1>2. PICK t : t = Taken(s, b)
  OBVIOUS
<1>3. /\ t.phase = s.phase /\ t.stage = s.stage /\ t.honest = s.honest
      /\ t.values = s.values /\ t.given = s.given
  BY <1>1, <1>2, TakenFields
<1>4. t \in SortState
  BY <1>1, <1>2, TakenType
<1>5. SameValues(t) /\ (Clean(t) <=> Clean(s))
  BY <1>3 DEF SameValues, Clean, Kernel
<1>6. InPlace(t)
  BY <1>1, <1>2, TakeInPlace DEF MergeSound
<1>7. Copied(t)
  BY <1>1, <1>2, TakeCopied DEF MergeSound
<1>8. Clean(t) => Merging(t)
  BY <1>1, <1>2, <1>5, TakeMerging DEF MergeSound
<1>9. Kernel(t)
  BY <1>3, <1>4, <1>5, <1>6, <1>7, <1>8 DEF Kernel, MergeSound
<1> QED
  BY <1>2, <1>9

-----------------------------------------------------------------------------
(* The turns. *)

\* A pass begins with nothing taken.
LEMMA PassBegins ==
    ASSUME NEW t \in SortState, NEW w \in Index, t.run = Run(Size(t), w, 1), Size(t) > 0
    PROVE  /\ InPlace(t) /\ Copied(t)
           /\ Ascends(t.values, w, Size(t)) => Merging(t)
<1>1. PICK n \in Nat : n = Size(t)
  BY SortFields
<1>2. /\ t.run \in RunState /\ t.run.width = w /\ t.run.left = 1 /\ t.run.first = 1
      /\ t.run.output = 1 /\ t.run.second = t.run.middle
      /\ t.run.middle = (IF 1 + w <= n + 1 THEN 1 + w ELSE n + 1)
      /\ t.run.right = (IF 1 + 2 * w <= n + 1 THEN 1 + 2 * w ELSE n + 1)
  <2>1. 1 \in Index
    BY DEF Index
  <2> QED
    BY <1>1, <2>1, RunBegins
<1>3. w \in Nat /\ w > 0
  BY DEF Index
<1>4. 0 \in Multiples(2 * w)
  <2>1. 0 \in Nat /\ 2 * w \in Nat /\ 0 = 0 * (2 * w)
    BY <1>3
  <2> QED
    BY <2>1, MultipleIs
<1>5. InPlace(t)
  BY <1>1, <1>2, <1>3, <1>4 DEF InPlace
<1>6. Copied(t)
  <2>1. 1..t.run.output - 1 = {} /\ Used(t.run) = {}
    BY <1>2, RunFields DEF Used
  <2> QED
    BY <2>1 DEF Copied
<1>7. Ascends(t.values, w, n) => Merging(t)
  <2>1. Ascends(t.scratch, 2 * w, 0)
    BY DEF Ascends
  <2>2. t.run.output - 1 = 0 /\ ~ (t.run.left < t.run.output)
    BY <1>2
  <2> QED
    BY <1>1, <1>2, <2>1, <2>2 DEF Merging
<1> QED
  BY <1>1, <1>5, <1>6, <1>7

LEMMA NextRunKeeps ==
    ASSUME NEW s, Kernel(s), NEW t \in SortState, Kept(s, t), NextRun(s, t)
    PROVE  Kernel(t)
<1>1. s \in SortState /\ MergeSound(s)
  BY DEF Kernel, NextRun, Merged
<1>2a. PICK n \in Nat, w \in Nat, f \in Nat, c \in Nat, m \in Nat, h \in Nat, l \in Nat,
             o \in Nat : NumbersOf(s, n, w, f, c, m, h, l, o)
  BY <1>1, RunNumbers
<1>2. /\ n = Size(s) /\ w = s.run.width
      /\ f = s.run.first /\ c = s.run.second /\ m = s.run.middle
      /\ h = s.run.right /\ l = s.run.left /\ o = s.run.output
      /\ 0 < f /\ 0 < c /\ 0 < o /\ 0 < l /\ 0 < w /\ 0 < m
  BY <1>2a DEF NumbersOf
<1>3. /\ l <= n /\ l - 1 \in Multiples(2 * w)
      /\ m = (IF l + w <= n + 1 THEN l + w ELSE n + 1)
      /\ h = (IF l + 2 * w <= n + 1 THEN l + 2 * w ELSE n + 1)
      /\ l <= f /\ f <= m /\ m <= c /\ c <= h /\ o = f + c - m
  BY <1>1, <1>2 DEF InPlace, MergeSound
<1>4. f = m /\ c = h /\ l + 2 * w <= n
  <2>1. ~ (f < m) /\ ~ (c < h) /\ l + 2 * w <= n
    <3>1. /\ ~ (s.run.first < s.run.middle) /\ ~ (s.run.second < s.run.right)
          /\ s.run.left + 2 * s.run.width <= Size(s)
      BY DEF NextRun, Merged
    <3> QED
      BY <1>2, <3>1, Zenon
  <2>2. f <= m /\ c <= h
    BY <1>3
  <2> QED
    BY <2>1, <2>2
<1>5. h = l + 2 * w /\ o = h /\ h \in Index /\ w \in Index /\ m <= h
  <2>1. o = f + h - f
    BY <1>3, <1>4
  <2>2. l + 2 * w <= n + 1
    BY <1>4
  <2>3. h = l + 2 * w
    BY <1>3, <2>2
  <2>4. m <= h
    BY <1>3, <1>4
  <2> QED
    BY <1>2, <2>1, <2>3, <2>4 DEF Index
<1>6. /\ t.run = Run(n, w, h) /\ t.values = s.values /\ t.scratch = s.scratch
      /\ t.stage = s.stage /\ t.phase = s.phase
  BY <1>2, <1>5 DEF NextRun, SameLists, SameCourse
<1>7. /\ t.run \in RunState /\ t.run.width = w /\ t.run.left = h /\ t.run.first = h
      /\ t.run.output = h /\ t.run.second = t.run.middle
      /\ t.run.middle = (IF h + w <= n + 1 THEN h + w ELSE n + 1)
      /\ t.run.right = (IF h + 2 * w <= n + 1 THEN h + 2 * w ELSE n + 1)
  BY <1>5, <1>6, RunBegins
<1>8. Size(t) = n
  BY <1>2, <1>6 DEF Size
<1>9. h - 1 \in Multiples(2 * w)
  <2>1. h - 1 = (l - 1) + 2 * w
    BY <1>2, <1>5
  <2> QED
    BY <1>2, <1>3, <2>1, MultiplesNest
<1>10. InPlace(t)
  <2>1. h <= n /\ h <= h + w /\ h <= n + 1 /\ h + w <= h + 2 * w
    BY <1>4, <1>5, <1>2
  <2>2. PICK d \in Nat, e \in Nat : d = t.run.middle /\ e = t.run.right
    BY <1>7, RunFields
  <2>3. /\ d = (IF h + w <= n + 1 THEN h + w ELSE n + 1)
        /\ e = (IF h + 2 * w <= n + 1 THEN h + 2 * w ELSE n + 1)
    BY <1>7, <2>2
  <2>4. h <= d /\ d <= e /\ h = h + d - d
    BY <2>1, <2>3
  <2> QED
    BY <1>7, <1>8, <1>9, <2>1, <2>2, <2>3, <2>4 DEF InPlace
<1>11. Copied(t)
  <2>1. Used(s.run) = 1..h - 1 /\ Used(t.run) = 1..h - 1
    <3>1. Used(s.run) = (1..m - 1) \cup (m..h - 1)
      BY <1>2, <1>4 DEF Used
    <3>2. PICK d \in Nat : d = t.run.middle
      BY <1>7, RunFields
    <3>3. Used(t.run) = (1..h - 1) \cup (d..d - 1)
      BY <1>7, <3>2 DEF Used
    <3> QED
      BY <3>1, <3>3, <1>2, <1>5
  <2>2. t.run.output = s.run.output
    BY <1>2, <1>5, <1>7
  <2> QED
    BY <1>1, <1>6, <2>1, <2>2 DEF Copied, MergeSound
<1>12. SameValues(t) /\ (Clean(t) <=> Clean(s))
  BY <1>6 DEF SameValues, Clean, Kernel, Kept
<1>13. Clean(t) => Merging(t)
  <2> SUFFICES ASSUME Clean(t) PROVE Merging(t)
    OBVIOUS
  <2>1. Ascends(s.values, w, n) /\ Ascends(s.scratch, 2 * w, o - 1)
    BY <1>1, <1>2, <1>12 DEF MergeSound, Merging
  <2>2. ~ (t.run.left < t.run.output)
    BY <1>7, <1>2
  <2> QED
    BY <1>5, <1>6, <1>7, <1>8, <2>1, <2>2 DEF Merging
<1> QED
  BY <1>6, <1>10, <1>11, <1>12, <1>13 DEF Kernel, MergeSound, NextRun, Merged

LEMMA SwapKeeps ==
    ASSUME NEW s, Kernel(s), NEW t \in SortState, Kept(s, t), Swaps(s, t)
    PROVE  Kernel(t)
<1>1. s \in SortState /\ MergeSound(s)
  BY DEF Kernel, Swaps, Merged
<1>2a. PICK n \in Nat, w \in Nat, f \in Nat, c \in Nat, m \in Nat, h \in Nat, l \in Nat,
             o \in Nat : NumbersOf(s, n, w, f, c, m, h, l, o)
  BY <1>1, RunNumbers
<1>2. /\ n = Size(s) /\ w = s.run.width
      /\ f = s.run.first /\ c = s.run.second /\ m = s.run.middle
      /\ h = s.run.right /\ l = s.run.left /\ o = s.run.output
      /\ 0 < f /\ 0 < c /\ 0 < o /\ 0 < l /\ 0 < w /\ 0 < m
  BY <1>2a DEF NumbersOf
<1>3. /\ l <= n
      /\ m = (IF l + w <= n + 1 THEN l + w ELSE n + 1)
      /\ h = (IF l + 2 * w <= n + 1 THEN l + 2 * w ELSE n + 1)
      /\ l <= f /\ f <= m /\ m <= c /\ c <= h /\ o = f + c - m
  BY <1>1, <1>2 DEF InPlace, MergeSound
<1>4. f = m /\ c = h /\ ~ (l + 2 * w <= n)
  <2>1. ~ (f < m) /\ ~ (c < h) /\ ~ (l + 2 * w <= n)
    <3>1. /\ ~ (s.run.first < s.run.middle) /\ ~ (s.run.second < s.run.right)
          /\ ~ (s.run.left + 2 * s.run.width <= Size(s))
      BY DEF Swaps, Merged
    <3> QED
      BY <1>2, <3>1, Zenon
  <2>2. f <= m /\ c <= h
    BY <1>3
  <2> QED
    BY <2>1, <2>2
<1>5. h = n + 1 /\ o = n + 1 /\ 0 < m /\ m <= n + 1
  <2>1. h = n + 1
    BY <1>3, <1>4
  <2>2. o = f + h - f
    BY <1>3, <1>4
  <2> QED
    BY <1>2, <1>3, <1>4, <2>1, <2>2, SMTT(30)
<1>6. t.values = s.scratch /\ t.scratch = s.values /\ t.phase = s.phase /\ t.given = s.given
  BY DEF Swaps, SameCourse, Kept
<1>7. /\ s.values \in List /\ s.scratch \in List /\ Len(s.values) = n /\ Len(s.scratch) = n
      /\ Size(t) = n
  BY <1>1, <1>2, <1>6, SortFields DEF Size
<1>8. DOMAIN s.values = 1..n /\ DOMAIN s.scratch = 1..n
  BY <1>7 DEF List
<1>9. SameValues(t)
  <2> SUFFICES ASSUME NEW v \in Value \cup {Nil}
               PROVE  Cardinality(Occurrences(t.given, v)) =
                          Cardinality(Occurrences(t.values, v))
    BY DEF SameValues
  <2>1. 1..s.run.output - 1 = 1..n /\ Used(s.run) = 1..n
    <3>1. Used(s.run) = (1..m - 1) \cup (m..(n + 1) - 1)
      BY <1>2, <1>4, <1>5 DEF Used
    <3> QED
      BY <3>1, <1>2, <1>5
  <2>2. Cardinality({i \in 1..n : s.scratch[i] = v}) = Cardinality({i \in 1..n : s.values[i] = v})
    BY <1>1, <2>1 DEF MergeSound, Copied
  <2>3. /\ Occurrences(t.values, v) = {i \in 1..n : s.scratch[i] = v}
        /\ Occurrences(s.values, v) = {i \in 1..n : s.values[i] = v}
    BY <1>6, <1>8 DEF Occurrences
  <2>4. Cardinality(Occurrences(s.given, v)) = Cardinality(Occurrences(s.values, v))
    BY DEF Kernel, SameValues
  <2> QED
    BY <1>6, <2>2, <2>3, <2>4
<1>10. Clean(t) <=> Clean(s)
  BY <1>6 DEF Clean, Kept
<1>11. Clean(t) => Ascends(t.values, 2 * w, n)
  <2>1. (n + 1) - 1 = n
    OBVIOUS
  <2> QED
    BY <1>1, <1>2, <1>5, <1>6, <1>10, <2>1 DEF MergeSound, Merging
<1>12. s.phase \notin {"commit"} /\ (s.phase = "failed" => ~ Clean(s))
  BY DEF Kernel, Swaps, Merged
<1>13. CASE t.stage = "complete" /\ (w > n \div 2 \/ 2 * w >= n)
  <2>1. n <= 2 * w
    BY <1>13, <1>2
  <2>2. ASSUME Clean(t), NEW i \in 1..n - 1
        PROVE  t.values[i] <= t.values[i + 1]
    <3>1. 2 * w \in Nat /\ 0 \in Nat /\ 0 = 0 * (2 * w) /\ i \in Nat /\ 0 < i /\ i < 2 * w /\ 0 + i = i
      BY <1>2, <2>1
    <3>2. 0 \in Multiples(2 * w)
      BY <3>1, MultipleIs
    <3>3. i \notin Multiples(2 * w)
      BY <3>1, <3>2, NoMultipleBetween
    <3> QED
      BY <1>11, <2>2, <3>3 DEF Ascends
  <2> QED
    BY <1>6, <1>7, <1>9, <1>10, <1>12, <1>13, <2>2 DEF Kernel, Sorted
<1>14. CASE t.stage = "merge" /\ t.run = Run(n, 2 * w, 1) /\ 2 * w < n
  <2>1. 2 * w \in Index /\ n > 0
    BY <1>2, <1>14 DEF Index
  <2>2. MergeSound(t)
    BY <1>7, <1>11, <1>14, <2>1, PassBegins DEF MergeSound
  <2> QED
    BY <1>6, <1>9, <1>10, <1>12, <1>14, <2>2 DEF Kernel
<1> QED
  BY <1>2, <1>13, <1>14 DEF Swaps

\* A state that differs in what it waits for, its index or phase.
LEMMA KernelOfSame ==
    ASSUME NEW s, Kernel(s), NEW t \in SortState,
           t.values = s.values, t.scratch = s.scratch, t.given = s.given,
           t.run = s.run, t.stage = s.stage, t.honest => s.honest,
           t.phase = "commit" => s.stage = "complete",
           t.phase = "failed" => ~ Clean(t)
    PROVE  Kernel(t)
<1>1. Clean(t) => Clean(s)
  BY DEF Clean
<1>2. Size(t) = Size(s)
  BY DEF Size
<1>3. SameValues(t)
  BY DEF SameValues, Kernel
<1>4. s.stage = "merge" => MergeSound(t)
  BY <1>1, <1>2, ZenonT(60) DEF Kernel, MergeSound, InPlace, Copied, Merging
<1>5. s.stage = "complete" /\ Clean(t) => Sorted(t)
  BY <1>1, <1>2 DEF Kernel, Sorted
<1> QED
  BY <1>3, <1>4, <1>5 DEF Kernel

LEMMA TurnKeeps ==
    ASSUME NEW s, Kernel(s), ~ Halted(s)
    PROVE  Sound(Turn(s))
<1>1. s \in SortState /\ s.pending = "none" /\ s.phase \notin {"commit", "failed"}
  BY DEF Kernel, Halted
<1>2. PICK t \in SortState : t = Turn(s)
  BY <1>1, TurnType
<1>3. Kept(s, t)
  BY <1>1, <1>2, TurnCases
<1>4. CASE Asks(s, t)
  <2>1. Kernel(t)
    BY <1>3, <1>4, KernelOfSame DEF Asks, SameLists, Kept
  <2>2. t.pending \in {"MergePrimary", "MergeReverse"} => t.stage = "merge" /\ Both(t)
    BY <1>4 DEF Asks, Both
  <2> QED
    BY <1>2, <1>4, <2>1, <2>2 DEF Sound, Asks
<1>5. ASSUME Kernel(t), t.pending = "none"
      PROVE  Sound(t)
  BY <1>5 DEF Sound
<1>6. CASE Validated(s, t)
  <2>1. /\ t.values = s.values /\ t.given = s.given /\ t.honest = s.honest
        /\ t.phase = s.phase /\ t.pending = s.pending /\ Size(t) = Size(s)
    BY <1>3, <1>6 DEF Validated, SameLists, SameCourse, Kept, Size
  <2>2. SameValues(t) /\ (Clean(t) <=> Clean(s))
    BY <2>1 DEF SameValues, Clean, Kernel
  <2>3. CASE Size(s) < 2 /\ t.stage = "complete"
    <3>1. 1..Size(t) - 1 = {}
      BY <1>1, <2>1, <2>3, SortFields
    <3> QED
      BY <1>1, <1>2, <1>5, <2>1, <2>2, <2>3, <3>1 DEF Kernel, Sorted
  <2>4. CASE Size(s) >= 2 /\ t.stage = "merge" /\ t.run = Run(Size(s), 1, 1)
    <3>1. 1 \in Index /\ Size(t) > 0
      BY <1>1, <2>1, <2>4, SortFields DEF Index
    <3>2. Ascends(t.values, 1, Size(t))
      <4>1. \A i \in Nat : i * 1 \in Multiples(1) /\ i * 1 = i
        BY MultipleIs
      <4>2. \A i \in 1..Size(t) - 1 : i \in Multiples(1)
        BY <4>1, SortFields
      <4> QED
        BY <4>2 DEF Ascends
    <3>3. MergeSound(t)
      BY <2>1, <2>4, <3>1, <3>2, PassBegins DEF MergeSound
    <3> QED
      BY <1>1, <1>2, <1>5, <2>1, <2>2, <2>4, <3>3 DEF Kernel
  <2> QED
    BY <1>6, <2>3, <2>4 DEF Validated
<1>7. CASE Commits(s, t)
  <2>1. Kernel(t)
    BY <1>3, <1>7, KernelOfSame DEF Commits, SameLists, Kept
  <2> QED
    BY <1>1, <1>2, <1>5, <1>7, <2>1 DEF Commits
<1>8. CASE GivesUp(s, t)
  <2>1. ~ Clean(t)
    <3> SUFFICES ASSUME Clean(t) PROVE Comparable(s)
      BY <1>8 DEF GivesUp
    <3>1. Clean(s) /\ SameValues(s) /\ InPlace(s)
      BY <1>3, <1>8 DEF GivesUp, Clean, Kept, Kernel, MergeSound
    <3>2. \A i \in 1..Size(s) : s.values[i] \in Value
      BY <1>1, <3>1, ValuesPresent
    <3>3. s.run.first \in 1..Size(s) /\ s.run.second \in 1..Size(s)
      BY <1>1, <1>8, <3>1, RunInside DEF GivesUp, Both
    <3> QED
      BY <3>2, <3>3 DEF Comparable
  <2>2. Kernel(t)
    BY <1>3, <1>8, <2>1, KernelOfSame DEF GivesUp, SameLists, Kept
  <2> QED
    BY <1>1, <1>2, <1>5, <1>8, <2>2 DEF GivesUp
<1>9. CASE Takes2(s, t)
  <2>1. s.stage = "merge"
    BY <1>9 DEF Takes2
  <2>2. PICK b \in BOOLEAN :
           /\ t = Taken(s, b)
           /\ IF b THEN s.run.second < s.run.right ELSE s.run.first < s.run.middle
           /\ Clean(s) =>
                 IF b THEN s.run.first < s.run.middle =>
                              s.values[s.run.second] <= s.values[s.run.first]
                      ELSE s.run.second < s.run.right =>
                              s.values[s.run.first] <= s.values[s.run.second]
    <3>1. CASE /\ Both(s) /\ Comparable(s)
               /\ t = Taken(s, s.values[s.run.second] < s.values[s.run.first])
      <4>1. s.values[s.run.second] \in Int /\ s.values[s.run.first] \in Int
        BY <3>1, LibraryAssumption DEF Comparable
      <4>2. (s.values[s.run.second] < s.values[s.run.first]) \in BOOLEAN
        BY <3>1, ComparedTruly
      <4>3. PICK b \in BOOLEAN : b = (s.values[s.run.second] < s.values[s.run.first])
        BY <4>2, Zenon
      <4>4. t = Taken(s, b)
        BY <3>1, <4>3, Zenon
      <4>5. b <=> (s.values[s.run.second] < s.values[s.run.first])
        BY <4>3, Zenon
      <4>6. /\ b => s.values[s.run.second] <= s.values[s.run.first]
            /\ ~ b => s.values[s.run.first] <= s.values[s.run.second]
        BY <4>1, <4>5
      <4> QED
        BY <3>1, <4>4, <4>6 DEF Both
    <3> QED
      BY <1>9, <3>1 DEF Takes2
  <2>3. Kernel(t)
    BY <2>1, <2>2, TakeKeeps
  <2>4. t.pending = s.pending
    BY <1>1, <2>2, TakenFields
  <2> QED
    BY <1>1, <1>2, <1>5, <2>3, <2>4
<1>10. CASE NextRun(s, t)
  <2>1. Kernel(t)
    BY <1>3, <1>10, NextRunKeeps
  <2> QED
    BY <1>1, <1>2, <1>5, <1>10, <2>1 DEF NextRun, SameCourse
<1>11. CASE Swaps(s, t)
  <2>1. Kernel(t)
    BY <1>3, <1>11, SwapKeeps
  <2> QED
    BY <1>1, <1>2, <1>5, <1>11, <2>1 DEF Swaps, SameCourse
<1> QED
  BY <1>1, <1>2, <1>4, <1>6, <1>7, <1>8, <1>9, <1>10, <1>11, TurnCases

\* The loop keeps what its turns keep, and waits or ends.
LEMMA AdvanceKeeps ==
    ASSUME NEW s, Kernel(s), s.pending = "none"
    PROVE  /\ Sound(Advance(s)) /\ Halted(Advance(s))
           /\ Size(Advance(s)) = Size(s)
<1> DEFINE Good(t) == Sound(Advance(t)) /\ Halted(Advance(t)) /\ Size(Advance(t)) = Size(t)
           Bad == {t \in SortState : Sound(t) /\ ~ Good(t)}
           Works == {Work(t) : t \in Bad}
<1>1. Bad = {}
  <2> SUFFICES ASSUME Bad # {} PROVE FALSE
    OBVIOUS
  <2>1. Works \in SUBSET Nat /\ Works # {}
    BY WorkType
  <2>2. PICK k \in Works : \A j \in Works : k <= j
    BY <2>1, LeastNumber
  <2>3. PICK t \in Bad : Work(t) = k
    BY <2>2
  <2>4. Advance(t) = IF Halted(t) THEN t ELSE Advance(Turn(t))
    BY AdvanceUnfolds
  <2>5. ~ Halted(t)
    BY <2>3, <2>4
  <2>6. PICK u \in SortState : u = Turn(t)
    BY TurnType
  <2>7. Sound(u)
    BY <2>3, <2>5, <2>6, TurnKeeps DEF Sound
  <2>8. Size(u) = Size(t) /\ Work(u) < Work(t) /\ Work(u) \in Nat /\ Work(t) \in Nat
    BY <2>5, <2>6, TurnKeepsSize, TurnIsProgress, WorkType
  <2>9. u \notin Bad
    <3> SUFFICES ASSUME u \in Bad PROVE FALSE
      OBVIOUS
    <3>1. Work(u) \in Works
      OBVIOUS
    <3> HIDE DEF Bad, Works
    <3> QED
      BY <3>1, <2>2, <2>3, <2>8
  <2>10. Good(u)
    BY <2>7, <2>9
  <2>11. Good(t)
    BY <2>4, <2>5, <2>6, <2>8, <2>10
  <2> QED
    BY <2>3, <2>11
<1>2. s \in SortState /\ Sound(s)
  BY DEF Sound, Kernel
<1> QED
  BY <1>1, <1>2

-----------------------------------------------------------------------------
(* The handlers. *)

\* What every step keeps of a sort.
SortInvariant(s) ==
    /\ Sound(s)
    /\ s.phase = "calling" => s.pending # "none"
    /\ 1..Size(s) \subseteq Key

LEMMA AdvanceInvariant ==
    ASSUME NEW s, Kernel(s), s.pending = "none", 1..Size(s) \subseteq Key
    PROVE  SortInvariant(Advance(s))
BY AdvanceKeeps DEF SortInvariant, Halted

\* A sort that begins with a copy.
LEMMA NewSort ==
    ASSUME NEW s, NEW n \in Nat, NEW copy \in List, Len(copy) = n, 1..n \subseteq Key,
           NEW custom \in BOOLEAN, NEW metamethod \in BOOLEAN, NEW empty \in List, Len(empty) = n,
           IsSort(s, "idle", "validate", "none", custom, metamethod, copy, empty, 1,
                  Run(0, 1, 1), copy, TRUE)
    PROVE  /\ Kernel(s) /\ s.pending = "none" /\ 1..Size(s) \subseteq Key
           /\ SortInvariant(s)
<1> DEFINE g == Run(0, 1, 1)
<1>1. g \in RunState /\ g.middle <= n + 1 /\ g.right <= n + 1
  <2>1. 1 \in Index /\ 0 \in Nat
    BY DEF Index
  <2> QED
    BY <2>1, RunBegins
<1> HIDE DEF g
<1>2. /\ s.phase = "idle" /\ s.stage = "validate" /\ s.pending = "none"
      /\ s.custom = custom /\ s.metamethod = metamethod /\ s.honest = TRUE
      /\ s.values = copy /\ s.scratch = empty /\ s.given = copy /\ s.index = 1
      /\ s.run = g /\ Complete(s)
  <2>1. /\ s.phase = "idle" /\ s.stage = "validate" /\ s.pending = "none"
        /\ s.custom = custom /\ s.metamethod = metamethod /\ s.honest = TRUE
        /\ s.values = copy /\ s.scratch = empty /\ s.given = copy /\ s.index = 1
        /\ s.run = Run(0, 1, 1)
    BY DEF IsSort
  <2>2. Complete(s)
    BY <2>1, Zenon DEF IsSort, Complete
  <2> QED
    BY <2>1, <2>2, Zenon DEF g
<1>3. s \in SortState
  <2>1. 1 \in Index
    BY DEF Index
  <2> QED
    BY <1>2, <2>1, <1>1, SortIntro DEF Complete
<1>4. Size(s) = n
  BY <1>2 DEF Size
<1>5. Kernel(s)
  BY <1>2, <1>3 DEF Kernel, SameValues
<1> QED
  BY <1>2, <1>4, <1>5 DEF Sound, SortInvariant

LEMMA NoSortInvariant == SortInvariant(NoSort)
<1>1. <<>> \in List /\ Len(<<>>) = 0 /\ 0 \in Nat
  BY DEF List
<1>2. 1..0 \subseteq Key
  OBVIOUS
<1>3. IsSort(NoSort, "idle", "validate", "none", FALSE, FALSE, <<>>, <<>>, 1, Run(0, 1, 1),
             <<>>, TRUE)
  BY Zenon DEF NoSort, IsSort
<1> QED
  BY <1>1, <1>2, <1>3, NewSort

LEMMA StartSortKeeps ==
    ASSUME tab \in Proper, StartSort
    PROVE  SortInvariant(sort')
<1> DEFINE n == Length(tab)
           copy == [i \in 1..n |-> Get(tab, i)]
           empty == [i \in 1..n |-> Nil]
<1>1. n \in Nat /\ (n = 0 \/ Get(tab, n) # Nil)
  BY LengthFindsBorder
<1>2. 1..n \subseteq Key
  <2>1. CASE n = 0
    BY <2>1
  <2>2. CASE n # 0
    <3>1. n \in Key
      BY <1>1, <2>2, NumbersFound
    <3> QED
      BY <1>1, <3>1, LibraryAssumption
  <2> QED
    BY <2>1, <2>2
<1>3. PICK custom \in BOOLEAN, metamethod \in BOOLEAN :
        sort' = Advance(Begun(NoSort, custom, metamethod, copy, empty, copy))
  BY DEF StartSort, Begun
<1>4. copy \in List /\ Len(copy) = n /\ empty \in List /\ Len(empty) = n
  <2>1. \A i \in 1..n : Get(tab, i) \in Value \cup {Nil}
    BY <1>2, GetType
  <2> HIDE DEF n
  <2>2. copy \in [1..n -> Value \cup {Nil}] /\ empty \in [1..n -> Value \cup {Nil}]
    BY <2>1
  <2> QED
    BY <1>1, <2>2, SeqOfLength DEF List
<1> HIDE DEF n, copy, empty
<1>5. PICK s : s = Begun(NoSort, custom, metamethod, copy, empty, copy)
  OBVIOUS
<1>6. IsSort(s, "idle", "validate", "none", custom, metamethod, copy, empty, 1,
             Run(0, 1, 1), copy, TRUE)
  <2>1. Complete(NoSort)
    BY NoSortInvariant, SortFields DEF SortInvariant, Sound, Kernel, Complete
  <2>2. IsSort(s, NoSort.phase, NoSort.stage, NoSort.pending, custom, metamethod, copy, empty,
               NoSort.index, NoSort.run, copy, NoSort.honest)
    BY <1>5, <2>1, SortBegun, Zenon
  <2>3. /\ NoSort.phase = "idle" /\ NoSort.stage = "validate" /\ NoSort.pending = "none"
        /\ NoSort.index = 1 /\ NoSort.run = Run(0, 1, 1) /\ NoSort.honest = TRUE
    BY DEF NoSort
  <2> QED
    BY <2>2, <2>3, Zenon
<1>7. Kernel(s) /\ s.pending = "none" /\ 1..Size(s) \subseteq Key
  BY <1>1, <1>2, <1>4, <1>6, NewSort
<1> QED
  BY <1>3, <1>5, <1>7, AdvanceInvariant

\* The state in which an answer is considered.
Told(s, u, answer) ==
    /\ s \in SortState
    /\ s.phase = u.phase /\ s.stage = u.stage /\ s.pending = "none"
    /\ s.custom = u.custom /\ s.values = u.values /\ s.scratch = u.scratch
    /\ s.given = u.given /\ s.index = u.index /\ s.run = u.run
    /\ s.honest => u.honest /\ (answer <=> Truth(Compared(u)))

Answered(u, answer) ==
    [u EXCEPT !.pending = "none", !.honest = @ /\ answer = Truth(Compared(u))]

LEMMA ToldAnswer ==
    ASSUME NEW u \in SortState, NEW answer \in BOOLEAN, NEW s,
           s = Answered(u, answer)
    PROVE  Told(s, u, answer)
<1>h. PICK h \in BOOLEAN : h = (u.honest /\ answer = Truth(Compared(u)))
  OBVIOUS
<1>1. h \in BOOLEAN /\ (h => u.honest /\ (answer <=> Truth(Compared(u))))
  BY <1>h
<1>2. s = [u EXCEPT !.pending = "none", !.honest = h]
  BY <1>h DEF Answered
<1>3. s = [phase |-> u.phase, stage |-> u.stage, pending |-> "none",
           custom |-> u.custom, metamethod |-> u.metamethod,
           values |-> u.values, scratch |-> u.scratch, index |-> u.index,
           run |-> u.run, given |-> u.given, honest |-> h]
  BY <1>2, SortFields, ZenonT(60)
<1>4. /\ s.phase = u.phase /\ s.stage = u.stage /\ s.pending = "none"
      /\ s.custom = u.custom /\ s.metamethod = u.metamethod
      /\ s.values = u.values /\ s.scratch = u.scratch
      /\ s.given = u.given /\ s.index = u.index /\ s.run = u.run /\ s.honest = h
      /\ Complete(s)
  <2>1. /\ s.phase = u.phase /\ s.stage = u.stage /\ s.pending = "none"
        /\ s.custom = u.custom /\ s.metamethod = u.metamethod
        /\ s.values = u.values /\ s.scratch = u.scratch
        /\ s.given = u.given /\ s.index = u.index /\ s.run = u.run /\ s.honest = h
    BY <1>3
  <2> QED
    BY <1>3, <2>1, Zenon DEF Complete
<1>5. s \in SortState
  BY <1>1, <1>4, SortFields, SortIntro DEF Complete
<1> QED
  BY <1>1, <1>4, <1>5 DEF Told

\* A field that the handler changes; the rest of the state stays.
LEMMA Changed ==
    ASSUME NEW s \in SortState,
           NEW phase \in {"idle", "calling", "commit", "failed"},
           NEW pending \in {"none", "ValidatePrimary", "ValidateReverse",
                            "MergePrimary", "MergeReverse"},
           NEW index \in Index, NEW t,
           \/ t = [s EXCEPT !.phase = phase] /\ pending = s.pending /\ index = s.index
           \/ t = [s EXCEPT !.pending = pending] /\ phase = s.phase /\ index = s.index
           \/ t = [s EXCEPT !.index = index] /\ phase = s.phase /\ pending = s.pending
    PROVE  /\ t \in SortState
           /\ t.phase = phase /\ t.pending = pending /\ t.index = index
           /\ t.stage = s.stage /\ t.values = s.values /\ t.scratch = s.scratch
           /\ t.given = s.given /\ t.run = s.run /\ t.honest = s.honest
<1>1. t = [phase |-> phase, stage |-> s.stage, pending |-> pending,
           custom |-> s.custom, metamethod |-> s.metamethod,
           values |-> s.values, scratch |-> s.scratch, index |-> index,
           run |-> s.run, given |-> s.given, honest |-> s.honest]
  BY SortFields
<1>2. /\ t.phase = phase /\ t.pending = pending /\ t.index = index
      /\ t.stage = s.stage /\ t.values = s.values /\ t.scratch = s.scratch
      /\ t.given = s.given /\ t.run = s.run /\ t.honest = s.honest
      /\ t.custom = s.custom /\ t.metamethod = s.metamethod
      /\ t = [phase |-> t.phase, stage |-> t.stage, pending |-> t.pending,
              custom |-> t.custom, metamethod |-> t.metamethod,
              values |-> t.values, scratch |-> t.scratch, index |-> t.index,
              run |-> t.run, given |-> t.given, honest |-> t.honest]
  BY <1>1
<1>3. t \in SortState
  BY <1>2, SortFields, SortIntro
<1> QED
  BY <1>2, <1>3

LEMMA TruthOfNumbers ==
    ASSUME NEW x \in Value, NEW y \in Value
    PROVE  /\ x \in Int /\ y \in Int
           /\ Truth(<<x, y>>) <=> x < y
BY LibraryAssumption DEF Truth

LEMMA NeverLessThanItself ==
    ASSUME NEW x
    PROVE  ~ Truth(<<x, x>>)
<1> SUFFICES ASSUME Truth(<<x, x>>) PROVE FALSE
  OBVIOUS
<1>1. x \in Value /\ x < x
  BY DEF Truth
<1> QED
  BY <1>1, LibraryAssumption

LEMMA CompareKeeps ==
    ASSUME SortInvariant(sort), Compare
    PROVE  SortInvariant(sort')
<1>1. /\ sort \in SortState /\ Kernel(sort) /\ Sound(sort)
      /\ sort.phase = "calling" /\ sort.pending # "none" /\ 1..Size(sort) \subseteq Key
  BY DEF SortInvariant, Sound, Kernel, Compare
<1>2. PICK answer \in BOOLEAN :
        LET s == Answered(sort, answer)
            refused == [s EXCEPT !.phase = "failed"]
        IN  sort' =
              CASE sort.pending = "ValidatePrimary" ->
                      IF answer THEN [s EXCEPT !.pending = "ValidateReverse"]
                      ELSE Advance([s EXCEPT !.index = @ + 1])
                [] sort.pending = "ValidateReverse" -> refused
                [] sort.pending = "MergePrimary" ->
                      IF answer /\ sort.custom THEN [s EXCEPT !.pending = "MergeReverse"]
                      ELSE Advance(Taken(s, answer))
                [] sort.pending = "MergeReverse" ->
                      IF answer THEN refused ELSE Advance(Taken(s, TRUE))
  BY Zenon DEF Compare, Answered
<1>3. PICK s : s = Answered(sort, answer)
  OBVIOUS
<1>4. /\ sort.pending = "ValidatePrimary" =>
            sort' = IF answer THEN [s EXCEPT !.pending = "ValidateReverse"]
                    ELSE Advance([s EXCEPT !.index = @ + 1])
      /\ sort.pending = "ValidateReverse" => sort' = [s EXCEPT !.phase = "failed"]
      /\ sort.pending = "MergePrimary" =>
            sort' = IF answer /\ sort.custom THEN [s EXCEPT !.pending = "MergeReverse"]
                    ELSE Advance(Taken(s, answer))
      /\ sort.pending = "MergeReverse" =>
            sort' = IF answer THEN [s EXCEPT !.phase = "failed"]
                    ELSE Advance(Taken(s, TRUE))
  BY <1>2, <1>3
<1>5. Told(s, sort, answer)
  BY <1>1, <1>3, ToldAnswer
<1>6. /\ s \in SortState /\ s.phase = "calling" /\ s.stage = sort.stage /\ s.pending = "none"
      /\ s.values = sort.values /\ s.scratch = sort.scratch /\ s.given = sort.given
      /\ s.run = sort.run /\ (s.honest => sort.honest)
      /\ s.honest => (answer <=> Truth(Compared(sort)))
      /\ s.index \in Index
  BY <1>1, <1>5, SortFields DEF Told
<1>7. Kernel(s) /\ Size(s) = Size(sort)
  BY <1>1, <1>6, KernelOfSame DEF Size
<1>8. Clean(s) => Clean(sort)
  BY <1>6 DEF Clean
<1>9. ASSUME NEW t \in SortState, t.values = s.values, t.scratch = s.scratch,
             t.given = s.given, t.run = s.run, t.stage = s.stage, t.honest = s.honest,
             t.phase = s.phase \/ (t.phase = "failed" /\ ~ Clean(s))
      PROVE  Kernel(t) /\ 1..Size(t) \subseteq Key /\ (Clean(t) <=> Clean(s))
  <2>1. Clean(t) <=> Clean(s)
    BY <1>9 DEF Clean
  <2>2. Size(t) = Size(s)
    BY <1>9 DEF Size
  <2> QED
    BY <1>1, <1>6, <1>7, <1>9, <2>1, <2>2, KernelOfSame
<1>10. ASSUME ~ Clean(s)
       PROVE  SortInvariant([s EXCEPT !.phase = "failed"])
  <2>1. PICK t : t = [s EXCEPT !.phase = "failed"]
    OBVIOUS
  <2>2. /\ t \in SortState
        /\ t.phase = "failed" /\ t.pending = "none"
        /\ t.stage = s.stage /\ t.values = s.values /\ t.scratch = s.scratch
        /\ t.given = s.given /\ t.run = s.run /\ t.honest = s.honest
    <3>1. /\ "failed" \in {"idle", "calling", "commit", "failed"}
          /\ "none" \in {"none", "ValidatePrimary", "ValidateReverse",
                         "MergePrimary", "MergeReverse"}
      OBVIOUS
    <3> QED
      BY <1>6, <2>1, <3>1, Changed
  <2>3. Kernel(t) /\ 1..Size(t) \subseteq Key
    BY <1>9, <1>10, <2>2
  <2> QED
    BY <2>1, <2>2, <2>3 DEF SortInvariant, Sound
<1>11. CASE sort.pending = "ValidatePrimary"
  <2>1. Compared(sort) = <<sort.values[sort.index], sort.values[sort.index]>>
    BY <1>11 DEF Compared
  <2>2. ~ Truth(Compared(sort))
    BY <2>1, NeverLessThanItself
  <2>3. CASE answer
    <3>1. PICK t : t = [s EXCEPT !.pending = "ValidateReverse"]
      OBVIOUS
    <3>2. /\ t \in SortState
          /\ t.phase = s.phase /\ t.pending = "ValidateReverse"
          /\ t.stage = s.stage /\ t.values = s.values /\ t.scratch = s.scratch
          /\ t.given = s.given /\ t.run = s.run /\ t.honest = s.honest
      <4>1. /\ s.phase \in {"idle", "calling", "commit", "failed"}
            /\ "ValidateReverse" \in {"none", "ValidatePrimary", "ValidateReverse",
                                      "MergePrimary", "MergeReverse"}
        BY <1>6
      <4> QED
        BY <1>6, <3>1, <4>1, Changed
    <3>3. Kernel(t) /\ 1..Size(t) \subseteq Key
      BY <1>9, <3>2
    <3>4. ~ t.honest
      BY <1>6, <2>2, <2>3, <3>2
    <3> QED
      BY <1>4, <1>11, <2>3, <3>1, <3>2, <3>3, <3>4 DEF SortInvariant, Sound
  <2>4. CASE ~ answer
    <3>1. PICK t : t = [s EXCEPT !.index = @ + 1]
      OBVIOUS
    <3>2. /\ t \in SortState
          /\ t.phase = s.phase /\ t.pending = "none"
          /\ t.stage = s.stage /\ t.values = s.values /\ t.scratch = s.scratch
          /\ t.given = s.given /\ t.run = s.run /\ t.honest = s.honest
      <4>1. PICK i \in Index : i = s.index + 1
        BY <1>6 DEF Index
      <4>2. t = [s EXCEPT !.index = i]
        BY <3>1, <4>1
      <4>3. /\ s.phase \in {"idle", "calling", "commit", "failed"}
            /\ "none" \in {"none", "ValidatePrimary", "ValidateReverse",
                           "MergePrimary", "MergeReverse"}
        BY <1>6
      <4> QED
        BY <1>6, <4>2, <4>3, Changed
    <3>3. Kernel(t) /\ 1..Size(t) \subseteq Key
      BY <1>9, <3>2
    <3> QED
      BY <1>4, <1>11, <2>4, <3>1, <3>2, <3>3, AdvanceInvariant
  <2> QED
    BY <2>3, <2>4
<1>12. CASE sort.pending = "ValidateReverse"
  <2>1. ~ Clean(s)
    BY <1>1, <1>6, <1>12 DEF Sound, Clean
  <2> QED
    BY <1>4, <1>10, <1>12, <2>1
<1>13. CASE sort.pending \in {"MergePrimary", "MergeReverse"}
  <2>1. s.stage = "merge" /\ s.run.first < s.run.middle /\ s.run.second < s.run.right
    BY <1>1, <1>6, <1>13 DEF Sound, Both
  <2>2. PICK x, y : x = s.values[s.run.second] /\ y = s.values[s.run.first]
    OBVIOUS
  <2>3. Clean(s) => x \in Value /\ y \in Value /\ x \in Int /\ y \in Int
    <3> SUFFICES ASSUME Clean(s) PROVE x \in Value /\ y \in Value /\ x \in Int /\ y \in Int
      OBVIOUS
    <3>1. SameValues(s) /\ InPlace(s)
      BY <1>7, <2>1 DEF Kernel, MergeSound
    <3>2. s.run.first \in 1..Size(s) /\ s.run.second \in 1..Size(s)
      BY <1>6, <2>1, <3>1, RunInside
    <3> QED
      BY <1>6, <2>2, <3>1, <3>2, ValuesPresent
  <2>4. ASSUME NEW b \in BOOLEAN, Clean(s) => IF b THEN x <= y ELSE y <= x
        PROVE  SortInvariant(Advance(Taken(s, b)))
    <3>1. PICK t : t = Taken(s, b)
      OBVIOUS
    <3>2. Kernel(t)
      BY <1>7, <2>1, <2>2, <2>4, <3>1, TakeKeeps
    <3>3. t.pending = "none" /\ t.values = s.values
      BY <1>6, <3>1, TakenFields
    <3>4. 1..Size(t) \subseteq Key
      BY <1>1, <1>7, <3>3 DEF Size
    <3> QED
      BY <3>1, <3>2, <3>3, <3>4, AdvanceInvariant
  <2>5. CASE sort.pending = "MergePrimary"
    <3>1. Compared(sort) = <<x, y>>
      BY <1>6, <2>2, <2>5 DEF Compared
    <3>2. Clean(s) => (answer <=> x < y)
      BY <1>6, <2>3, <3>1, TruthOfNumbers DEF Clean
    <3>3. CASE answer /\ sort.custom
      <4>1. PICK t : t = [s EXCEPT !.pending = "MergeReverse"]
        OBVIOUS
      <4>2. /\ t \in SortState
            /\ t.phase = s.phase /\ t.pending = "MergeReverse"
            /\ t.stage = s.stage /\ t.values = s.values /\ t.scratch = s.scratch
            /\ t.given = s.given /\ t.run = s.run /\ t.honest = s.honest
        <5>1. /\ s.phase \in {"idle", "calling", "commit", "failed"}
              /\ "MergeReverse" \in {"none", "ValidatePrimary", "ValidateReverse",
                                     "MergePrimary", "MergeReverse"}
          BY <1>6
        <5> QED
          BY <1>6, <4>1, <5>1, Changed
      <4>3. Kernel(t) /\ 1..Size(t) \subseteq Key /\ (Clean(t) <=> Clean(s))
        BY <1>9, <4>2
      <4>4. Clean(t) => t.values[t.run.second] < t.values[t.run.first]
        BY <2>2, <3>2, <3>3, <4>2, <4>3
      <4>5. t.stage = "merge" /\ Both(t)
        BY <2>1, <4>2 DEF Both
      <4> QED
        BY <1>4, <2>5, <3>3, <4>1, <4>2, <4>3, <4>4, <4>5 DEF SortInvariant, Sound
    <3>4. CASE ~ (answer /\ sort.custom)
      <4>1. Clean(s) => IF answer THEN x <= y ELSE y <= x
        BY <2>3, <3>2
      <4> QED
        BY <1>4, <2>4, <2>5, <3>4, <4>1
    <3> QED
      BY <3>3, <3>4
  <2>6. CASE sort.pending = "MergeReverse"
    <3>1. Compared(sort) = <<y, x>>
      BY <1>6, <2>2, <2>6 DEF Compared
    <3>2. Clean(s) => (answer <=> y < x)
      BY <1>6, <2>3, <3>1, TruthOfNumbers DEF Clean
    <3>3. Clean(s) => x < y
      BY <1>1, <1>6, <1>8, <2>2, <2>6 DEF Sound
    <3>4. CASE answer
      <4>1. ~ Clean(s)
        BY <2>3, <3>2, <3>3, <3>4
      <4> QED
        BY <1>4, <1>10, <2>6, <3>4, <4>1
    <3>5. CASE ~ answer
      <4>1. Clean(s) => x <= y
        BY <2>3, <3>3
      <4> QED
        BY <1>4, <2>4, <2>6, <3>5, <4>1
    <3> QED
      BY <3>4, <3>5
  <2> QED
    BY <1>13, <2>5, <2>6
<1> QED
  BY <1>1, <1>11, <1>12, <1>13, SortFields

\* Writing back: every key is one of the program, every value one of the copy.
LEMMA CommitKeeps ==
    ASSUME SortInvariant(sort), Commit
    PROVE  /\ SortInvariant(sort')
           /\ \/ UNCHANGED <<tab, walk>>
              \/ \E k \in Key, v \in Value \cup {Nil} : Assign(k, v)
<1>1. /\ sort \in SortState /\ Kernel(sort) /\ Sound(sort) /\ sort.phase = "commit"
      /\ 1..Size(sort) \subseteq Key
  BY DEF SortInvariant, Sound, Kernel, Commit
<1>2. CASE sort.index > Size(sort)
  BY <1>2, NoSortInvariant DEF Commit
<1>3. CASE ~ (sort.index > Size(sort))
  <2>1. /\ Assign(sort.index, sort.values[sort.index])
        /\ sort' = [sort EXCEPT !.index = @ + 1]
    BY <1>3 DEF Commit
  <2>2. sort.index \in 1..Size(sort) /\ sort.index \in Index
    BY <1>1, <1>3, SortFields DEF Index
  <2>3. sort.values[sort.index] \in Value \cup {Nil}
    BY <1>1, <2>2, SortFields DEF List
  <2>4. PICK i \in Index : i = sort.index + 1
    BY <2>2 DEF Index
  <2>5. PICK t : t = [sort EXCEPT !.index = i] /\ t = sort'
    BY <2>1, <2>4
  <2>6. /\ t \in SortState
        /\ t.phase = sort.phase /\ t.pending = sort.pending
        /\ t.stage = sort.stage /\ t.values = sort.values /\ t.scratch = sort.scratch
        /\ t.given = sort.given /\ t.run = sort.run /\ t.honest = sort.honest
    <3>1. /\ sort.phase \in {"idle", "calling", "commit", "failed"}
          /\ sort.pending \in {"none", "ValidatePrimary", "ValidateReverse",
                               "MergePrimary", "MergeReverse"}
      BY <1>1, SortFields
    <3> QED
      BY <1>1, <2>5, <3>1, Changed
  <2>7. Size(t) = Size(sort) /\ (Clean(t) <=> Clean(sort)) /\ (Both(t) <=> Both(sort))
    BY <2>6 DEF Size, Clean, Both
  <2>8. Kernel(t)
    BY <1>1, <2>6, <2>7, KernelOfSame DEF Kernel
  <2>9. SortInvariant(t)
    BY <1>1, <2>6, <2>7, <2>8 DEF SortInvariant, Sound
  <2> QED
    BY <1>1, <2>1, <2>2, <2>3, <2>5, <2>9
<1> QED
  BY <1>2, <1>3

-----------------------------------------------------------------------------
(* string.gsub. *)

Pieces == {"prefix", "matched", "replaced", "suffix"} \X Nat

\* The output up to the match next - 1: the text before each match, then the match.
OutputOf(g, out) ==
    /\ out \in Seq(Pieces) /\ Len(out) = 2 * (g.next - 1)
    /\ \A i \in 1..Len(out) :
          /\ out[i][2] = (i + 1) \div 2
          /\ IF i % 2 = 1 THEN out[i][1] = "prefix" ELSE out[i][1] \in {"matched", "replaced"}

\* Before the search for the next match goes on.
Between(g) ==
    /\ g \in GsubState /\ g.next > 0 /\ g.next - 1 <= g.total
    /\ OutputOf(g, g.output)

\* While the handler runs, and at the end.
Waiting(g) ==
    /\ g \in GsubState /\ g.next > 0
    /\ \E out \in Seq(Pieces) :
          /\ OutputOf(g, out)
          /\ \/ /\ g.phase = "calling" /\ g.next <= g.total
                /\ g.output = Append(out, <<"prefix", g.next>>)
             \/ /\ g.phase = "complete" /\ g.next - 1 = g.total
                /\ g.output = Append(out, <<"suffix", 0>>)

LEMMA GsubFields ==
    ASSUME NEW g \in GsubState
    PROVE  /\ g.phase \in {"idle", "calling", "complete"} /\ g.next \in Nat /\ g.total \in Nat
           /\ g.table \in BOOLEAN /\ g.handler \in BOOLEAN /\ g.output \in Seq(Pieces)
           /\ g = [phase |-> g.phase, next |-> g.next, total |-> g.total, table |-> g.table,
                   handler |-> g.handler, output |-> g.output]
BY DEF GsubState, Pieces

LEMMA Appended ==
    ASSUME NEW out \in Seq(Pieces), NEW x \in Pieces
    PROVE  /\ Append(out, x) \in Seq(Pieces) /\ Len(Append(out, x)) = Len(out) + 1
           /\ Len(out) \in Nat
           /\ \A i \in 1..Len(out) : Append(out, x)[i] = out[i]
           /\ Append(out, x)[Len(out) + 1] = x
OBVIOUS

\* One match found, its text and its replacement collected.
Continues(h) == ~ (h.next > h.total) /\ h.table /\ (Get(tab, h.next) # Nil \/ ~ h.handler)
Before(h) == [h EXCEPT !.output = Append(@, <<"prefix", h.next>>)]
Passed(h) == Replaced(Before(h), Get(tab, h.next))
Outcome(h) == IF h.next > h.total
            THEN [h EXCEPT !.output = Append(@, <<"suffix", 0>>), !.phase = "complete"]
            ELSE [Before(h) EXCEPT !.phase = "calling"]

LEMMA ReplacedFields ==
    ASSUME NEW g \in GsubState, NEW v
    PROVE  /\ Replaced(g, v) \in GsubState
           /\ Replaced(g, v).phase = g.phase /\ Replaced(g, v).next = g.next + 1
           /\ Replaced(g, v).total = g.total /\ Replaced(g, v).table = g.table
           /\ Replaced(g, v).handler = g.handler
           /\ \E x \in {<<"matched", g.next>>, <<"replaced", g.next>>} :
                 Replaced(g, v).output = Append(g.output, x)
<1>1. PICK x \in {<<"matched", g.next>>, <<"replaced", g.next>>} :
         x = IF v = Nil THEN <<"matched", g.next>> ELSE <<"replaced", g.next>>
  OBVIOUS
<1>2. x \in Pieces /\ g.next + 1 \in Nat
  BY <1>1, GsubFields DEF Pieces
<1>3. PICK out \in Seq(Pieces), n \in Nat : out = Append(g.output, x) /\ n = g.next + 1
  BY <1>2, GsubFields, Appended
<1>4. Replaced(g, v) = [g EXCEPT !.output = out, !.next = n]
  BY <1>1, <1>3, GsubFields DEF Replaced
<1>5. Replaced(g, v) = [phase |-> g.phase, next |-> n, total |-> g.total, table |-> g.table,
                        handler |-> g.handler, output |-> out]
  BY <1>4, GsubFields
<1>6. PICK r : r = Replaced(g, v)
  OBVIOUS
<1>7. /\ r.phase = g.phase /\ r.next = n /\ r.total = g.total /\ r.table = g.table
      /\ r.handler = g.handler /\ r.output = out
      /\ r = [phase |-> r.phase, next |-> r.next, total |-> r.total, table |-> r.table,
              handler |-> r.handler, output |-> r.output]
  BY <1>5, <1>6
<1>8. r \in GsubState
  BY <1>7, GsubFields DEF GsubState, Pieces
<1> QED
  BY <1>3, <1>6, <1>7, <1>8

LEMMA BeforeFields ==
    ASSUME NEW h \in GsubState
    PROVE  /\ Before(h) \in GsubState
           /\ Before(h).phase = h.phase /\ Before(h).next = h.next
           /\ Before(h).total = h.total /\ Before(h).table = h.table
           /\ Before(h).handler = h.handler
           /\ Before(h).output = Append(h.output, <<"prefix", h.next>>)
           /\ Before(h).output \in Seq(Pieces)
<1>1. <<"prefix", h.next>> \in Pieces
  BY GsubFields DEF Pieces
<1>2. PICK out \in Seq(Pieces) : out = Append(h.output, <<"prefix", h.next>>)
  BY <1>1, GsubFields, Appended
<1>3. PICK r : r = Before(h)
  OBVIOUS
<1>4. r = [h EXCEPT !.output = out]
  BY <1>2, <1>3 DEF Before
<1>5. /\ r.phase = h.phase /\ r.next = h.next /\ r.total = h.total /\ r.table = h.table
      /\ r.handler = h.handler /\ r.output = out
      /\ r = [phase |-> r.phase, next |-> r.next, total |-> r.total, table |-> r.table,
              handler |-> r.handler, output |-> r.output]
  BY <1>4, GsubFields
<1>6. r \in GsubState
  BY <1>5, GsubFields DEF GsubState, Pieces
<1> QED
  BY <1>2, <1>3, <1>5, <1>6

LEMMA PassFields ==
    ASSUME NEW h \in GsubState
    PROVE  /\ Passed(h) \in GsubState /\ Passed(h).next = h.next + 1
           /\ Passed(h).total = h.total
           /\ \E x \in {<<"matched", h.next>>, <<"replaced", h.next>>} :
                 Passed(h).output = Append(Append(h.output, <<"prefix", h.next>>), x)
<1>1. PICK b \in GsubState : b = Before(h)
  BY BeforeFields
<1>2. b.next = h.next /\ b.total = h.total /\ b.output = Append(h.output, <<"prefix", h.next>>)
  BY <1>1, BeforeFields
<1>3. PICK r \in GsubState : r = Replaced(b, Get(tab, h.next))
  BY ReplacedFields
<1>4. /\ r.next = b.next + 1 /\ r.total = b.total
      /\ \E x \in {<<"matched", b.next>>, <<"replaced", b.next>>} : r.output = Append(b.output, x)
  BY <1>3, ReplacedFields
<1>5. r = Passed(h)
  BY <1>1, <1>3 DEF Passed
<1> QED
  BY <1>2, <1>4, <1>5

LEMMA EvenAndOdd ==
    ASSUME NEW n \in Nat, n > 0
    PROVE  /\ (2 * n) % 2 # 1 /\ (2 * n + 1) \div 2 = n
           /\ (2 * (n - 1) + 1) % 2 = 1 /\ (2 * (n - 1) + 1 + 1) \div 2 = n
<1>1. (2 * n) % 2 = 0
  OBVIOUS
<1>2. (2 * n + 1) \div 2 = n
  OBVIOUS
<1>3. (2 * (n - 1) + 1) % 2 = 1
  OBVIOUS
<1>4. (2 * (n - 1) + 1 + 1) \div 2 = n
  OBVIOUS
<1> QED
  BY <1>1, <1>2, <1>3, <1>4

LEMMA OneOfThree ==
    ASSUME NEW n \in Nat, NEW i \in 1..2 * n
    PROVE  i \in 1..2 * (n - 1) \/ i = 2 * (n - 1) + 1 \/ i = 2 * n
OBVIOUS

\* A match later, the output is longer by two pieces.
LEMMA OutputGrows ==
    ASSUME NEW g, NEW h, NEW out, OutputOf(g, out), g.next \in Nat, g.next > 0,
           h.next = g.next + 1,
           NEW x \in {<<"matched", g.next>>, <<"replaced", g.next>>}
    PROVE  OutputOf(h, Append(Append(out, <<"prefix", g.next>>), x))
<1>1. PICK n \in Nat : n = g.next /\ n > 0
  OBVIOUS
<1>2. <<"prefix", n>> \in Pieces /\ x \in Pieces /\ x[2] = n /\ x[1] \in {"matched", "replaced"}
  BY <1>1 DEF Pieces
<1>3. out \in Seq(Pieces) /\ Len(out) = 2 * (n - 1)
  BY <1>1 DEF OutputOf
<1>4. PICK p \in Seq(Pieces) : p = Append(out, <<"prefix", n>>)
  BY <1>2, <1>3, Appended
<1>5. PICK q \in Seq(Pieces) : q = Append(p, x)
  BY <1>2, Appended
<1>6. /\ Len(p) = 2 * (n - 1) + 1 /\ Len(q) = 2 * n
      /\ p[2 * (n - 1) + 1] = <<"prefix", n>> /\ q[2 * n] = x
      /\ \A i \in 1..2 * (n - 1) : p[i] = out[i]
      /\ \A i \in 1..2 * (n - 1) + 1 : q[i] = p[i]
  <2>1. /\ Len(p) = 2 * (n - 1) + 1 /\ p[2 * (n - 1) + 1] = <<"prefix", n>>
        /\ \A i \in 1..2 * (n - 1) : p[i] = out[i]
    BY <1>2, <1>3, <1>4, Appended
  <2>2. /\ Len(q) = Len(p) + 1 /\ q[Len(p) + 1] = x
        /\ \A i \in 1..Len(p) : q[i] = p[i]
    BY <1>2, <1>5, Appended
  <2>3. 2 * (n - 1) + 1 + 1 = 2 * n
    BY <1>1
  <2> QED
    BY <2>1, <2>2, <2>3
<1>7. ASSUME NEW i \in 1..2 * n
      PROVE  /\ q[i][2] = (i + 1) \div 2
             /\ IF i % 2 = 1 THEN q[i][1] = "prefix" ELSE q[i][1] \in {"matched", "replaced"}
  <2>1. CASE i \in 1..2 * (n - 1)
    <3>1. q[i] = out[i]
      BY <1>1, <1>6, <2>1, SMTT(30)
    <3>2. /\ out[i][2] = (i + 1) \div 2
          /\ IF i % 2 = 1 THEN out[i][1] = "prefix" ELSE out[i][1] \in {"matched", "replaced"}
      BY <1>3, <2>1 DEF OutputOf
    <3> QED
      BY <3>1, <3>2
  <2>2. CASE i = 2 * (n - 1) + 1
    <3>1. q[i] = <<"prefix", n>>
      <4>1. 2 * (n - 1) + 1 \in 1..2 * (n - 1) + 1
        BY <1>1
      <4>2. q[2 * (n - 1) + 1] = p[2 * (n - 1) + 1]
        BY <4>1, <1>6
      <4> QED
        BY <4>2, <1>6, <2>2
    <3>2. i % 2 = 1 /\ (i + 1) \div 2 = n
      BY <1>1, <2>2, EvenAndOdd, Zenon
    <3> QED
      BY <3>1, <3>2
  <2>3. CASE i = 2 * n
    <3>1. i % 2 # 1 /\ (i + 1) \div 2 = n
      BY <1>1, <2>3, EvenAndOdd, Zenon
    <3> QED
      BY <1>2, <1>6, <2>3, <3>1
  <2>4. \/ i \in 1..2 * (n - 1) \/ i = 2 * (n - 1) + 1 \/ i = 2 * n
    BY OneOfThree
  <2> QED
    BY <2>1, <2>2, <2>3, <2>4
<1>8. 2 * (h.next - 1) = 2 * n
  BY <1>1
<1>9. OutputOf(h, q)
  BY <1>5, <1>6, <1>7, <1>8 DEF OutputOf
<1> QED
  BY <1>1, <1>4, <1>5, <1>9

\* What the loop answers in h, if f answers after a match.
Searched(f, h) == IF Continues(h) THEN f[Passed(h)] ELSE Outcome(h)
Searches(f) == f = [h \in GsubState |-> Searched(f, h)]

LEMMA SearchExists == \E f : Searches(f)
<1> DEFINE End == {h \in GsubState : ~ Continues(h)}
           Ground == [h \in GsubState |-> Outcome(h)]
           R == {Outcome(h) : h \in GsubState}
           Down == [h \in GsubState |-> Passed(h)]
           Left == [h \in GsubState |-> Excess(h.total + 1, h.next)]
           Up == [q \in GsubState \X R |-> q[2]]
<1>1. /\ Ground \in [GsubState -> R] /\ Up \in [GsubState \X R -> R]
      /\ Left \in [GsubState -> Nat]
  BY GsubFields DEF Excess
<1>2. ASSUME NEW h \in GsubState \ End
      PROVE  Down[h] \in GsubState /\ Left[Down[h]] < Left[h]
  <2>1. PICK r \in GsubState : r = Passed(h) /\ r.next = h.next + 1 /\ r.total = h.total
    BY PassFields
  <2>2. Excess(r.total + 1, r.next) < Excess(h.total + 1, h.next)
    BY <1>2, <2>1, GsubFields DEF Excess, Continues
  <2> QED
    BY <2>1, <2>2
<1>3. PICK f \in [GsubState -> R] : Recursive(f, GsubState, End, Ground, Up, Down)
  <2> HIDE DEF End, Ground, Down, Left, Up, R
  <2> QED
    BY <1>1, <1>2, RecursionExists, Zenon
<1>4. ASSUME NEW h \in GsubState
      PROVE  f[h] = Searched(f, h)
  <2>1. f[h] = IF h \in End THEN Ground[h] ELSE Up[<<h, f[Down[h]]>>]
    BY <1>3 DEF Recursive
  <2>2. Ground[h] = Outcome(h) /\ Down[h] = Passed(h) /\ (h \in End <=> ~ Continues(h))
    OBVIOUS
  <2>3. Passed(h) \in GsubState
    BY PassFields
  <2>4. f[Passed(h)] \in R
    <3> HIDE DEF R
    <3> QED
      BY <2>3
  <2>5. Up[<<h, f[Passed(h)]>>] = f[Passed(h)]
    <3> HIDE DEF R
    <3> QED
      BY <2>4
  <2> HIDE DEF End, Ground, Down, Left, Up, R
  <2> QED
    BY <2>1, <2>2, <2>5 DEF Searched
<1> HIDE DEF End, Ground, Down, Left, Up, R
<1> QED
  BY <1>3, <1>4 DEF Searches, Recursive

LEMMA GsubUnfolds ==
    ASSUME NEW h \in GsubState
    PROVE  Gsub(h) = IF Continues(h) THEN Gsub(Passed(h)) ELSE Outcome(h)
<1> DEFINE f == CHOOSE g : Searches(g)
<1>1. Searches(f)
  BY SearchExists
<1>2. Gsub(h) = f[h] /\ Gsub(Passed(h)) = f[Passed(h)]
  <2>1. \A g, k : Searched(g, k) =
           LET before == [k EXCEPT !.output = Append(@, <<"prefix", k.next>>)]
               v == Get(tab, k.next)
           IN  IF k.next > k.total
               THEN [k EXCEPT !.output = Append(@, <<"suffix", 0>>), !.phase = "complete"]
               ELSE IF k.table /\ (v # Nil \/ ~ k.handler) THEN g[Replaced(before, v)]
               ELSE [before EXCEPT !.phase = "calling"]
    <3> TAKE g, k
    <3>1. CASE k.next > k.total
      BY <3>1 DEF Searched, Continues, Outcome, Before
    <3>2. CASE ~ (k.next > k.total)
      BY <3>2 DEF Searched, Continues, Outcome, Passed, Before
    <3> QED
      BY <3>1, <3>2
  <2> QED
    BY <2>1 DEF Gsub, Searches
<1> HIDE DEF f
<1> QED
  BY <1>1, <1>2 DEF Searches, Searched

LEMMA LastFields ==
    ASSUME NEW h, Between(h), ~ Continues(h)
    PROVE  Waiting(Outcome(h))
<1>1. h \in GsubState /\ h.next > 0 /\ h.next - 1 <= h.total /\ OutputOf(h, h.output)
  BY DEF Between
<1>2. CASE h.next > h.total
  <2>1. <<"suffix", 0>> \in Pieces
    BY DEF Pieces
  <2>2. PICK out \in Seq(Pieces) : out = Append(h.output, <<"suffix", 0>>)
    BY <1>1, <2>1, GsubFields, Appended
  <2>3. PICK r : r = Outcome(h)
    OBVIOUS
  <2>4. r = [h EXCEPT !.output = out, !.phase = "complete"]
    BY <1>2, <2>2, <2>3 DEF Outcome
  <2>5. /\ r.phase = "complete" /\ r.next = h.next /\ r.total = h.total /\ r.table = h.table
        /\ r.handler = h.handler /\ r.output = out
        /\ r = [phase |-> r.phase, next |-> r.next, total |-> r.total, table |-> r.table,
                handler |-> r.handler, output |-> r.output]
    <3>1. PICK g : g = h /\ g = [phase |-> g.phase, next |-> g.next, total |-> g.total,
                                 table |-> g.table, handler |-> g.handler,
                                 output |-> g.output]
      BY <1>1, GsubFields
    <3>2. r = [g EXCEPT !.output = out, !.phase = "complete"]
      BY <2>4, <3>1
    <3>3. r = [phase |-> "complete", next |-> g.next, total |-> g.total,
               table |-> g.table, handler |-> g.handler, output |-> out]
      BY <3>1, <3>2
    <3> QED
      BY <3>1, <3>3
  <2>6. r \in GsubState
    BY <1>1, <2>5, GsubFields DEF GsubState, Pieces
  <2>7. h.next - 1 = h.total
    BY <1>1, <1>2, GsubFields
  <2>8. OutputOf(r, h.output) /\ h.output \in Seq(Pieces)
    BY <1>1, <2>5 DEF OutputOf
  <2> QED
    BY <1>1, <2>2, <2>3, <2>5, <2>6, <2>7, <2>8 DEF Waiting
<1>3. CASE ~ (h.next > h.total)
  <2>1. PICK b \in GsubState : b = Before(h)
    BY <1>1, BeforeFields
  <2>2. /\ b.next = h.next /\ b.total = h.total /\ b.table = h.table /\ b.handler = h.handler
        /\ b.output = Append(h.output, <<"prefix", h.next>>)
    BY <1>1, <2>1, BeforeFields
  <2>3. PICK r : r = Outcome(h)
    OBVIOUS
  <2>4. r = [b EXCEPT !.phase = "calling"]
    BY <1>3, <2>1, <2>3 DEF Outcome
  <2>5. /\ r.phase = "calling" /\ r.next = b.next /\ r.total = b.total /\ r.table = b.table
        /\ r.handler = b.handler /\ r.output = b.output
        /\ r = [phase |-> r.phase, next |-> r.next, total |-> r.total, table |-> r.table,
                handler |-> r.handler, output |-> r.output]
    BY <2>4, GsubFields
  <2>6. r \in GsubState
    BY <2>5, GsubFields DEF GsubState, Pieces
  <2>7. h.next <= h.total
    BY <1>1, <1>3, GsubFields
  <2>8. OutputOf(r, h.output) /\ h.output \in Seq(Pieces)
    BY <1>1, <2>2, <2>5 DEF OutputOf
  <2> QED
    BY <1>1, <2>2, <2>3, <2>5, <2>6, <2>7, <2>8 DEF Waiting
<1> QED
  BY <1>2, <1>3

LEMMA PassKeeps ==
    ASSUME NEW h, Between(h), Continues(h)
    PROVE  Between(Passed(h)) /\ Passed(h).next = h.next + 1 /\ Passed(h).total = h.total
<1>1. h \in GsubState /\ h.next > 0 /\ h.next - 1 <= h.total /\ OutputOf(h, h.output)
  BY DEF Between
<1>2. PICK r \in GsubState : r = Passed(h)
  BY <1>1, PassFields
<1>3. r.next = h.next + 1 /\ r.total = h.total
  BY <1>1, <1>2, PassFields
<1>4. PICK x \in {<<"matched", h.next>>, <<"replaced", h.next>>} :
         r.output = Append(Append(h.output, <<"prefix", h.next>>), x)
  BY <1>1, <1>2, PassFields
<1>5. h.next \in Nat /\ h.total \in Nat
  BY <1>1, GsubFields
<1>6. OutputOf(r, r.output)
  BY <1>1, <1>3, <1>4, <1>5, OutputGrows
<1>7. r.next > 0 /\ r.next - 1 <= r.total
  BY <1>3, <1>5 DEF Continues
<1> QED
  BY <1>2, <1>3, <1>6, <1>7 DEF Between

LEMMA GsubKeeps ==
    ASSUME NEW g, Between(g)
    PROVE  Waiting(Gsub(g))
<1> DEFINE Left(h) == Excess(h.total + 1, h.next)
           Bad == {h \in GsubState : Between(h) /\ ~ Waiting(Gsub(h))}
           Lefts == {Left(h) : h \in Bad}
<1>1. \A h \in GsubState : Left(h) \in Nat
  BY GsubFields DEF Excess
<1>2. Bad = {}
  <2> SUFFICES ASSUME Bad # {} PROVE FALSE
    OBVIOUS
  <2>1. Lefts \in SUBSET Nat /\ Lefts # {}
    BY <1>1
  <2>2. PICK k \in Lefts : \A j \in Lefts : k <= j
    BY <2>1, LeastNumber
  <2>3. PICK h \in Bad : Left(h) = k
    BY <2>2
  <2>4. h \in GsubState /\ Between(h) /\ ~ Waiting(Gsub(h))
    BY <2>3
  <2>5. Gsub(h) = IF Continues(h) THEN Gsub(Passed(h)) ELSE Outcome(h)
    BY <2>4, GsubUnfolds
  <2>6. Continues(h)
    BY <2>4, <2>5, LastFields
  <2>7. PICK r : r = Passed(h)
    OBVIOUS
  <2>8. Between(r) /\ r.next = h.next + 1 /\ r.total = h.total /\ r \in GsubState
    BY <2>4, <2>6, <2>7, PassKeeps DEF Between
  <2>9. Left(r) < Left(h) /\ Left(r) \in Nat /\ Left(h) \in Nat
    BY <2>4, <2>6, <2>8, GsubFields, SMTT(30) DEF Excess, Continues
  <2>10. r \in Bad
    BY <2>4, <2>5, <2>6, <2>7, <2>8
  <2>11. Left(r) \in Lefts
    BY <2>10
  <2> HIDE DEF Bad, Lefts, Left
  <2> QED
    BY <2>2, <2>3, <2>9, <2>11
<1>3. g \in GsubState
  BY DEF Between
<1> QED
  BY <1>2, <1>3

\* The handler's answer completes the match it was asked for.
LEMMA AnswerKeeps ==
    ASSUME NEW g, NEW v, Waiting(g), g.phase = "calling"
    PROVE  Waiting(GsubAnswered(g, v))
<1>1. g \in GsubState /\ g.next > 0 /\ g.next <= g.total
  BY DEF Waiting
<1>2. PICK out \in Seq(Pieces) : OutputOf(g, out) /\ g.output = Append(out, <<"prefix", g.next>>)
  BY DEF Waiting
<1>3. PICK r \in GsubState : r = Replaced(g, v)
  BY <1>1, ReplacedFields
<1>4. r.next = g.next + 1 /\ r.total = g.total
  BY <1>1, <1>3, ReplacedFields
<1>5. PICK x \in {<<"matched", g.next>>, <<"replaced", g.next>>} : r.output = Append(g.output, x)
  BY <1>1, <1>3, ReplacedFields
<1>6. g.next \in Nat /\ g.total \in Nat
  BY <1>1, GsubFields
<1>7. OutputOf(r, r.output)
  BY <1>1, <1>2, <1>4, <1>5, <1>6, OutputGrows
<1>8. r.next > 0 /\ r.next - 1 <= r.total
  BY <1>1, <1>4, <1>6
<1>9. Between(r)
  BY <1>3, <1>7, <1>8 DEF Between
<1> QED
  BY <1>3, <1>9, GsubKeeps DEF GsubAnswered

GsubInvariant(g) == g.phase = "idle" \/ Waiting(g)

LEMMA StartGsubKeeps ==
    ASSUME StartGsub
    PROVE  GsubInvariant(gsub')
<1>1. PICK n \in 0..Matches, table \in BOOLEAN, handler \in BOOLEAN :
         gsub' = Gsub([NoGsub EXCEPT !.total = n, !.table = table, !.handler = handler])
  BY DEF StartGsub
<1>7. n \in Nat
  BY LibraryAssumption
<1>2. PICK r : r = [NoGsub EXCEPT !.total = n, !.table = table, !.handler = handler]
  OBVIOUS
<1>3. r = [phase |-> "idle", next |-> 1, total |-> n, table |-> table,
           handler |-> handler, output |-> <<>>]
  BY <1>2 DEF NoGsub
<1>4. r \in GsubState /\ r.next = 1 /\ r.output = <<>> /\ r.total \in Nat
  BY <1>3, <1>7 DEF GsubState
<1>5. OutputOf(r, r.output)
  BY <1>4 DEF OutputOf
<1>6. Between(r)
  BY <1>4, <1>5 DEF Between
<1> QED
  BY <1>1, <1>2, <1>6, GsubKeeps DEF GsubInvariant

LEMMA GsubIsExact == GsubInvariant(gsub) => GsubReplacesEachOnce
<1> SUFFICES ASSUME Waiting(gsub) PROVE GsubReplacesEachOnce
  BY DEF GsubInvariant, GsubReplacesEachOnce
<1>1. gsub \in GsubState /\ gsub.next > 0 /\ gsub.next \in Nat /\ gsub.total \in Nat
  BY GsubFields DEF Waiting
<1>2. PICK out \in Seq(Pieces) :
         /\ OutputOf(gsub, out)
         /\ \/ /\ gsub.phase = "calling" /\ gsub.next <= gsub.total
               /\ gsub.output = Append(out, <<"prefix", gsub.next>>)
            \/ /\ gsub.phase = "complete" /\ gsub.next - 1 = gsub.total
               /\ gsub.output = Append(out, <<"suffix", 0>>)
  BY DEF Waiting
<1>3. PICK m \in Nat : m = 2 * (gsub.next - 1)
  BY <1>1
<1>4. PICK last \in {"prefix", "suffix"} :
         last = IF gsub.phase = "calling" THEN "prefix" ELSE "suffix"
  OBVIOUS
<1>5. PICK x \in Pieces : gsub.output = Append(out, x) /\ x[1] = last
  <2>1. /\ <<"prefix", gsub.next>> \in Pieces /\ <<"suffix", 0>> \in Pieces
        /\ <<"prefix", gsub.next>>[1] = "prefix" /\ <<"suffix", 0>>[1] = "suffix"
    BY <1>1 DEF Pieces
  <2> QED
    BY <1>2, <1>4, <2>1
<1>6. /\ Len(out) = m
      /\ \A i \in 1..m : /\ out[i][2] = (i + 1) \div 2
                         /\ IF i % 2 = 1 THEN out[i][1] = "prefix"
                            ELSE out[i][1] \in {"matched", "replaced"}
  BY <1>2, <1>3 DEF OutputOf
<1>7. PICK q \in Seq(Pieces) : q = gsub.output
  BY <1>5, Appended
<1>8. Len(q) = m + 1 /\ q[m + 1] = x /\ \A i \in 1..m : q[i] = out[i]
  BY <1>5, <1>6, <1>7, Appended
<1> DEFINE done == [i \in 1..m |-> IF i % 2 = 1 THEN "prefix" ELSE "match"]
           kind == [i \in DOMAIN q |-> IF q[i][1] \in {"matched", "replaced"} THEN "match"
                                       ELSE q[i][1]]
<1>9. kind = Append(done, last)
  <2>1. DOMAIN q = 1..m + 1
    BY <1>7, <1>8
  <2>2. done \in Seq({"prefix", "match"}) /\ Len(done) = m
    BY <1>3
  <2>3. PICK a : a = Append(done, last)
    OBVIOUS
  <2>4. DOMAIN a = 1..m + 1 /\ a[m + 1] = last /\ a = [i \in 1..m + 1 |-> a[i]]
    BY <2>2, <2>3
  <2>5. \A i \in 1..m : a[i] = done[i]
    BY <2>2, <2>3
  <2>6. \A i \in 1..m + 1 : kind[i] = a[i]
    <3> TAKE i \in 1..m + 1
    <3>1. CASE i \in 1..m
      <4>1. a[i] = IF i % 2 = 1 THEN "prefix" ELSE "match"
        BY <2>5, <3>1
      <4>2. kind[i] = IF out[i][1] \in {"matched", "replaced"} THEN "match" ELSE out[i][1]
        BY <1>8, <2>1, <3>1
      <4>3. IF i % 2 = 1 THEN out[i][1] = "prefix" ELSE out[i][1] \in {"matched", "replaced"}
        BY <1>6, <3>1
      <4> HIDE DEF kind, done
      <4> QED
        BY <4>1, <4>2, <4>3
    <3>2. CASE i = m + 1
      <4>1. kind[i] = IF x[1] \in {"matched", "replaced"} THEN "match" ELSE x[1]
        BY <1>8, <2>1, <3>2
      <4> HIDE DEF kind, done
      <4> QED
        BY <1>5, <2>4, <3>2, <4>1
    <3>3. i \in 1..m \/ i = m + 1
      BY <1>3
    <3> QED
      BY <3>1, <3>2, <3>3
  <2>7. kind = [i \in 1..m + 1 |-> kind[i]]
    BY <2>1
  <2> HIDE DEF kind, done
  <2> QED
    BY <2>3, <2>4, <2>6, <2>7
<1>10. \A i \in 1..m : gsub.output[i][2] = (i + 1) \div 2
  BY <1>6, <1>7, <1>8
<1>11. gsub.phase = "complete" => gsub.next - 1 = gsub.total
  BY <1>2
<1> QED
  BY <1>3, <1>4, <1>7, <1>9, <1>10, <1>11 DEF GsubReplacesEachOnce

-----------------------------------------------------------------------------
(* require. *)

ModulesInvariant ==
    /\ DOMAIN loaded = Modules /\ DOMAIN required = Modules
    /\ loaders \in Seq(Modules)
    /\ ModulesAgree

LEMMA RequireKeeps ==
    ASSUME ModulesInvariant, NEW m \in Modules, Require(m)
    PROVE  ModulesInvariant'
<1>1. loaders' \in Seq(Modules)
  BY DEF ModulesInvariant, Require
<1>2. DOMAIN loaded' = Modules /\ DOMAIN required' = Modules
  BY DEF ModulesInvariant, Require
<1>3. ASSUME NEW k \in Modules, required'[k] # Nil
      PROVE  loaded'[k] = required'[k]
  BY <1>3 DEF ModulesInvariant, ModulesAgree, Require
<1> QED
  BY <1>1, <1>2, <1>3 DEF ModulesInvariant, ModulesAgree

LEMMA StoreKeeps ==
    ASSUME ModulesInvariant, NEW m \in Modules, NEW v, Store(m, v)
    PROVE  ModulesInvariant'
BY DEF ModulesInvariant, ModulesAgree, Store

LEMMA ReturnKeeps ==
    ASSUME ModulesInvariant, LoaderReturns
    PROVE  ModulesInvariant'
<1>1. loaders \in Seq(Modules) /\ loaders # <<>>
  BY DEF ModulesInvariant, LoaderReturns
<1>2. PICK m \in Modules : m = loaders[Len(loaders)]
  BY <1>1
<1>3. PICK v \in Export \cup Missing : FinishRequire(m, v)
  BY <1>2 DEF LoaderReturns
<1>4. PICK x : /\ loaded' = [loaded EXCEPT ![m] = x]
               /\ required' = [required EXCEPT ![m] = loaded'[m]]
  BY <1>3 DEF FinishRequire
<1>5. loaders' \in Seq(Modules)
  BY <1>1 DEF LoaderReturns
<1> QED
  BY <1>4, <1>5 DEF ModulesInvariant, ModulesAgree

LEMMA FailureKeeps ==
    ASSUME ModulesInvariant, LoaderFails
    PROVE  ModulesInvariant'
<1>1. loaders' \in Seq(Modules)
  BY DEF ModulesInvariant, LoaderFails
<1> QED
  BY <1>1 DEF ModulesInvariant, ModulesAgree, LoaderFails

-----------------------------------------------------------------------------
(* The library and the table it works on. *)

LibraryInvariant ==
    /\ TableInvariant
    /\ SortInvariant(sort)
    /\ GsubInvariant(gsub)
    /\ ModulesInvariant

LEMMA LibraryBegins == Init => LibraryInvariant
<1> SUFFICES ASSUME Init PROVE LibraryInvariant
  OBVIOUS
<1>1. TableInvariant
  BY InitHolds DEF Init
<1>2. SortInvariant(sort)
  BY NoSortInvariant DEF Init
<1>3. GsubInvariant(gsub)
  BY DEF Init, GsubInvariant, NoGsub
<1>4. ModulesInvariant
  BY DEF Init, ModulesInvariant, ModulesAgree
<1> QED
  BY <1>1, <1>2, <1>3, <1>4 DEF LibraryInvariant

\* Only the program and the commit of a sort change the table, by its operations.
LEMMA ProgramIsTable == Program => TableNext
<1> SUFFICES ASSUME Program PROVE TableNext
  OBVIOUS
<1>1. ASSUME NEW k \in Numbers, NEW v \in Value \cup {Nil}, Assign(k, v)
      PROVE  TableNext
  BY <1>1 DEF TableNext, Numbers
<1>2. ASSUME NEW k \in Key, NEW v \in {Plain, Nil}, Assign(k, v)
      PROVE  TableNext
  BY <1>2, LibraryAssumption DEF TableNext
<1>3. ASSUME NEW k \in Key, Sweep(k)
      PROVE  TableNext
  BY <1>3 DEF TableNext
<1>4. ASSUME NEW w \in Walks, Begin(w) \/ Step(w) \/ Leave(w)
      PROVE  TableNext
  BY <1>4 DEF TableNext
<1> QED
  BY <1>1, <1>2, <1>3, <1>4 DEF Program

LEMMA LibrarySteps ==
    LibraryInvariant /\ [Next]_vars => LibraryInvariant' /\ [TableNext]_tableVars
<1> SUFFICES ASSUME LibraryInvariant, [Next]_vars
             PROVE  LibraryInvariant' /\ [TableNext]_tableVars
  OBVIOUS
<1>1. /\ TableInvariant /\ SortInvariant(sort) /\ GsubInvariant(gsub) /\ ModulesInvariant
  BY DEF LibraryInvariant
<1> USE DEF tableVars
<1>2. ASSUME [TableNext]_tableVars, SortInvariant(sort'), GsubInvariant(gsub'), ModulesInvariant'
      PROVE  LibraryInvariant' /\ [TableNext]_tableVars
  BY <1>1, <1>2, NextHolds DEF LibraryInvariant
<1>3. UNCHANGED sort => SortInvariant(sort')
  BY <1>1
<1>4. UNCHANGED gsub => GsubInvariant(gsub')
  BY <1>1
<1>5. UNCHANGED <<loaded, loaders, required>> => ModulesInvariant'
  BY <1>1 DEF ModulesInvariant, ModulesAgree
<1>6. CASE Program
  BY <1>2, <1>3, <1>4, <1>5, <1>6, ProgramIsTable DEF Program, libraryVars
<1>7. CASE StartSort
  <2>1. tab \in Proper
    BY <1>1 DEF TableInvariant
  <2>2. SortInvariant(sort')
    BY <1>7, <2>1, StartSortKeeps
  <2> QED
    BY <1>2, <1>4, <1>5, <1>7, <2>2 DEF StartSort
<1>8. CASE StartGsub
  BY <1>2, <1>3, <1>5, <1>8, StartGsubKeeps DEF StartGsub
<1>9. CASE Compare
  <2>1. SortInvariant(sort')
    BY <1>1, <1>9, CompareKeeps
  <2> QED
    BY <1>2, <1>4, <1>5, <1>9, <2>1 DEF Compare
<1>10. CASE CompareFails
  BY <1>2, <1>4, <1>5, <1>10, NoSortInvariant DEF CompareFails
<1>11. CASE SortFailed
  BY <1>2, <1>4, <1>5, <1>11, NoSortInvariant DEF SortFailed
<1>12. CASE Commit
  <2>1. SortInvariant(sort')
    BY <1>1, <1>12, CommitKeeps
  <2>2. [TableNext]_tableVars
    BY <1>1, <1>12, CommitKeeps DEF TableNext
  <2> QED
    BY <1>2, <1>4, <1>5, <1>12, <2>1, <2>2 DEF Commit
<1>13. CASE Replace
  <2>1. PICK v \in Value \cup {Nil} : gsub' = GsubAnswered(gsub, v)
    BY <1>13 DEF Replace
  <2>2. Waiting(gsub) /\ gsub.phase = "calling"
    BY <1>1, <1>13 DEF Replace, GsubInvariant
  <2>3. GsubInvariant(gsub')
    BY <2>1, <2>2, AnswerKeeps DEF GsubInvariant
  <2> QED
    BY <1>2, <1>3, <1>5, <1>13, <2>3 DEF Replace
<1>14. CASE EndGsub
  <2>1. GsubInvariant(gsub')
    BY <1>14 DEF EndGsub, GsubInvariant, NoGsub
  <2> QED
    BY <1>2, <1>3, <1>5, <1>14, <2>1 DEF EndGsub
<1>15. ASSUME NEW m \in Modules, Require(m) \/ (\E v \in Export \cup Missing : Store(m, v))
       PROVE  LibraryInvariant' /\ [TableNext]_tableVars
  <2>1. ModulesInvariant'
    BY <1>1, <1>15, RequireKeeps, StoreKeeps
  <2>2. UNCHANGED <<tab, walk, sort, gsub>>
    BY <1>15 DEF Require, Store
  <2> QED
    BY <1>2, <1>3, <1>4, <2>1, <2>2
<1>16. CASE LoaderReturns
  BY <1>1, <1>2, <1>3, <1>4, <1>16, ReturnKeeps DEF LoaderReturns
<1>17. CASE LoaderFails
  BY <1>1, <1>2, <1>3, <1>4, <1>17, FailureKeeps DEF LoaderFails
<1>18. CASE UNCHANGED vars
  BY <1>2, <1>3, <1>4, <1>5, <1>18 DEF vars
<1> QED
  BY <1>6, <1>7, <1>8, <1>9, <1>10, <1>11, <1>12, <1>13, <1>14, <1>15, <1>16, <1>17, <1>18
  DEF Next

\* The inductive invariant of the library: of a table, of a sort at whatever turn
\* of its loop it waits, of a substitution and of package.loaded.
THEOREM LibraryKeepsInvariant == Spec => []LibraryInvariant
<1>1. QED
  BY LibraryBegins, LibrarySteps, PTL DEF Spec

\* SortSorts: for a table of any length, whatever the comparison answers and does to
\* the table meanwhile, table.sort writes back a permutation of what it read; if the
\* comparison tells the truth, that is sorted and nothing is refused.
THEOREM SortingSorts == Spec => []SortSorts
<1>1. SortInvariant(sort) => SortSorts
  <2> SUFFICES ASSUME SortInvariant(sort), sort.phase \in {"commit", "failed"}
               PROVE  /\ SameValues(sort)
                      /\ Clean(sort) => sort.phase = "commit" /\ Sorted(sort)
    BY DEF SortSorts, SameValues, Clean, Sorted
  <2> QED
    BY DEF SortInvariant, Sound, Kernel
<1> QED
  BY <1>1, LibraryKeepsInvariant, PTL DEF LibraryInvariant

\* GsubReplacesEachOnce: for any number of matches, the output of string.gsub names
\* each match so far once and in order, with callbacks or with a table that answers.
THEOREM SubstitutionReplacesEachOnce == Spec => []GsubReplacesEachOnce
<1>1. LibraryInvariant => GsubReplacesEachOnce
  BY GsubIsExact DEF LibraryInvariant
<1> QED
  BY <1>1, LibraryKeepsInvariant, PTL

\* ModulesAgree: require goes on returning what it returned, however many loaders
\* run inside each other, fail or store values of their own.
THEOREM RequireIsStable == Spec => []ModulesAgree
<1>1. LibraryInvariant => ModulesAgree
  BY DEF LibraryInvariant, ModulesInvariant
<1> QED
  BY <1>1, LibraryKeepsInvariant, PTL

\* A sort that writes its copy back, and Lua code that runs while it waits, do to the
\* table only what LuaTable allows: so it remains a dictionary under all of them.
THEOREM LibraryUsesTable == Spec => TableSpec /\ TableIsDictionary
<1>1. Init => TableInit
  BY DEF Init
<1>2. LibraryInvariant /\ [Next]_vars => [TableNext]_tableVars
  BY LibrarySteps
<1>3. Spec => TableSpec
  BY <1>1, <1>2, LibraryKeepsInvariant, PTL DEF Spec, TableSpec
<1> QED
  BY <1>3, TableImplementsDictionary, PTL

\* The same for the length that a sort takes its copy up to, and for the order.
THEOREM LibraryLengthsAreBorders ==
    ASSUME ShortKeys
    PROVE  Spec => []LengthIsBorder /\ []OrderIsIndexed
<1> QED
  BY LibraryUsesTable, LengthsAreBorders, TableOrderIsIndexed, PTL
=============================================================================
