------------------------------ MODULE LuaTable ------------------------------
(***************************************************************************)
(* A Lua table as lua_core stores it: a vector for the keys                *)
(* 1..MaxArrayIndex, a hash map for all other keys, and beside the map the *)
(* order in which next visits its keys.  A removed key stays in that order *)
(* as a tombstone, so that a traversal can go on from it, until the order  *)
(* is rebuilt by an insertion.                                             *)
(*                                                                         *)
(* The program assigns and traverses; the collector removes entries of     *)
(* weak tables.  The variables walk.seen and walk.loose record history for *)
(* the comparison with Dictionary.                                         *)
(***************************************************************************)
EXTENDS Integers, Sequences, FiniteSets, FiniteSetsExt, Functions

CONSTANTS
    MaxArrayIndex,  \* MAX_ARRAY_INDEX
    MinCompaction,  \* MIN_HASH_ORDER_COMPACTION
    MaxInteger,     \* i32::MAX, the bound of the search for a length
    HashKey,        \* every other key: strings, objects, numbers
    PosZero,        \* 0 and
    NegZero,        \* -0, one key to the program
    Value, Nil,
    Walks           \* traversals that may be going on

ASSUME TableAssumption ==
    /\ MaxArrayIndex \in Nat \ {0} /\ MinCompaction \in Nat /\ MaxInteger \in Nat
    /\ HashKey \cap (1..MaxArrayIndex) = {} /\ 0 \notin HashKey
    /\ PosZero # NegZero /\ PosZero \in HashKey /\ NegZero \in HashKey
    /\ Nil \notin Value /\ Nil \notin HashKey /\ Nil \notin 1..MaxArrayIndex

VARIABLES
    tab,      \* the Table: array, order, positions, hash
    walk      \* [Walks -> the state of a traversal]

tableVars == <<tab, walk>>

ArrayKey == 1..MaxArrayIndex
Key == ArrayKey \cup HashKey

-----------------------------------------------------------------------------
(* Reading and writing. *)

EmptyTable == [array |-> <<>>, order |-> <<>>, positions |-> <<>>, hash |-> <<>>]

(* normalize_zero_key: the sign that was registered first stands for both *)
Normal(t, k) ==
    IF k \notin {PosZero, NegZero} THEN k
    ELSE IF PosZero \in DOMAIN t.positions THEN PosZero
    ELSE IF NegZero \in DOMAIN t.positions THEN NegZero
    ELSE k

Get(t, key) ==
    LET k == Normal(t, key)
    IN  IF k \in ArrayKey THEN IF k \in DOMAIN t.array THEN t.array[k] ELSE Nil
        ELSE IF k \in DOMAIN t.hash THEN t.hash[k] ELSE Nil

(* Mutant: a removed key leaves the order of traversal. *)
RemoveFromOrder(t, key) ==
    LET k == Normal(t, key)
    IN  IF k \in ArrayKey
        THEN IF k \in DOMAIN t.array THEN [t EXCEPT !.array[k] = Nil] ELSE t
        ELSE [t EXCEPT !.hash = Restrict(@, DOMAIN @ \ {k}),
                       !.positions = Restrict(@, DOMAIN @ \ {k})]
Remove(t, key) ==
    LET k == Normal(t, key)
    IN  IF k \in ArrayKey
        THEN IF k \in DOMAIN t.array THEN [t EXCEPT !.array[k] = Nil] ELSE t
        ELSE [t EXCEPT !.hash = Restrict(@, DOMAIN @ \ {k})]

(* set_array grows the vector up to the index, with nil in between *)
SetArray(t, i, v) ==
    [t EXCEPT !.array = [j \in 1..Max({i, Len(@)}) |->
        IF j = i THEN v ELSE IF j <= Len(t.array) THEN t.array[j] ELSE Nil]]

(* compact_hash_order_for_insert keeps the live keys in their order: the new
   position of a key is its rank among them *)
Rank(t, k) == Cardinality({j \in DOMAIN t.hash : t.positions[j] <= t.positions[k]})
(* Mutant: the positions of the keys that stay are not computed anew. *)
CompactKeepsPositions(t) ==
    LET live == DOMAIN t.hash
        dead == Len(t.order) - Cardinality(live)
    IN  IF Len(t.order) < MinCompaction \/ dead <= Cardinality(live) THEN t
        ELSE [t EXCEPT !.order = [i \in 1..Cardinality(live) |->
                                    CHOOSE k \in live : Rank(t, k) = i],
                       !.positions = Restrict(@, live)]
Compact(t) ==
    LET live == DOMAIN t.hash
        dead == Len(t.order) - Cardinality(live)
    IN  IF Len(t.order) < MinCompaction \/ dead <= Cardinality(live) THEN t
        ELSE [t EXCEPT !.order = [i \in 1..Cardinality(live) |->
                                    CHOOSE k \in live : Rank(t, k) = i],
                       !.positions = [k \in live |-> Rank(t, k)]]

Registered(t, k) ==
    IF k \in DOMAIN t.positions THEN t
    ELSE LET c == Compact(t)
         IN  [c EXCEPT !.order = Append(@, k),
                       !.positions = [j \in DOMAIN @ \cup {k} |->
                                        IF j = k THEN Len(c.order) + 1 ELSE @[j]]]

Set(t, key, v) ==
    LET k == Normal(t, key)
    IN  IF v = Nil THEN Remove(t, k)
        ELSE IF k \in ArrayKey THEN SetArray(t, k, v)
        ELSE [Registered(t, k) EXCEPT
                !.hash = [j \in DOMAIN @ \cup {k} |-> IF j = k THEN v ELSE @[j]]]

-----------------------------------------------------------------------------
(* Length: a border, found by bisection. *)

Filled(t, i) == i <= MaxInteger /\ Get(t, i) # Nil

(* low is filled or 0, high is empty *)
Bisect(t, low, high) ==
    LET border[p \in Nat \X Nat] ==
            LET l == p[1]  h == p[2]
                mid == l + (h - l) \div 2
            IN  IF h - l <= 1 THEN l
                ELSE border[IF Filled(t, mid) THEN <<mid, h>> ELSE <<l, mid>>]
    IN  border[<<low, high>>]

(* beyond the vector an empty index is searched by doubling *)
Unbound(t, low, high) ==
    LET search[p \in Nat \X Nat] ==
            LET l == p[1]  h == p[2]
            IN  IF ~ Filled(t, h) THEN Bisect(t, l, h)
                ELSE IF h > MaxInteger \div 2 THEN h
                ELSE search[<<h, 2 * h>>]
    IN  search[<<low, high>>]

(* Mutant: a full vector is taken for the whole array. *)
LengthOfVector(t) ==
    LET n == Len(t.array)
    IN  IF n > 0 /\ ~ Filled(t, n) THEN Bisect(t, 0, n) ELSE n
Length(t) ==
    LET n == Len(t.array)
    IN  IF n > 0 /\ ~ Filled(t, n) THEN Bisect(t, 0, n)
        ELSE IF n > 0 /\ ~ Filled(t, n + 1) THEN n
        ELSE Unbound(t, n, IF n = 0 THEN 1 ELSE 2 * n)

-----------------------------------------------------------------------------
(* Traversal: the vector, then the map in its order. *)

Found(k) == [is |-> "key", key |-> k]
Nothing(is) == [is |-> is, key |-> Nil]

NextHash(t, from) ==
    LET live == {i \in from..Len(t.order) : t.order[i] \in DOMAIN t.hash}
    IN  IF live = {} THEN Nothing("end") ELSE Found(t.order[Min(live)])

NextFrom(t, i) ==
    LET live == {j \in i + 1..Len(t.array) : t.array[j] # Nil}
    IN  IF live = {} THEN NextHash(t, 1) ELSE Found(Min(live))

TryNext(t, key) ==
    LET k == Normal(t, key)
    IN  IF k = Nil THEN NextFrom(t, 0)
        ELSE IF k \in ArrayKey
             THEN IF k \in DOMAIN t.array THEN NextFrom(t, k) ELSE Nothing("invalid")
        ELSE IF k \in DOMAIN t.positions THEN NextHash(t, t.positions[k] + 1)
        ELSE Nothing("invalid")

-----------------------------------------------------------------------------
(* Actions. *)

(* the key as the program knows it *)
Same(k) == IF k = NegZero THEN PosZero ELSE k

Stopped(how) == [phase |-> how, cursor |-> Nil, seen |-> {}, loose |-> FALSE]
Going == {w \in Walks : walk[w].phase = "going"}

(* what an assignment means for the traversals that are going on *)
Disturbed(k, v) ==
    [w \in Walks |-> [walk[w] EXCEPT !.loose = @ \/ /\ w \in Going /\ v # Nil
                                                     /\ Get(tab, k) = Nil]]

Assign(k, v) ==
    /\ tab' = Set(tab, k, v)
    /\ walk' = Disturbed(k, v)

(* the collector removes a dead entry of a weak table *)
Sweep(k) ==
    /\ tab' = IF k \in DOMAIN tab.array THEN SetArray(tab, k, Nil) ELSE Remove(tab, k)
    /\ UNCHANGED walk

(* pairs, next or table.foreach; a loop may be left early and begin again *)
Begin(w) ==
    /\ walk[w].phase = "idle"
    /\ walk' = [walk EXCEPT ![w].phase = "going"]
    /\ UNCHANGED tab

(* one call of next; an unknown key is an error of next and the end for
   table.foreach *)
Step(w) ==
    /\ w \in Going
    /\ LET n == TryNext(tab, walk[w].cursor)
       IN  \/ /\ n.is = "key"
              /\ walk' = [walk EXCEPT ![w].cursor = n.key,
                                      ![w].seen = @ \cup {Same(n.key)}]
           \/ /\ n.is # "key"
              /\ walk' = [walk EXCEPT ![w] = Stopped("over")]
           \/ /\ n.is = "invalid"
              /\ walk' = [walk EXCEPT ![w] = Stopped("failed")]
    /\ UNCHANGED tab

Leave(w) ==
    /\ walk' = [walk EXCEPT ![w] = Stopped("idle")]
    /\ UNCHANGED tab

TableInit ==
    /\ tab = EmptyTable
    /\ walk = [w \in Walks |-> Stopped("idle")]

TableNext ==
    \/ \E k \in Key, v \in Value \cup {Nil} : Assign(k, v)
    \/ \E k \in Key : Sweep(k)
    \/ \E w \in Walks : Begin(w) \/ Step(w) \/ Leave(w)

TableSpec == TableInit /\ [][TableNext]_tableVars

-----------------------------------------------------------------------------
(* Properties. *)

Lua == INSTANCE Dictionary WITH
    Key <- Key \ {NegZero},
    entries <- [k \in Key \ {NegZero} |-> Get(tab, k)],
    phase <- [w \in Walks |-> walk[w].phase],
    seen <- [w \in Walks |-> walk[w].seen],
    loose <- {w \in Walks : walk[w].loose}

(* The two parts, the tombstones and the rebuilt order are invisible: a key has
   the value assigned last, 0 and -0 are one key, and a traversal that no new key
   disturbs visits every entry exactly once and never fails, whatever the loop
   body and the collector update or remove (table.rs try_next). *)
TableIsDictionary == Lua!Spec

(* The map and the order belong together: a position for every key in the order
   and for no other, and every key of the map is in the order. *)
OrderIsIndexed ==
    /\ DOMAIN tab.hash \subseteq DOMAIN tab.positions
    /\ \A k \in DOMAIN tab.positions :
          tab.positions[k] \in DOMAIN tab.order /\ tab.order[tab.positions[k]] = k
    /\ \A i \in DOMAIN tab.order :
          tab.order[i] \in DOMAIN tab.positions /\ tab.positions[tab.order[i]] = i
    /\ ~ {PosZero, NegZero} \subseteq DOMAIN tab.positions

(* #t is a border of the table, also where the keys of the map go on behind the
   vector. *)
LengthIsBorder ==
    LET n == Length(tab)
    IN  (n = 0 \/ Get(tab, n) # Nil) /\ Get(tab, n + 1) = Nil
=============================================================================
