-------------------------- MODULE LibraryCallbacks --------------------------
(***************************************************************************)
(* Library functions that lua_vm suspends while Lua code runs for them:    *)
(* table.sort in its comparison, string.gsub in its replacement, require   *)
(* in the loader.  Their state waits in a callback frame; what it means to *)
(* go on with it is modelled here, how the frames nest is Scheduler's.     *)
(* The Lua code may meanwhile do to the table whatever LuaTable allows.    *)
(***************************************************************************)
EXTENDS LuaTable

CONSTANTS
    Matches,     \* bound: the most matches of one string.gsub
    Modules,     \* module names
    Loads,       \* bound: the most loaders that run inside each other
    False, True, \* false and true as values
    Export,      \* values that loaders return and programs store
    Plain        \* bound: the value of an entry whose key is no number

ASSUME LibraryAssumption ==
    /\ Value \subseteq Int /\ Plain \in Value /\ Matches \in Nat
    /\ \A k \in Key \cap Nat : 1..k \subseteq Key   \* sort writes all keys up to a length
    /\ {Nil, False, True} \cap Export = {} /\ Cardinality({Nil, False, True}) = 3

VARIABLES
    sort,     \* TableSortState
    gsub,     \* GsubState
    loaded,   \* package.loaded: [Modules -> value]
    loaders,  \* the modules whose loaders run, the innermost last
    required  \* [Modules -> what require returned last], Nil if nothing or unloaded

libraryVars == <<sort, gsub, loaded, loaders, required>>
vars == <<tab, walk, sort, gsub, loaded, loaders, required>>

-----------------------------------------------------------------------------
(* table.sort: a merge sort of a copy, written back when it is complete.     *)
(* first, second and output are indices into values and scratch, middle and  *)
(* right the ends of the two runs.                                           *)

Size(s) == Len(s.values)

(* table_sort_merge_stage *)
Run(n, width, left) ==
    [width |-> width,
     middle |-> Min({left + width, n + 1}), right |-> Min({left + 2 * width, n + 1}),
     left |-> left, first |-> left, second |-> Min({left + width, n + 1}), output |-> left]

(* table_sort_take_merge_value, and the copying of what is left of one run *)
Taken(s, fromSecond) ==
    LET r == s.run
        source == IF fromSecond THEN r.second ELSE r.first
    IN  [s EXCEPT !.scratch[r.output] = s.values[source],
                  !.run = [r EXCEPT !.output = @ + 1,
                                    !.first = IF fromSecond THEN @ ELSE @ + 1,
                                    !.second = IF fromSecond THEN @ + 1 ELSE @]]

(* Mutant: a run of half the size is taken for the whole. *)
NextPassTooWide(s) ==
    LET n == Size(s)
        swapped == [s EXCEPT !.values = s.scratch, !.scratch = s.values]
    IN  IF s.run.width >= n \div 2 THEN [swapped EXCEPT !.stage = "complete"]
        ELSE [swapped EXCEPT !.run = Run(n, 2 * s.run.width, 1)]
(* a pass is over: its output becomes the input of the next one *)
NextPass(s) ==
    LET n == Size(s)
        swapped == [s EXCEPT !.values = s.scratch, !.scratch = s.values]
    IN  IF s.run.width > n \div 2 \/ 2 * s.run.width >= n
        THEN [swapped EXCEPT !.stage = "complete"]
        ELSE [swapped EXCEPT !.run = Run(n, 2 * s.run.width, 1)]

(* TableSortState; the runs lie inside of the copy *)
SortState ==
    LET List == Seq(Value \cup {Nil})
        Index == Nat \ {0}
    IN  {s \in [phase : {"idle", "calling", "commit", "failed"},
                stage : {"validate", "merge", "complete"},
                pending : {"none", "ValidatePrimary", "ValidateReverse",
                           "MergePrimary", "MergeReverse"},
                custom : BOOLEAN, metamethod : BOOLEAN, honest : BOOLEAN,
                values : List, scratch : List, given : List, index : Index,
                run : [width : Index, middle : Index, right : Index, left : Index,
                       first : Index, second : Index, output : Index]] :
            /\ Len(s.scratch) = Size(s)
            /\ s.run.middle <= Size(s) + 1 /\ s.run.right <= Size(s) + 1}

(* one turn of the loop of advance_table_sort_state *)
Turn(s) ==
    LET n == Size(s)
        r == s.run
        both == r.first < r.middle /\ r.second < r.right
        lhs == s.values[r.second]
        rhs == s.values[r.first]
        wait == [s EXCEPT !.phase = "calling"]
    IN  CASE s.stage = "validate" ->
                IF s.custom /\ s.index <= n THEN [wait EXCEPT !.pending = "ValidatePrimary"]
                ELSE IF n < 2 THEN [s EXCEPT !.stage = "complete"]
                ELSE [s EXCEPT !.stage = "merge", !.run = Run(n, 1, 1)]
          [] s.stage = "complete" -> [s EXCEPT !.phase = "commit", !.index = 1]
          [] s.stage = "merge" /\ both ->
                IF s.custom THEN [wait EXCEPT !.pending = "MergePrimary"]
                ELSE IF {lhs, rhs} \subseteq Value THEN Taken(s, lhs < rhs)
                ELSE IF s.metamethod THEN [wait EXCEPT !.pending = "MergePrimary"]
                ELSE [s EXCEPT !.phase = "failed"]
          [] s.stage = "merge" /\ ~ both ->
                IF r.first < r.middle THEN Taken(s, FALSE)
                ELSE IF r.second < r.right THEN Taken(s, TRUE)
                ELSE IF r.left + 2 * r.width <= n
                     THEN [s EXCEPT !.run = Run(n, r.width, r.left + 2 * r.width)]
                ELSE NextPass(s)

(* synchronous work up to the next comparison in Lua, the end, or an error *)
Halted(s) == s.pending # "none" \/ s.phase \in {"commit", "failed"}
Advance(s) ==
    LET loop[t \in SortState] == IF Halted(t) THEN t ELSE loop[Turn(t)]
    IN  loop[s]

NoSort == [phase |-> "idle", stage |-> "validate", pending |-> "none", custom |-> FALSE,
           metamethod |-> FALSE, values |-> <<>>, scratch |-> <<>>, index |-> 1,
           run |-> Run(0, 1, 1), given |-> <<>>, honest |-> TRUE]

(* invoke_table_sort_runtime_native: the copy is taken up to the length *)
StartSort ==
    /\ sort.phase = "idle"
    /\ LET n == Length(tab)
           copy == [i \in 1..n |-> Get(tab, i)]
       IN  \E custom, metamethod \in BOOLEAN :
              sort' = Advance([NoSort EXCEPT
                        !.custom = custom, !.metamethod = metamethod, !.values = copy,
                        !.scratch = [i \in 1..n |-> Nil], !.given = copy])
    /\ UNCHANGED <<tab, walk, gsub, loaded, loaders, required>>

(* the two values that the pending comparison was called with *)
Compared(s) ==
    CASE s.pending \in {"ValidatePrimary", "ValidateReverse"} ->
            <<s.values[s.index], s.values[s.index]>>
      [] s.pending = "MergePrimary" -> <<s.values[s.run.second], s.values[s.run.first]>>
      [] s.pending = "MergeReverse" -> <<s.values[s.run.first], s.values[s.run.second]>>
Truth(pair) == {pair[1], pair[2]} \subseteq Value /\ pair[1] < pair[2]

(* the comparison returned; a positive answer of a comparator is checked by the
   reverse question *)
Compare ==
    /\ sort.phase = "calling"
    /\ \E answer \in BOOLEAN :
          LET s == [sort EXCEPT !.pending = "none",
                                !.honest = @ /\ answer = Truth(Compared(sort))]
              refused == [s EXCEPT !.phase = "failed"]
          IN  sort' =
                CASE sort.pending = "ValidatePrimary" ->
                        IF answer THEN [s EXCEPT !.pending = "ValidateReverse"]
                        ELSE Advance([s EXCEPT !.index = @ + 1])
                  [] sort.pending = "ValidateReverse" -> refused
                  [] sort.pending = "MergePrimary" ->
                        IF answer /\ sort.custom THEN [s EXCEPT !.pending = "MergeReverse"]
                        ELSE Advance(Taken(s, answer))
                  [] sort.pending = "MergeReverse" ->
                        IF answer THEN refused ELSE Advance(Taken(s, TRUE))
    /\ UNCHANGED <<tab, walk, gsub, loaded, loaders, required>>

(* the comparison raised an error: the copy is dropped *)
CompareFails ==
    /\ sort.phase = "calling"
    /\ sort' = NoSort
    /\ UNCHANGED <<tab, walk, gsub, loaded, loaders, required>>

(* commit_table_sort, one assignment after the other while nobody else runs *)
Commit ==
    /\ sort.phase = "commit"
    /\ IF sort.index > Size(sort)
       THEN sort' = NoSort /\ UNCHANGED <<tab, walk>>
       ELSE /\ Assign(sort.index, sort.values[sort.index])
            /\ sort' = [sort EXCEPT !.index = @ + 1]
    /\ UNCHANGED <<gsub, loaded, loaders, required>>

SortFailed ==
    /\ sort.phase = "failed"
    /\ sort' = NoSort
    /\ UNCHANGED <<tab, walk, gsub, loaded, loaders, required>>

-----------------------------------------------------------------------------
(* string.gsub with a function or table: the matches are found beforehand,   *)
(* output collects their replacements in order.                              *)

NoGsub == [phase |-> "idle", next |-> 1, total |-> 0, table |-> FALSE,
           handler |-> TRUE, output |-> <<>>]

(* gsub_replacement_bytes: nil and false keep what was matched *)
Replaced(g, v) ==
    [g EXCEPT !.output = Append(@, IF v = Nil THEN <<"matched", g.next>>
                                   ELSE <<"replaced", g.next>>),
              !.next = @ + 1]

(* advance_gsub_state: the text before the match, then the replacement; a table
   answers at once, unless the key is absent and its __index is a function *)
GsubState ==
    [phase : {"idle", "calling", "complete"}, next : Nat, total : Nat,
     table : BOOLEAN, handler : BOOLEAN,
     output : Seq({"prefix", "matched", "replaced", "suffix"} \X Nat)]
Gsub(g) ==
    LET loop[h \in GsubState] ==
            LET before == [h EXCEPT !.output = Append(@, <<"prefix", h.next>>)]
                v == Get(tab, h.next)
            IN  IF h.next > h.total
                THEN [h EXCEPT !.output = Append(@, <<"suffix", 0>>), !.phase = "complete"]
                ELSE IF h.table /\ (v # Nil \/ ~ h.handler) THEN loop[Replaced(before, v)]
                ELSE [before EXCEPT !.phase = "calling"]
    IN  loop[g]
(* Mutant: the text before a match is collected again after its callback. *)
GsubFromMatch(g, v) ==
    Gsub([Replaced(g, v) EXCEPT !.output = Append(@, <<"prefix", g.next>>)])
GsubAnswered(g, v) == Gsub(Replaced(g, v))

StartGsub ==
    /\ gsub.phase = "idle"
    /\ \E n \in 0..Matches, table \in BOOLEAN, handler \in BOOLEAN :
          /\ table \/ handler
          /\ gsub' = Gsub([NoGsub EXCEPT !.total = n, !.table = table, !.handler = handler])
    /\ UNCHANGED <<tab, walk, sort, loaded, loaders, required>>

Replace ==
    /\ gsub.phase = "calling"
    /\ \E v \in Value \cup {Nil} : gsub' = GsubAnswered(gsub, v)
    /\ UNCHANGED <<tab, walk, sort, loaded, loaders, required>>

(* an error, a value that is no string, or the end *)
EndGsub ==
    /\ gsub.phase # "idle"
    /\ gsub' = NoGsub
    /\ UNCHANGED <<tab, walk, sort, loaded, loaders, required>>

-----------------------------------------------------------------------------
(* require. *)

Missing == {Nil, False}

Require(m) ==
    /\ IF loaded[m] \notin Missing
       THEN required' = [required EXCEPT ![m] = loaded[m]] /\ UNCHANGED loaders
       ELSE /\ Len(loaders) < Loads
            /\ loaders' = Append(loaders, m) /\ UNCHANGED required
    /\ UNCHANGED <<tab, walk, sort, gsub, loaded>>

(* Mutant: a value that the loader stored itself is not replaced. *)
FinishKeepsStored(m, v) ==
    LET now == IF v # Nil /\ loaded[m] = Nil THEN v ELSE loaded[m]
    IN  /\ loaded' = [loaded EXCEPT ![m] = IF now = Nil THEN True ELSE now]
        /\ required' = [required EXCEPT ![m] = IF v # Nil THEN v ELSE loaded'[m]]
(* finish_package_require_callback *)
FinishRequire(m, v) ==
    LET now == IF v # Nil THEN v ELSE loaded[m]
    IN  /\ loaded' = [loaded EXCEPT ![m] = IF now = Nil THEN True ELSE now]
        /\ required' = [required EXCEPT ![m] = loaded'[m]]

LoaderReturns ==
    /\ loaders # <<>>
    /\ \E v \in Export \cup Missing : FinishRequire(loaders[Len(loaders)], v)
    /\ loaders' = SubSeq(loaders, 1, Len(loaders) - 1)
    /\ UNCHANGED <<tab, walk, sort, gsub>>

LoaderFails ==
    /\ loaders # <<>>
    /\ loaders' = SubSeq(loaders, 1, Len(loaders) - 1)
    /\ UNCHANGED <<tab, walk, sort, gsub, loaded, required>>

(* package.loaded[m] = v in Lua *)
Store(m, v) ==
    /\ loaded' = [loaded EXCEPT ![m] = v]
    /\ required' = [required EXCEPT ![m] = Nil]
    /\ UNCHANGED <<tab, walk, sort, gsub, loaders>>

-----------------------------------------------------------------------------
(* Bounds: one of the library's jobs at a time; strings, 0 and objects as    *)
(* keys, or a traversal, only while no job runs and every value is Plain;    *)
(* and since package.loaded has nothing to do with the table, only one of    *)
(* the two is in use.                                                        *)

Numbers == Key \cap Nat
Quiet == sort.phase = "idle" /\ gsub.phase = "idle" /\ loaders = <<>>
Unloaded == loaders = <<>> /\ \A m \in Modules : loaded[m] = Nil /\ required[m] = Nil
OnlyNumbers == DOMAIN tab.positions \subseteq Numbers /\ Going = {}
AllPlain == Range(tab.array) \cup Range(tab.hash) \subseteq {Plain, Nil}

(* Lua code, the main program or a callback, and the collector *)
Program ==
    /\ Unloaded
    /\ \/ /\ OnlyNumbers /\ (Quiet \/ sort.phase = "calling" \/ gsub.phase = "calling")
          /\ \E k \in Numbers, v \in Value \cup {Nil} : Assign(k, v)
       \/ /\ Quiet /\ AllPlain
          /\ \/ \E k \in Key, v \in {Plain, Nil} : Assign(k, v)
             \/ \E k \in Key : Sweep(k)
             \/ \E w \in Walks : Begin(w) \/ Step(w) \/ Leave(w)
    /\ UNCHANGED libraryVars

Init ==
    /\ TableInit
    /\ sort = NoSort /\ gsub = NoGsub
    /\ loaded = [m \in Modules |-> Nil]
    /\ loaders = <<>>
    /\ required = [m \in Modules |-> Nil]

Next ==
    \/ Program
    \/ Quiet /\ Unloaded /\ OnlyNumbers /\ (StartSort \/ StartGsub)
    \/ Compare \/ CompareFails \/ Commit \/ SortFailed
    \/ Replace \/ EndGsub
    \/ tab = EmptyTable /\ Going = {} /\ sort.phase = "idle" /\ gsub.phase = "idle"
       /\ (\/ \E m \in Modules : \/ Require(m)
                                 \/ \E v \in Export \cup Missing : Store(m, v)
           \/ LoaderReturns \/ LoaderFails)

Spec == Init /\ [][Next]_vars

-----------------------------------------------------------------------------
(* Properties. *)

Occurrences(s, v) == {i \in DOMAIN s : s[i] = v}

(* Whatever the comparison answers and whatever it does to the table meanwhile,
   what is written back is a permutation of what was read; with a comparison that
   tells the truth it is sorted and the order function is never refused. *)
SortSorts ==
    sort.phase \in {"commit", "failed"} =>
        /\ \A v \in Value \cup {Nil} :
              Cardinality(Occurrences(sort.given, v)) =
                  Cardinality(Occurrences(sort.values, v))
        /\ sort.honest /\ Occurrences(sort.given, Nil) = {} =>
              /\ sort.phase = "commit"
              /\ \A i \in 1..Size(sort) - 1 : sort.values[i] <= sort.values[i + 1]

(* The output names every match found so far once, in order, each behind the text
   before it, and the count that gsub returns is their number. *)
GsubReplacesEachOnce ==
    gsub.phase # "idle" =>
        LET done == [i \in 1..2 * (gsub.next - 1) |->
                        IF i % 2 = 1 THEN "prefix" ELSE "match"]
            kind == [i \in DOMAIN gsub.output |->
                        IF gsub.output[i][1] \in {"matched", "replaced"} THEN "match"
                        ELSE gsub.output[i][1]]
        IN  /\ kind = Append(done, IF gsub.phase = "calling" THEN "prefix" ELSE "suffix")
            /\ \A i \in 1..2 * (gsub.next - 1) : gsub.output[i][2] = (i + 1) \div 2
            /\ gsub.phase = "complete" => gsub.next - 1 = gsub.total

(* What require returned of a module last is what package.loaded holds, until the
   program stores another value: also when the loader stored a value itself,
   required its own module, or failed after that. *)
ModulesAgree ==
    \A m \in Modules : required[m] # Nil => loaded[m] = required[m]
=============================================================================
