----------------------------- MODULE Dictionary -----------------------------
(***************************************************************************)
(* What a Lua table promises its program: a key has the value assigned to  *)
(* it last, and a traversal that no assignment to an absent key disturbs   *)
(* visits every entry exactly once, whatever is updated, removed or swept  *)
(* away on the way, and never fails.                                       *)
(***************************************************************************)
CONSTANTS
    Key,      \* the keys, 0 and -0 being one
    Value,    \* the values other than nil
    Nil,
    Walks     \* the traversals that may be going on

VARIABLES
    entries,  \* [Key -> Value \cup {Nil}]
    phase,    \* [Walks -> "idle", "going", "over" or "failed"]
    seen,     \* [Walks -> the keys that the traversal has visited]
    loose     \* the traversals during which an absent key was assigned

vars == <<entries, phase, seen, loose>>

Present == {k \in Key : entries[k] # Nil}
Going == {w \in Walks : phase[w] = "going"}

Init ==
    /\ entries = [k \in Key |-> Nil]
    /\ phase = [w \in Walks |-> "idle"]
    /\ seen = [w \in Walks |-> {}]
    /\ loose = {}

Assign(k, v) ==
    /\ entries' = [entries EXCEPT ![k] = v]
    /\ loose' = IF k \in Present \/ v = Nil THEN loose ELSE loose \cup Going
    /\ UNCHANGED <<phase, seen>>

Visit(w, k) ==
    /\ w \in Going /\ k \in Present
    /\ w \in loose \/ k \notin seen[w]
    /\ seen' = [seen EXCEPT ![w] = @ \cup {k}]
    /\ UNCHANGED <<entries, phase, loose>>

Stop(w, how) ==
    /\ phase' = [phase EXCEPT ![w] = how]
    /\ seen' = [seen EXCEPT ![w] = {}]
    /\ loose' = loose \ {w}
    /\ UNCHANGED entries

Finish(w) ==
    /\ w \in Going
    /\ w \in loose \/ Present \subseteq seen[w]
    /\ Stop(w, "over")

Fail(w) ==
    /\ w \in Going \cap loose
    /\ Stop(w, "failed")

(* a loop that ended, or is left early, may start again *)
Leave(w) == Stop(w, "idle")

Begin(w) ==
    /\ phase[w] = "idle"
    /\ phase' = [phase EXCEPT ![w] = "going"]
    /\ UNCHANGED <<entries, seen, loose>>

Next ==
    \/ \E k \in Key, v \in Value \cup {Nil} : Assign(k, v)
    \/ \E w \in Walks : \/ Begin(w) \/ Finish(w) \/ Fail(w) \/ Leave(w)
                        \/ \E k \in Key : Visit(w, k)

Spec == Init /\ [][Next]_vars
=============================================================================
