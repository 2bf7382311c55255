--------------------------- MODULE StateRegistry ---------------------------
(***************************************************************************)
(* What a StateHandle promises to whoever keeps it (lua_vm/src/runtime.rs, *)
(* the contract of struct StateArena): it names one LuaState for ever.     *)
(* While that state exists the handle leads to it, afterwards to nothing,  *)
(* never to another state.  A state is lent to one closure at a time, the  *)
(* loans end in the reverse of their order, and a state on loan is not     *)
(* destroyed.                                                              *)
(***************************************************************************)
EXTENDS Naturals, Sequences

CONSTANTS Handle,  \* the handles that can be issued
          Main     \* the one issued for the main state

VARIABLES status,  \* what has become of the state each handle names
          held     \* the states on loan, innermost loan last

vars == <<status, held>>

OnLoan(h) == \E k \in 1..Len(held) : held[k] = h

Init ==
    /\ status = [h \in Handle |-> IF h = Main THEN "live" ELSE "fresh"]
    /\ held = <<>>

Issue(h) ==
    /\ status[h] = "fresh"
    /\ status' = [status EXCEPT ![h] = "pending"]
    /\ UNCHANGED held

Publish(h) ==
    /\ status[h] = "pending"
    /\ status' = [status EXCEPT ![h] = "live"]
    /\ UNCHANGED held

Destroy(h) ==
    /\ status[h] \in {"pending", "live"} /\ ~OnLoan(h)
    /\ status' = [status EXCEPT ![h] = "gone"]
    /\ UNCHANGED held

Lend(h) ==
    /\ status[h] \in {"pending", "live"} /\ ~OnLoan(h)
    /\ held' = Append(held, h)
    /\ UNCHANGED status

Return ==
    /\ held # <<>>
    /\ held' = SubSeq(held, 1, Len(held) - 1)
    /\ UNCHANGED status

Next == Return \/ \E h \in Handle : Issue(h) \/ Publish(h) \/ Destroy(h) \/ Lend(h)

Spec == Init /\ [][Next]_vars

=============================================================================
