----------------------------- MODULE KeyedMutex -----------------------------
(***************************************************************************)
(* What the per-swap lock of src/crates/lib/src/swap/locks.rs promises:    *)
(* one task at a time in the section of a swap, no task in two of them,    *)
(* and no swap in the way of another.                                      *)
(***************************************************************************)
CONSTANTS Tasks, Ids, NoId

VARIABLE held   \* the swap whose section a task is in

Init == held = [t \in Tasks |-> NoId]

Enter(t, i) ==
  /\ held[t] = NoId /\ \A u \in Tasks : held[u] # i
  /\ held' = [held EXCEPT ![t] = i]

Leave(t) ==
  /\ held[t] # NoId
  /\ held' = [held EXCEPT ![t] = NoId]

Next == \E t \in Tasks : Leave(t) \/ \E i \in Ids : Enter(t, i)
Spec == Init /\ [][Next]_held

(* No two tasks are in the section of one swap.                            *)
Exclusive == \A t, u \in Tasks : held[t] = held[u] /\ held[t] # NoId => t = u

=============================================================================
