----------------------------- MODULE SwapLocks -----------------------------
(***************************************************************************)
(* The keyed mutex of src/crates/lib/src/swap/locks.rs: a map from swap id *)
(* to a reference-counted async mutex, whose entries are made on first use *)
(* and pruned by the guard that drops last.                                *)
(*                                                                         *)
(* The map lookup and the body of SwapLockGuard::drop run under the map's  *)
(* own mutex and are one step each.  The waiting in between, the release   *)
(* of the async mutex and the release of the task's reference to it are    *)
(* steps of their own, and the future of a waiting task may be dropped.    *)
(***************************************************************************)
EXTENDS Naturals, FiniteSets

CONSTANTS
  Tasks,          \* tasks that work on swaps
  Ids,            \* swap ids
  Mutexes,        \* the async mutexes memory has room for
  NoId, NoTask, NoMutex,
  Cancellation    \* a waiting task's future may be dropped

ASSUME LocksAssumption ==
  /\ IsFiniteSet(Tasks) /\ Cancellation \in BOOLEAN
  /\ NoId \notin Ids /\ NoTask \notin Tasks /\ NoMutex \notin Mutexes

VARIABLES
  map,      \* the mutex of an id, NoMutex where there is no entry
  holder,   \* the task that has the permit of a mutex
  pc,       \* where a task stands
  id, ref,  \* the id a task works on and the mutex it has a reference to
  ahead     \* the tasks queued before a task on the same mutex

vars == <<map, holder, pc, id, ref, ahead>>

(* cloned: the lookup is done, the mutex not asked for yet; granted: the   *)
(* permit is handed over, the task not woken yet; pruned: the body of drop *)
(* is done, the permit still held; released: only the reference is left.   *)
Points == {"idle", "cloned", "queued", "granted", "holding", "pruned", "released"}

TypeOK ==
  /\ map \in [Ids -> Mutexes \cup {NoMutex}]
  /\ holder \in [Mutexes -> Tasks \cup {NoTask}]
  /\ pc \in [Tasks -> Points]
  /\ id \in [Tasks -> Ids \cup {NoId}]
  /\ ref \in [Tasks -> Mutexes \cup {NoMutex}]
  /\ ahead \in [Tasks -> SUBSET Tasks]

Init ==
  /\ map = [i \in Ids |-> NoMutex]
  /\ holder = [m \in Mutexes |-> NoTask]
  /\ pc = [t \in Tasks |-> "idle"]
  /\ id = [t \in Tasks |-> NoId]
  /\ ref = [t \in Tasks |-> NoMutex]
  /\ ahead = [t \in Tasks |-> {}]

-----------------------------------------------------------------------------
Referrers(m) == {t \in Tasks : ref[t] = m}
Queued(m) == {t \in Referrers(m) : pc[t] = "queued"}
Fresh(m) == Referrers(m) = {} /\ \A i \in Ids : map[i] # m

(* Arc::strong_count of an entry: the map's own reference and the tasks'.  *)
StrongCount(m) == 1 + Cardinality(Referrers(m))
PruneNeverLeaks(m) == StrongCount(m) <= 3   \* mutant: a waiter is not counted
CanPrune(m) == StrongCount(m) <= 2

(* The queue of the async mutex is first in, first out.                    *)
AnyWaiter(m) == Queued(m)   \* mutant: the mutex is not fair
FirstWaiter(m) == {t \in Queued(m) : ahead[t] = {}}

(* The map lookup of lock(): the entry is made if there is none.           *)
Lookup(t, i) ==
  /\ pc[t] = "idle"
  /\ \E m \in Mutexes :
       /\ IF map[i] = NoMutex THEN Fresh(m) ELSE m = map[i]
       /\ map' = [map EXCEPT ![i] = m]
       /\ ref' = [ref EXCEPT ![t] = m]
  /\ id' = [id EXCEPT ![t] = i] /\ pc' = [pc EXCEPT ![t] = "cloned"]
  /\ UNCHANGED <<holder, ahead>>

(* The first poll of lock_owned.                                           *)
Poll(t) ==
  /\ pc[t] = "cloned"
  /\ \/ /\ holder[ref[t]] = NoTask
        /\ holder' = [holder EXCEPT ![ref[t]] = t]
        /\ pc' = [pc EXCEPT ![t] = "holding"] /\ UNCHANGED ahead
     \/ /\ holder[ref[t]] # NoTask
        /\ ahead' = [ahead EXCEPT ![t] = Queued(ref[t])]
        /\ pc' = [pc EXCEPT ![t] = "queued"] /\ UNCHANGED holder
  /\ UNCHANGED <<map, id, ref>>

Wake(t) ==
  /\ pc[t] = "granted" /\ pc' = [pc EXCEPT ![t] = "holding"]
  /\ UNCHANGED <<map, holder, id, ref, ahead>>

(* The body of SwapLockGuard::drop, at the end of the handler.             *)
DropGuard(t) ==
  /\ pc[t] = "holding" /\ pc' = [pc EXCEPT ![t] = "pruned"]
  /\ map' = IF map[id[t]] # NoMutex /\ CanPrune(map[id[t]])
            THEN [map EXCEPT ![id[t]] = NoMutex] ELSE map
  /\ UNCHANGED <<holder, id, ref, ahead>>

(* The permit goes to the task that has waited longest, if there is one.   *)
Unlock(t) ==
  /\ pc[t] \in {"pruned"} \cup (IF Cancellation THEN {"granted"} ELSE {})
  /\ \/ /\ Queued(ref[t]) = {}
        /\ holder' = [holder EXCEPT ![ref[t]] = NoTask]
        /\ pc' = [pc EXCEPT ![t] = "released"] /\ UNCHANGED ahead
     \/ \E u \in FirstWaiter(ref[t]) :
          /\ holder' = [holder EXCEPT ![ref[t]] = u]
          /\ pc' = [pc EXCEPT ![t] = "released", ![u] = "granted"]
          /\ ahead' = [w \in Tasks |-> ahead[w] \ {u}]
  /\ UNCHANGED <<map, id, ref>>

(* A future dropped while it waits leaves the queue.                       *)
Cancel(t) ==
  /\ Cancellation /\ pc[t] = "queued"
  /\ pc' = [pc EXCEPT ![t] = "released"]
  /\ ahead' = [w \in Tasks |-> IF w = t THEN {} ELSE ahead[w] \ {t}]
  /\ UNCHANGED <<map, holder, id, ref>>

DropReference(t) ==
  /\ pc[t] = "released" /\ pc' = [pc EXCEPT ![t] = "idle"]
  /\ ref' = [ref EXCEPT ![t] = NoMutex] /\ id' = [id EXCEPT ![t] = NoId]
  /\ UNCHANGED <<map, holder, ahead>>

Step(t) == Poll(t) \/ Wake(t) \/ DropGuard(t) \/ Unlock(t) \/ DropReference(t)
Next == \E t \in Tasks : Step(t) \/ Cancel(t) \/ \E i \in Ids : Lookup(t, i)
Spec == Init /\ [][Next]_vars

-----------------------------------------------------------------------------
(* The lock is a keyed mutex: a task in its critical section (`holding')   *)
(* is alone with its swap, although the entry may be pruned and made anew  *)
(* while the old mutex is still being released.                            *)
Section == [t \in Tasks |-> IF pc[t] = "holding" THEN id[t] ELSE NoId]
Abstract == INSTANCE KeyedMutex WITH held <- Section
ImplementsKeyedMutex == Abstract!Spec

(* An entry is never dropped while a task is about to lock it              *)
(* (SwapLockGuard::drop).                                                  *)
WaitersKeepEntry ==
  \A t \in Tasks : pc[t] \in {"cloned", "queued", "granted", "holding"} => map[id[t]] = ref[t]

(* A task gives the mutex up in the end and is woken when it is granted.   *)
Fairness == \A t \in Tasks : WF_vars(Step(t))
FairSpec == Spec /\ Fairness

(* Every task that waits gets its turn, unless it is cancelled.            *)
WaiterServed == \A t \in Tasks : pc[t] = "queued" ~> pc[t] \in {"holding", "released"}

=============================================================================
