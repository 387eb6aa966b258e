-------------------------- MODULE SwapLocksProofs --------------------------
(***************************************************************************)
(* SwapLocks implements KeyedMutex, for any number of tasks and swaps.     *)
(***************************************************************************)
EXTENDS SwapLocks, FiniteSetTheorems, TLAPS

(* A task with a claim on a mutex has the one its id maps to, and the      *)
(* permit of a mutex is with the task that says so.                        *)
Waiting == {"cloned", "queued", "granted", "holding"}
Permitted == {"granted", "holding", "pruned"}

Inv ==
  /\ TypeOK
  /\ \A t \in Tasks : pc[t] # "idle" => id[t] \in Ids /\ ref[t] \in Mutexes
  /\ \A t \in Tasks : pc[t] \in Waiting => map[id[t]] = ref[t]
  /\ \A t \in Tasks : pc[t] \in Permitted => holder[ref[t]] = t

(* Only the guard itself is counted when the entry may go.                 *)
LEMMA PruneIsLast ==
  ASSUME TypeOK, NEW m, CanPrune(m), NEW t \in Referrers(m), NEW u \in Referrers(m)
  PROVE t = u
<1>1. IsFiniteSet(Referrers(m))
  BY FS_Subset, LocksAssumption DEF Referrers
<1>2. Cardinality(Referrers(m)) \in Nat /\ Cardinality(Referrers(m)) <= 1
  BY <1>1, FS_CardinalityType DEF CanPrune, StrongCount
<1>3. CASE t # u
  <2>1. {t} \subseteq Referrers(m) /\ {t} # Referrers(m)
    BY <1>3
  <2>2. Cardinality({t}) < Cardinality(Referrers(m))
    BY <1>1, <2>1, FS_Subset, FS_CardinalityType
  <2>3. Cardinality({t}) = 1
    BY FS_Singleton
  <2> QED BY <1>2, <2>2, <2>3
<1> QED BY <1>3

LEMMA InvInit == Init => Inv
  BY LocksAssumption DEF Init, Inv, TypeOK, Points, Waiting, Permitted

LEMMA InvLookup ==
  ASSUME Inv, NEW t \in Tasks, NEW i \in Ids, Lookup(t, i)
  PROVE Inv'
<1> USE DEF Inv, TypeOK, Points, Waiting, Permitted
<1>1. PICK m \in Mutexes :
        /\ map[i] # NoMutex => m = map[i]
        /\ map' = [map EXCEPT ![i] = m] /\ ref' = [ref EXCEPT ![t] = m]
  BY DEF Lookup
<1>2. /\ pc[t] = "idle" /\ id' = [id EXCEPT ![t] = i]
      /\ pc' = [pc EXCEPT ![t] = "cloned"] /\ UNCHANGED <<holder, ahead>>
  BY DEF Lookup
<1>3. TypeOK'
  BY <1>1, <1>2
<1>4. \A u \in Tasks \ {t} : pc'[u] = pc[u] /\ id'[u] = id[u] /\ ref'[u] = ref[u]
  BY <1>1, <1>2
<1>5. pc'[t] = "cloned" /\ id'[t] = i /\ ref'[t] = m /\ map'[i] = m
  BY <1>1, <1>2
<1>6. \A u \in Tasks : pc'[u] \in Waiting => map'[id'[u]] = ref'[u]
  <2> SUFFICES ASSUME NEW u \in Tasks \ {t}, pc[u] \in Waiting PROVE map'[id[u]] = ref[u]
    BY <1>4, <1>5
  <2>1. id[u] \in Ids /\ map[id[u]] = ref[u] /\ ref[u] # NoMutex
    BY LocksAssumption
  <2> QED BY <1>1, <2>1
<1>7. \A u \in Tasks : pc'[u] \in Permitted => holder'[ref'[u]] = u
  BY <1>2, <1>4, <1>5
<1> QED BY <1>3, <1>4, <1>5, <1>6, <1>7

LEMMA InvPoll == ASSUME Inv, NEW t \in Tasks, Poll(t) PROVE Inv'
<1> USE DEF Inv, TypeOK, Points, Waiting, Permitted
<1>1. pc[t] = "cloned" /\ ref[t] \in Mutexes /\ UNCHANGED <<map, id, ref>>
  BY DEF Poll
<1>2. TypeOK'
  BY <1>1 DEF Poll, Queued, Referrers
<1>3. \A u \in Tasks : pc'[u] # "idle" => pc[u] # "idle"
  BY <1>1 DEF Poll
<1>4. \A u \in Tasks : pc'[u] \in Waiting => pc[u] \in Waiting
  BY <1>1 DEF Poll
<1>5. \A u \in Tasks : pc'[u] \in Permitted => holder'[ref'[u]] = u
  <2>1. CASE holder[ref[t]] = NoTask
    BY <1>1, <2>1, LocksAssumption DEF Poll
  <2>2. CASE holder[ref[t]] # NoTask
    BY <1>1, <2>2 DEF Poll
  <2> QED BY <2>1, <2>2
<1> QED BY <1>1, <1>2, <1>3, <1>4, <1>5

LEMMA InvDropGuard == ASSUME Inv, NEW t \in Tasks, DropGuard(t) PROVE Inv'
<1> USE DEF Inv, TypeOK, Points, Waiting, Permitted
<1>1. /\ pc[t] = "holding" /\ pc' = [pc EXCEPT ![t] = "pruned"]
      /\ UNCHANGED <<holder, id, ref, ahead>>
      /\ map' = map \/ (CanPrune(map[id[t]]) /\ map' = [map EXCEPT ![id[t]] = NoMutex])
  BY DEF DropGuard
<1>2. \A u \in Tasks : pc'[u] \in Waiting => map'[id'[u]] = ref'[u]
  <2> SUFFICES ASSUME NEW u \in Tasks \ {t}, pc[u] \in Waiting,
                      CanPrune(map[id[t]]), map' = [map EXCEPT ![id[t]] = NoMutex]
               PROVE map'[id[u]] = ref[u]
    BY <1>1
  <2>1. map[id[u]] = ref[u] /\ map[id[t]] = ref[t] /\ id[u] \in Ids
    BY <1>1
  <2>2. id[u] # id[t]
    BY <2>1, PruneIsLast DEF Referrers
  <2> QED BY <2>1, <2>2
<1> QED BY <1>1, <1>2

LEMMA InvUnlock == ASSUME Inv, NEW t \in Tasks, Unlock(t) PROVE Inv'
<1> USE DEF Inv, TypeOK, Points, Waiting, Permitted
<1>1. /\ pc[t] \in {"pruned", "granted"} /\ holder[ref[t]] = t /\ ref[t] \in Mutexes
      /\ UNCHANGED <<map, id, ref>>
  BY DEF Unlock
<1>2. CASE /\ holder' = [holder EXCEPT ![ref[t]] = NoTask]
           /\ pc' = [pc EXCEPT ![t] = "released"] /\ UNCHANGED ahead
  BY <1>1, <1>2
<1>3. ASSUME NEW u \in FirstWaiter(ref[t]),
             /\ holder' = [holder EXCEPT ![ref[t]] = u]
             /\ pc' = [pc EXCEPT ![t] = "released", ![u] = "granted"]
             /\ ahead' = [w \in Tasks |-> ahead[w] \ {u}]
      PROVE Inv'
  <2>1. u \in Tasks /\ ref[u] = ref[t] /\ pc[u] = "queued"
    BY DEF FirstWaiter, Queued, Referrers
  <2>2. TypeOK'
    BY <1>1, <1>3, <2>1
  <2>3. \A w \in Tasks : pc'[w] = IF w = u THEN "granted"
                                  ELSE IF w = t THEN "released" ELSE pc[w]
    BY <1>3, <2>1
  <2>4. \A w \in Tasks : pc'[w] \in Permitted => holder'[ref'[w]] = w
    BY <1>1, <1>3, <2>1, <2>3
  <2> QED BY <1>1, <2>1, <2>2, <2>3, <2>4
<1> QED BY <1>2, <1>3 DEF Unlock

(* The lock is consistent in every reachable state.                        *)
THEOREM LocksConsistent == Spec => []Inv
<1>1. Inv /\ [Next]_vars => Inv'
  <2> SUFFICES ASSUME Inv, [Next]_vars PROVE Inv'
    OBVIOUS
  <2> USE DEF Inv, TypeOK, Points, Waiting, Permitted
  <2>1. ASSUME NEW t \in Tasks, Wake(t) PROVE Inv'
    BY <2>1 DEF Wake
  <2>2. ASSUME NEW t \in Tasks, Cancel(t) PROVE Inv'
    BY <2>2 DEF Cancel
  <2>3. ASSUME NEW t \in Tasks, DropReference(t) PROVE Inv'
    BY <2>3 DEF DropReference
  <2>4. CASE UNCHANGED vars
    BY <2>4 DEF vars
  <2> QED BY <2>1, <2>2, <2>3, <2>4, InvLookup, InvPoll, InvDropGuard, InvUnlock
        DEF Next, Step
<1> QED BY <1>1, InvInit, PTL DEF Spec

(* No entry is dropped from under a task that waits for it or holds it.    *)
THEOREM EntryIsKept == Spec => []WaitersKeepEntry
<1>1. Inv => WaitersKeepEntry
  BY DEF Inv, Waiting, WaitersKeepEntry
<1> QED BY <1>1, LocksConsistent, PTL

(* Two tasks are never in the section of one swap.                         *)
THEOREM SectionsAreExclusive == Spec => []Abstract!Exclusive
<1>1. Inv => Abstract!Exclusive
  BY LocksAssumption DEF Inv, TypeOK, Waiting, Permitted, Section, Abstract!Exclusive
<1> QED BY <1>1, LocksConsistent, PTL

(* The keyed lock is a mutex per swap: every step is a step of KeyedMutex  *)
(* or does not change who is in whose section.                             *)
THEOREM LocksRefine == Spec => ImplementsKeyedMutex
<1>1. Init => Abstract!Init
  BY DEF Init, Abstract!Init, Section
<1>2. Inv /\ [Next]_vars => [Abstract!Next]_Section
  <2> SUFFICES ASSUME Inv, [Next]_vars PROVE [Abstract!Next]_Section
    OBVIOUS
  <2> USE DEF Inv, TypeOK, Points, Waiting, Permitted
  <2>1. ASSUME NEW t \in Tasks, Poll(t) \/ Wake(t), pc'[t] = "holding"
        PROVE Abstract!Next
    <3>1. /\ pc[t] # "holding" /\ pc' = [pc EXCEPT ![t] = "holding"] /\ UNCHANGED id
          /\ id[t] \in Ids /\ map[id[t]] = ref[t] /\ holder[ref[t]] \in {NoTask, t}
      BY <2>1 DEF Poll, Wake
    <3>2. \A u \in Tasks : Section[u] # id[t]
      BY <3>1, LocksAssumption DEF Section
    <3>3. Section[t] = NoId
      BY <3>1 DEF Section
    <3>4. Section' = [Section EXCEPT ![t] = id[t]]
      BY <3>1 DEF Section
    <3> QED BY <3>1, <3>2, <3>3, <3>4 DEF Abstract!Next, Abstract!Enter
  <2>2. ASSUME NEW t \in Tasks, DropGuard(t) PROVE Abstract!Next
    <3>1. Section[t] = id[t] /\ id[t] # NoId
      BY <2>2, LocksAssumption DEF DropGuard, Section
    <3>2. Section' = [Section EXCEPT ![t] = NoId]
      BY <2>2 DEF DropGuard, Section
    <3> QED BY <3>1, <3>2 DEF Abstract!Next, Abstract!Leave
  <2>3. ASSUME NEW t \in Tasks,
               \/ Poll(t) /\ pc'[t] # "holding"
               \/ Unlock(t) \/ Cancel(t) \/ DropReference(t)
               \/ \E i \in Ids : Lookup(t, i)
        PROVE UNCHANGED Section
    <3>1. \A u \in Tasks : /\ pc'[u] = "holding" <=> pc[u] = "holding"
                           /\ pc[u] = "holding" => id'[u] = id[u]
      BY <2>3 DEF Poll, Unlock, Cancel, DropReference, Lookup, FirstWaiter, Queued, Referrers
    <3> QED BY <3>1 DEF Section
  <2>4. CASE UNCHANGED vars
    BY <2>4 DEF vars, Section
  <2>5. \A t \in Tasks : Wake(t) => pc'[t] = "holding"
    BY DEF Wake
  <2> QED BY <2>1, <2>2, <2>3, <2>4, <2>5 DEF Next, Step
<1> QED BY <1>1, <1>2, LocksConsistent, PTL DEF Spec, ImplementsKeyedMutex, Abstract!Spec

=============================================================================
