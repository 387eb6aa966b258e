---------------------------- MODULE SwapCreation ----------------------------
(***************************************************************************)
(* How a swap comes to be: create_reverse_swap (src/crates/lib/src/lib.rs) *)
(* with create (swap/reverse.rs) and the secret providers (secrets.rs),    *)
(* for tasks of several processes that share one store.                    *)
(*                                                                         *)
(* A preimage is known by a number: in the derived mode the HD index it is *)
(* derived from, in the random mode a number of its own.  Between any two  *)
(* awaits other tasks run, and a process may die.                          *)
(***************************************************************************)
EXTENDS Naturals, Sequences

CONSTANTS
  Callers, NoCaller,   \* tasks that create swaps
  Processes,
  MaxIndex,            \* indices there are, 2^32 - 1 in the code
  MaxSwaps,            \* bound: requests that reach Boltz
  MaxCrashes           \* bound: crashes

ASSUME CreationAssumption ==
  /\ NoCaller \notin Callers
  /\ {MaxIndex, MaxSwaps, MaxCrashes} \subseteq Nat

Preimage == 0..(MaxIndex - 1)
None == MaxIndex
Id == 1..MaxSwaps

VARIABLES
  mode, atomic, home,   \* the deployment: provider, kind of store, process of a task
  counter, records,     \* the store: key index, and the preimage on a swap's record
  indexLock,            \* index_lock of each process
  pc, preimage, at,     \* a task's place, the preimage issued to it, its swap
  offers,               \* the swaps Boltz has made
  payable,              \* swaps whose invoice was returned to the embedder
  crashes

deployment == <<mode, atomic, home>>
persisted == <<counter, records>>
task == <<pc, preimage, at>>
vars == <<deployment, persisted, indexLock, task, offers, payable, crashes>>

Offer == [preimage : Preimage, asWanted : BOOLEAN]
Points == {"idle", "issue", "index", "write", "post", "verify", "margin", "persist", "track"}

TypeOK ==
  /\ mode \in {"derived", "random"} /\ atomic \in BOOLEAN /\ home \in [Callers -> Processes]
  /\ counter \in 0..MaxIndex /\ records \in [Id -> Preimage \cup {None}]
  /\ indexLock \in [Processes -> Callers \cup {NoCaller}]
  /\ pc \in [Callers -> Points] /\ preimage \in [Callers -> Preimage \cup {None}]
  /\ at \in [Callers -> Id \cup {0}]
  /\ offers \in Seq(Offer) /\ Len(offers) <= MaxSwaps
  /\ payable \subseteq Id /\ crashes \in 0..MaxCrashes

(* DerivedKeyStore: an index is reserved atomically when processes share   *)
(* the store; within one process the library serializes.                   *)
StoreContract == atomic \/ \A c, d \in Callers : home[c] = home[d]

Init ==
  /\ mode \in {"derived", "random"} /\ atomic \in BOOLEAN
  /\ home \in [Callers -> Processes] /\ StoreContract
  /\ counter = 0 /\ records = [i \in Id |-> None]
  /\ indexLock = [p \in Processes |-> NoCaller]
  /\ pc = [c \in Callers |-> "idle"]
  /\ preimage = [c \in Callers |-> None] /\ at = [c \in Callers |-> 0]
  /\ offers = <<>> /\ payable = {} /\ crashes = 0

-----------------------------------------------------------------------------
Holding(c, place, secret, swap) ==
  /\ pc' = [pc EXCEPT ![c] = place]
  /\ preimage' = [preimage EXCEPT ![c] = secret]
  /\ at' = [at EXCEPT ![c] = swap]
GoTo(c, place) == Holding(c, place, preimage[c], at[c])
Return(c) == Holding(c, "idle", None, 0)

(* issue: the random provider draws a preimage nobody has.                 *)
Unused(s) == /\ \A c \in Callers : preimage[c] # s
             /\ \A i \in 1..Len(offers) : offers[i].preimage # s

(* The quote has not expired, destination and slippage are in bounds.      *)
Create(c) ==
  /\ pc[c] = "idle"
  /\ \/ mode = "derived" /\ GoTo(c, "issue")
     \/ mode = "random" /\ \E s \in Preimage : Unused(s) /\ Holding(c, "post", s, 0)
  /\ UNCHANGED <<deployment, persisted, indexLock, offers, payable, crashes>>

NeverTaken(p) == TRUE   \* mutant: issuance is not serialized
LockIsFree(p) == indexLock[p] = NoCaller

LockIndex(c) ==
  /\ pc[c] = "issue" /\ LockIsFree(home[c])
  /\ indexLock' = [indexLock EXCEPT ![home[c]] = c] /\ GoTo(c, "index")
  /\ UNCHANGED <<deployment, persisted, offers, payable, crashes>>

(* The guard of the lock goes out of scope, on success and on an error.    *)
ReleasedIf(c, ok) ==   \* mutant: an error leaves the lock taken
  indexLock' = IF ok THEN [indexLock EXCEPT ![home[c]] = NoCaller] ELSE indexLock
Released(c, ok) == indexLock' = [indexLock EXCEPT ![home[c]] = NoCaller]

OneIndexTooMany(s) == s <= MaxIndex   \* mutant: the overflow is missed
IndexLeft(s) == s < MaxIndex

(* increment_key_index stores s + 1 and returns s.  When it fails, or the  *)
(* derivation does, the counter may have moved or not.                     *)
Bump(c, s) ==
  /\ \/ IndexLeft(s) /\ counter' = s + 1 /\ Released(c, TRUE) /\ Holding(c, "post", s, 0)
     \/ IndexLeft(s) /\ counter' = s + 1 /\ Released(c, FALSE) /\ Return(c)
     \/ UNCHANGED counter /\ Released(c, FALSE) /\ Return(c)
  /\ UNCHANGED <<deployment, records, offers, payable, crashes>>

ReserveIndex(c) == pc[c] = "index" /\ atomic /\ Bump(c, counter)

ReadIndex(c) ==
  /\ pc[c] = "index" /\ ~atomic
  /\ Holding(c, "write", counter, 0)
  /\ UNCHANGED <<deployment, persisted, indexLock, offers, payable, crashes>>

WriteIndex(c) == pc[c] = "write" /\ Bump(c, preimage[c])

(* The create call.  Boltz makes a swap, with the terms asked for or with  *)
(* others; the request or the answer may get lost.  That Boltz refuses a   *)
(* preimage it knows (409) is not relied on.                               *)
Post(c) ==
  /\ pc[c] = "post"
  /\ \/ Return(c) /\ UNCHANGED offers
     \/ /\ Len(offers) < MaxSwaps
        /\ \E asked \in BOOLEAN :
             offers' = Append(offers, [preimage |-> preimage[c], asWanted |-> asked])
        /\ \/ Holding(c, "verify", preimage[c], Len(offers'))
           \/ Return(c)
  /\ UNCHANGED <<deployment, persisted, indexLock, payable, crashes>>

(* Amount on-chain, lockup address and invoice amount are as wanted.       *)
VerifyAnswer(c) ==
  /\ pc[c] = "verify"
  /\ IF offers[at[c]].asWanted THEN GoTo(c, "margin") ELSE Return(c)
  /\ UNCHANGED <<deployment, persisted, indexLock, offers, payable, crashes>>

EnsureTimeoutMargin(c) ==
  /\ pc[c] = "margin" /\ (GoTo(c, "persist") \/ Return(c))
  /\ UNCHANGED <<deployment, persisted, indexLock, offers, payable, crashes>>

(* create_reverse_swap: a failed write, which may have reached the store   *)
(* all the same, ends the call without the invoice.                        *)
LogsFailedWrite(c) == GoTo(c, "track")   \* mutant: as the handlers do
FailedWrite(c) == Return(c)

UpsertSwap(c) ==
  /\ pc[c] = "persist"
  /\ LET written == [records EXCEPT ![at[c]] = preimage[c]] IN
       \/ records' = written /\ GoTo(c, "track")
       \/ records' \in {records, written} /\ FailedWrite(c)
  /\ UNCHANGED <<deployment, counter, indexLock, offers, payable, crashes>>

(* track_swap, then the invoice is returned.                               *)
TrackSwap(c) ==
  /\ pc[c] = "track" /\ Return(c)
  /\ payable' = payable \cup {at[c]}
  /\ UNCHANGED <<deployment, persisted, indexLock, offers, crashes>>

Crash(p) ==
  /\ crashes < MaxCrashes /\ crashes' = crashes + 1
  /\ LET keep(f, v) == [c \in Callers |-> IF home[c] = p THEN v ELSE f[c]] IN
       pc' = keep(pc, "idle") /\ preimage' = keep(preimage, None) /\ at' = keep(at, 0)
  /\ indexLock' = [indexLock EXCEPT ![p] = NoCaller]
  /\ UNCHANGED <<deployment, persisted, offers, payable>>

-----------------------------------------------------------------------------
Progress(c) ==
  \/ LockIndex(c) \/ ReserveIndex(c) \/ ReadIndex(c) \/ WriteIndex(c)
  \/ Post(c) \/ VerifyAnswer(c) \/ EnsureTimeoutMargin(c) \/ UpsertSwap(c) \/ TrackSwap(c)

Next == (\E c \in Callers : Create(c) \/ Progress(c)) \/ \E p \in Processes : Crash(p)
Spec == Init /\ [][Next]_vars

(* Tasks go on, and the fair async mutex lets each of them in.             *)
Fairness == \A c \in Callers : WF_vars(Progress(c)) /\ SF_vars(LockIndex(c))
FairSpec == Spec /\ Fairness

-----------------------------------------------------------------------------
(* No two swaps at Boltz have the same preimage, also across crashes and   *)
(* failed writes, and whether Boltz refuses a duplicate or not             *)
(* (create_reverse_swap, "Secret safety").                                 *)
NoPreimageReuse ==
  \A i, j \in 1..Len(offers) : offers[i].preimage = offers[j].preimage => i = j

(* An invoice returned for payment belongs to a swap on the terms asked    *)
(* for, whose record in the store has the preimage that claims it.         *)
InvoiceIsBacked ==
  \A i \in payable : /\ i \in 1..Len(offers) /\ offers[i].asWanted
                     /\ records[i] = offers[i].preimage

(* A call of create ends, also when another one failed in issuing.         *)
CreationEnds == \A c \in Callers : pc[c] # "idle" ~> pc[c] = "idle"

=============================================================================
