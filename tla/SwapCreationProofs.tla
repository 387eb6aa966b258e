------------------------- MODULE SwapCreationProofs -------------------------
(***************************************************************************)
(* No preimage is used twice and every invoice is backed, for any number   *)
(* of tasks, processes, indices, swaps and crashes.                        *)
(***************************************************************************)
EXTENDS SwapCreation, TLAPS

(* An issued preimage was never seen by Boltz, and no other task has it.   *)
Issuing == {"issue", "index", "write"}
Issued == {"post", "verify", "margin", "persist", "track"}

IssuanceInv ==
  /\ StoreContract
  /\ \A c \in Callers :
       /\ pc[c] \in {"index", "write"} => indexLock[home[c]] = c
       /\ pc[c] \in Issuing => mode = "derived"
       /\ pc[c] = "write" => ~atomic /\ preimage[c] = counter
       /\ pc[c] \in Issued => preimage[c] \in Preimage
       /\ pc[c] \in Issued /\ mode = "derived" => preimage[c] < counter
       /\ pc[c] = "post" => \A i \in 1..Len(offers) : offers[i].preimage # preimage[c]
  /\ mode = "derived" => \A i \in 1..Len(offers) : offers[i].preimage < counter
  /\ \A c, d \in Callers :
       c # d /\ pc[c] = "post" /\ pc[d] = "post" => preimage[c] # preimage[d]
  /\ NoPreimageReuse

(* A task works on the swap Boltz made for its preimage, on terms it has   *)
(* checked, and returns the invoice when the preimage is on the record.    *)
AnswerInv ==
  /\ \A c \in Callers :
       /\ pc[c] \in {"verify", "margin", "persist", "track"} =>
            at[c] \in 1..Len(offers) /\ offers[at[c]].preimage = preimage[c]
       /\ pc[c] \in {"margin", "persist", "track"} => offers[at[c]].asWanted
       /\ pc[c] = "track" => records[at[c]] = preimage[c]
  /\ InvoiceIsBacked

Inv == TypeOK /\ IssuanceInv /\ AnswerInv

-----------------------------------------------------------------------------
LEMMA InvInit == Init => Inv
<1> SUFFICES ASSUME Init PROVE Inv OBVIOUS
<1> USE CreationAssumption DEF Init, Preimage, None, Id
<1>1. TypeOK BY DEF TypeOK, Points, Offer
<1>2. IssuanceInv BY DEF IssuanceInv, Issuing, Issued, NoPreimageReuse
<1>3. AnswerInv BY DEF AnswerInv, InvoiceIsBacked
<1> QED BY <1>1, <1>2, <1>3 DEF Inv

LEMMA TypeStep == TypeOK /\ IssuanceInv /\ AnswerInv /\ [Next]_vars => TypeOK'
<1> SUFFICES ASSUME TypeOK, IssuanceInv, AnswerInv, [Next]_vars PROVE TypeOK' OBVIOUS
<1> USE CreationAssumption DEF TypeOK, Preimage, None, Id, Points,
      deployment, persisted, task, Holding, GoTo, Return
<1>1. ASSUME NEW c \in Callers, Create(c) PROVE TypeOK'
  BY <1>1 DEF Create
<1>2. ASSUME NEW c \in Callers, LockIndex(c) PROVE TypeOK'
  BY <1>2 DEF LockIndex
<1>3. ASSUME NEW c \in Callers, NEW s \in Preimage \cup {None}, Bump(c, s) PROVE TypeOK'
  <2>1. MaxIndex \in Nat /\ s \in 0..MaxIndex OBVIOUS
  <2>2. \/ /\ IndexLeft(s) /\ counter' = s + 1
           /\ Holding(c, "post", s, 0) \/ Return(c)
        \/ UNCHANGED counter /\ Return(c)
    BY <1>3 DEF Bump
  <2>4. counter' \in 0..MaxIndex BY <2>1, <2>2 DEF IndexLeft
  <2>3. /\ pc' \in [Callers -> Points] /\ preimage' \in [Callers -> Preimage \cup {None}]
        /\ at' \in [Callers -> Id \cup {0}]
    BY <2>2
  <2> QED BY <1>3, <2>3, <2>4 DEF Bump, Released
<1>4. ASSUME NEW c \in Callers, ReserveIndex(c) \/ WriteIndex(c) PROVE TypeOK'
  BY <1>3, <1>4 DEF ReserveIndex, WriteIndex
<1>5. ASSUME NEW c \in Callers, ReadIndex(c) PROVE TypeOK'
  BY <1>5 DEF ReadIndex
<1>6. ASSUME NEW c \in Callers, Post(c) PROVE TypeOK'
  <2>1. CASE Return(c) /\ UNCHANGED offers
    BY <1>6, <2>1 DEF Post
  <2>2. ASSUME NEW asked \in BOOLEAN, Len(offers) < MaxSwaps,
               offers' = Append(offers, [preimage |-> preimage[c], asWanted |-> asked]),
               Holding(c, "verify", preimage[c], Len(offers')) \/ Return(c)
        PROVE TypeOK'
    <3>1. preimage[c] \in Preimage BY <1>6 DEF Post, IssuanceInv, Issued
    <3>2. [preimage |-> preimage[c], asWanted |-> asked] \in Offer BY <3>1 DEF Offer
    <3>3. offers' \in Seq(Offer) /\ Len(offers') = Len(offers) + 1 BY <2>2, <3>2
    <3>4. /\ Len(offers') \in Id
          /\ UNCHANGED <<mode, atomic, home, counter, records, indexLock, payable, crashes>>
      BY <1>6, <2>2, <3>3 DEF Post
    <3>5. /\ pc' \in [Callers -> Points] /\ preimage' \in [Callers -> Preimage \cup {None}]
          /\ at' \in [Callers -> Id \cup {0}]
      BY <2>2, <3>1, <3>4
    <3> QED BY <3>3, <3>4, <3>5
  <2> QED BY <1>6, <2>1, <2>2 DEF Post
<1>7. ASSUME NEW c \in Callers, VerifyAnswer(c) \/ EnsureTimeoutMargin(c) PROVE TypeOK'
  BY <1>7 DEF VerifyAnswer, EnsureTimeoutMargin
<1>8. ASSUME NEW c \in Callers, UpsertSwap(c) PROVE TypeOK'
  BY <1>8 DEF UpsertSwap, FailedWrite
<1>9. ASSUME NEW c \in Callers, TrackSwap(c) PROVE TypeOK'
  <2>1. at[c] \in Id BY <1>9 DEF TrackSwap, AnswerInv
  <2> QED BY <1>9, <2>1 DEF TrackSwap
<1>10. ASSUME NEW p \in Processes, Crash(p) PROVE TypeOK'
  BY <1>10 DEF Crash
<1>11. CASE UNCHANGED vars
  BY <1>11 DEF vars
<1> QED BY <1>1, <1>2, <1>4, <1>5, <1>6, <1>7, <1>8, <1>9, <1>10, <1>11 DEF Next, Progress

-----------------------------------------------------------------------------
(* Steps that leave the counter, the locks and the offers alone, take no   *)
(* preimage up and only bring tasks forward or back.                       *)
LEMMA IssuanceKept ==
  ASSUME TypeOK, IssuanceInv, UNCHANGED <<deployment, counter, indexLock, offers>>,
         NEW c \in Callers, pc[c] \in Issued \ {"post"},
         \/ \E place \in Issued \ {"post"} : GoTo(c, place)
         \/ Return(c)
  PROVE IssuanceInv'
BY DEF TypeOK, IssuanceInv, Issuing, Issued, NoPreimageReuse, StoreContract,
  deployment, Holding, GoTo, Return

(* Within a process nobody else is at the counter while the lock is held,  *)
(* and several processes share only an atomic one.                         *)
LEMMA IssuanceBump ==
  ASSUME TypeOK, IssuanceInv, NEW c \in Callers, NEW s \in Preimage \cup {None},
         pc[c] \in {"index", "write"}, pc[c] = "index" => atomic, s = counter, Bump(c, s)
  PROVE IssuanceInv'
<1> USE CreationAssumption DEF TypeOK, Preimage, None, Issuing, Issued, deployment,
      Holding, Return
<1>1. ASSUME NEW d \in Callers, d # c, pc[d] = "write" PROVE FALSE
  <2>1. home[d] = home[c] /\ indexLock[home[d]] = d /\ indexLock[home[c]] = c
    BY <1>1 DEF IssuanceInv, StoreContract
  <2> QED BY <1>1, <2>1
<1>2. ASSUME NEW d \in Callers, d # c, pc[d] = "index", home[d] = home[c] PROVE FALSE
  BY <1>2 DEF IssuanceInv
<1>3. counter' \in {counter, counter + 1} /\ UNCHANGED <<mode, atomic, home, offers>>
  BY DEF Bump
<1>4. mode = "derived" BY DEF IssuanceInv
<1>5. \/ counter' = counter + 1 /\ counter < MaxIndex /\ Holding(c, "post", counter, 0)
      \/ Return(c)
  BY DEF Bump, IndexLeft
<1>6. indexLock' = [indexLock EXCEPT ![home[c]] = NoCaller]
  BY DEF Bump, Released
<1>7. StoreContract' /\ NoPreimageReuse'
  BY <1>3 DEF IssuanceInv, StoreContract, NoPreimageReuse
<1>8. ASSUME NEW i \in 1..Len(offers)
      PROVE offers[i].preimage \in Nat /\ offers[i].preimage < counter
  <2>1. offers[i] \in Offer OBVIOUS
  <2>2. offers[i].preimage \in 0..(MaxIndex - 1) BY <2>1 DEF Offer
  <2> QED BY <1>4, <2>2 DEF IssuanceInv
<1>9. ASSUME NEW d \in Callers
      PROVE /\ pc'[d] \in {"index", "write"} => indexLock'[home'[d]] = d
            /\ pc'[d] \in Issuing => mode' = "derived"
            /\ pc'[d] = "write" => ~atomic' /\ preimage'[d] = counter'
            /\ pc'[d] \in Issued => preimage'[d] \in Preimage
            /\ pc'[d] \in Issued /\ mode' = "derived" => preimage'[d] < counter'
            /\ pc'[d] = "post" => \A i \in 1..Len(offers') : offers'[i].preimage # preimage'[d]
  <2>1. CASE d = c
    BY <1>3, <1>5, <1>8, <2>1
  <2>2. CASE d # c
    <3>1. pc'[d] = pc[d] /\ preimage'[d] = preimage[d] BY <1>5, <2>2
    <3> QED BY <1>1, <1>2, <1>3, <1>4, <1>6, <2>2, <3>1 DEF IssuanceInv
  <2> QED BY <2>1, <2>2
<1>10. mode' = "derived" => \A i \in 1..Len(offers') : offers'[i].preimage < counter'
  BY <1>3, <1>8
<1>11. ASSUME NEW d \in Callers, NEW e \in Callers, d # e, pc'[d] = "post", pc'[e] = "post"
       PROVE preimage'[d] # preimage'[e]
  <2>1. \A f \in Callers : f # c => pc'[f] = pc[f] /\ preimage'[f] = preimage[f]
    BY <1>5
  <2>2. \A f \in Callers : pc[f] = "post" => preimage[f] \in Nat /\ preimage[f] < counter
    BY <1>4 DEF IssuanceInv
  <2>3. CASE d # c /\ e # c BY <1>11, <2>1, <2>3 DEF IssuanceInv
  <2>4. CASE d = c \/ e = c BY <1>5, <1>11, <2>1, <2>2, <2>4
  <2> QED BY <2>3, <2>4
<1> QED BY <1>7, <1>9, <1>10, <1>11 DEF IssuanceInv

LEMMA IssuanceStep == TypeOK /\ IssuanceInv /\ AnswerInv /\ [Next]_vars => IssuanceInv'
<1> SUFFICES ASSUME TypeOK, IssuanceInv, AnswerInv, [Next]_vars PROVE IssuanceInv' OBVIOUS
<1> USE CreationAssumption DEF deployment, persisted, task
<1>1. ASSUME NEW c \in Callers, Create(c) PROVE IssuanceInv'
  <2>1. CASE mode = "derived" /\ GoTo(c, "issue")
    BY <1>1, <2>1 DEF Create, TypeOK, IssuanceInv, Issuing, Issued, NoPreimageReuse,
      StoreContract, Holding, GoTo
  <2>2. ASSUME mode = "random", NEW s \in Preimage, Unused(s), Holding(c, "post", s, 0)
        PROVE IssuanceInv'
    BY <1>1, <2>2 DEF Create, TypeOK, IssuanceInv, Issuing, Issued, NoPreimageReuse,
      StoreContract, Holding, Unused
  <2> QED BY <1>1, <2>1, <2>2 DEF Create
<1>2. ASSUME NEW c \in Callers, LockIndex(c) PROVE IssuanceInv'
  <2>1. \A d \in Callers : pc[d] \in {"index", "write"} => home[d] # home[c]
    BY <1>2 DEF LockIndex, LockIsFree, IssuanceInv
  <2> QED BY <1>2, <2>1 DEF LockIndex, TypeOK, IssuanceInv, Issuing, Issued,
        NoPreimageReuse, StoreContract, Holding, GoTo
<1>3. ASSUME NEW c \in Callers, ReserveIndex(c) \/ WriteIndex(c) PROVE IssuanceInv'
  <2>1. counter \in Preimage \cup {None} BY DEF TypeOK, Preimage, None
  <2>2. CASE ReserveIndex(c) BY <2>1, <2>2, IssuanceBump DEF ReserveIndex
  <2>3. CASE WriteIndex(c)
    <3>1. preimage[c] = counter BY <2>3 DEF WriteIndex, IssuanceInv
    <3> QED BY <2>1, <2>3, <3>1, IssuanceBump DEF WriteIndex
  <2> QED BY <1>3, <2>2, <2>3
<1>4. ASSUME NEW c \in Callers, ReadIndex(c) PROVE IssuanceInv'
  BY <1>4 DEF ReadIndex, TypeOK, IssuanceInv, Issuing, Issued, NoPreimageReuse,
    StoreContract, Holding
<1>5. ASSUME NEW c \in Callers, Post(c) PROVE IssuanceInv'
  <2>1. CASE Return(c) /\ UNCHANGED offers
    BY <1>5, <2>1 DEF Post, TypeOK, IssuanceInv, Issuing, Issued, NoPreimageReuse,
      StoreContract, Holding, Return
  <2>2. ASSUME NEW asked \in BOOLEAN,
               offers' = Append(offers, [preimage |-> preimage[c], asWanted |-> asked]),
               Holding(c, "verify", preimage[c], Len(offers')) \/ Return(c)
        PROVE IssuanceInv'
    <3>1. /\ UNCHANGED <<mode, atomic, home, counter, indexLock>> /\ pc[c] = "post"
          /\ preimage[c] \in Preimage
      BY <1>5 DEF Post, IssuanceInv, Issued
    <3>2. /\ Len(offers') = Len(offers) + 1 /\ Len(offers) \in Nat
          /\ offers'[Len(offers) + 1].preimage = preimage[c]
          /\ \A i \in 1..Len(offers) : offers'[i] = offers[i]
      BY <2>2 DEF TypeOK
    <3>3. \A d \in Callers :
            /\ d # c => pc'[d] = pc[d] /\ preimage'[d] = preimage[d]
            /\ d = c => \/ pc'[d] = "verify" /\ preimage'[d] = preimage[d]
                        \/ pc'[d] = "idle"
      BY <2>2 DEF TypeOK, Holding, Return
    <3>4. NoPreimageReuse'
      BY <3>1, <3>2 DEF IssuanceInv, NoPreimageReuse
    <3>5. mode' = "derived" => \A i \in 1..Len(offers') : offers'[i].preimage < counter'
      BY <3>1, <3>2 DEF IssuanceInv, Issued
    <3>6. ASSUME NEW d \in Callers, pc'[d] = "post"
          PROVE \A i \in 1..Len(offers') : offers'[i].preimage # preimage'[d]
      BY <3>1, <3>2, <3>3, <3>6 DEF IssuanceInv
    <3>7. ASSUME NEW d \in Callers
          PROVE /\ pc'[d] \in {"index", "write"} => indexLock'[home'[d]] = d
                /\ pc'[d] \in Issuing => mode' = "derived"
                /\ pc'[d] = "write" => ~atomic' /\ preimage'[d] = counter'
                /\ pc'[d] \in Issued => preimage'[d] \in Preimage
                /\ pc'[d] \in Issued /\ mode' = "derived" => preimage'[d] < counter'
      BY <3>1, <3>3 DEF IssuanceInv, Issuing, Issued
    <3>8. StoreContract' BY <3>1 DEF IssuanceInv, StoreContract
    <3>9. \A d, e \in Callers :
            d # e /\ pc'[d] = "post" /\ pc'[e] = "post" => preimage'[d] # preimage'[e]
      BY <3>3 DEF IssuanceInv
    <3> QED BY <3>4, <3>5, <3>6, <3>7, <3>8, <3>9 DEF IssuanceInv
  <2> QED BY <1>5, <2>1, <2>2 DEF Post
<1>6. ASSUME NEW c \in Callers,
             VerifyAnswer(c) \/ EnsureTimeoutMargin(c) \/ UpsertSwap(c) \/ TrackSwap(c)
      PROVE IssuanceInv'
  BY <1>6, IssuanceKept DEF VerifyAnswer, EnsureTimeoutMargin, UpsertSwap, FailedWrite,
    TrackSwap, Issued
<1>7. ASSUME NEW p \in Processes, Crash(p) PROVE IssuanceInv'
  BY <1>7 DEF Crash, TypeOK, IssuanceInv, Issuing, Issued, NoPreimageReuse, StoreContract
<1>8. CASE UNCHANGED vars
  BY <1>8 DEF vars, IssuanceInv, NoPreimageReuse, StoreContract
<1> QED BY <1>1, <1>2, <1>3, <1>4, <1>5, <1>6, <1>7, <1>8 DEF Next, Progress

-----------------------------------------------------------------------------
(* A step of a task to a place where it has no swap, or back.              *)
LEMMA AnswerKept ==
  ASSUME TypeOK, AnswerInv, UNCHANGED <<records, offers, payable>>,
         NEW c \in Callers, NEW place, NEW s, NEW i, Holding(c, place, s, i),
         place \notin {"verify", "margin", "persist", "track"}
  PROVE AnswerInv'
BY DEF TypeOK, AnswerInv, InvoiceIsBacked, Holding

LEMMA AnswerStep == TypeOK /\ IssuanceInv /\ AnswerInv /\ [Next]_vars => AnswerInv'
<1> SUFFICES ASSUME TypeOK, IssuanceInv, AnswerInv, [Next]_vars PROVE AnswerInv' OBVIOUS
<1> USE CreationAssumption DEF deployment, persisted, task
<1>1. ASSUME NEW c \in Callers, Create(c) \/ LockIndex(c) \/ ReadIndex(c) PROVE AnswerInv'
  BY <1>1, AnswerKept DEF Create, LockIndex, ReadIndex, GoTo
<1>2. ASSUME NEW c \in Callers, ReserveIndex(c) \/ WriteIndex(c) PROVE AnswerInv'
  BY <1>2, AnswerKept DEF ReserveIndex, WriteIndex, Bump, Return
<1>3. ASSUME NEW c \in Callers, Post(c) PROVE AnswerInv'
  <2>1. CASE Return(c) /\ UNCHANGED offers
    BY <1>3, <2>1, AnswerKept DEF Post, Return
  <2>2. ASSUME NEW asked \in BOOLEAN,
               offers' = Append(offers, [preimage |-> preimage[c], asWanted |-> asked]),
               Holding(c, "verify", preimage[c], Len(offers')) \/ Return(c)
        PROVE AnswerInv'
    <3>1. /\ Len(offers') = Len(offers) + 1 /\ Len(offers) \in Nat
          /\ offers'[Len(offers) + 1].preimage = preimage[c]
          /\ \A i \in 1..Len(offers) : offers'[i] = offers[i]
      BY <2>2 DEF TypeOK
    <3>2. UNCHANGED <<records, payable>> BY <1>3 DEF Post
    <3>3. InvoiceIsBacked' BY <3>1, <3>2 DEF AnswerInv, InvoiceIsBacked
    <3>4. ASSUME NEW d \in Callers
          PROVE /\ pc'[d] \in {"verify", "margin", "persist", "track"} =>
                     at'[d] \in 1..Len(offers') /\ offers'[at'[d]].preimage = preimage'[d]
                /\ pc'[d] \in {"margin", "persist", "track"} => offers'[at'[d]].asWanted
                /\ pc'[d] = "track" => records'[at'[d]] = preimage'[d]
      <4>1. CASE d = c
        BY <2>2, <3>1, <4>1 DEF TypeOK, Holding, Return
      <4>2. CASE d # c
        <5>1. pc'[d] = pc[d] /\ at'[d] = at[d] /\ preimage'[d] = preimage[d]
          BY <2>2, <4>2 DEF TypeOK, Holding, Return
        <5> QED BY <3>1, <3>2, <5>1 DEF AnswerInv
      <4> QED BY <4>1, <4>2
    <3> QED BY <3>3, <3>4 DEF AnswerInv
  <2> QED BY <1>3, <2>1, <2>2 DEF Post
<1>4. ASSUME NEW c \in Callers, VerifyAnswer(c) \/ EnsureTimeoutMargin(c) PROVE AnswerInv'
  BY <1>4 DEF VerifyAnswer, EnsureTimeoutMargin, TypeOK, AnswerInv, InvoiceIsBacked,
    Holding, GoTo, Return
<1>5. ASSUME NEW c \in Callers, UpsertSwap(c) PROVE AnswerInv'
  <2>1. /\ at[c] \in Id /\ at[c] \in 1..Len(offers) /\ offers[at[c]].asWanted
        /\ offers[at[c]].preimage = preimage[c]
    BY <1>5 DEF UpsertSwap, TypeOK, AnswerInv, Id
  <2>2. /\ UNCHANGED <<offers, payable>>
        /\ records' \in {records, [records EXCEPT ![at[c]] = preimage[c]]}
    BY <1>5 DEF UpsertSwap
  <2>3. /\ pc' \in {[pc EXCEPT ![c] = "track"], [pc EXCEPT ![c] = "idle"]}
        /\ pc'[c] = "track" => /\ records' = [records EXCEPT ![at[c]] = preimage[c]]
                               /\ preimage'[c] = preimage[c] /\ at'[c] = at[c]
        /\ \A d \in Callers : d # c => at'[d] = at[d] /\ preimage'[d] = preimage[d]
    BY <1>5 DEF UpsertSwap, FailedWrite, TypeOK, Holding, GoTo, Return
  <2>4. InvoiceIsBacked'
    BY <2>1, <2>2 DEF TypeOK, AnswerInv, InvoiceIsBacked
  <2> QED BY <2>1, <2>2, <2>3, <2>4 DEF TypeOK, AnswerInv
<1>6. ASSUME NEW c \in Callers, TrackSwap(c) PROVE AnswerInv'
  BY <1>6 DEF TrackSwap, TypeOK, AnswerInv, InvoiceIsBacked, Holding, Return
<1>7. ASSUME NEW p \in Processes, Crash(p) PROVE AnswerInv'
  BY <1>7 DEF Crash, TypeOK, AnswerInv, InvoiceIsBacked
<1>8. CASE UNCHANGED vars
  BY <1>8 DEF vars, AnswerInv, InvoiceIsBacked
<1> QED BY <1>1, <1>2, <1>3, <1>4, <1>5, <1>6, <1>7, <1>8 DEF Next, Progress

-----------------------------------------------------------------------------
(* The three parts of the invariant hold together in every reachable state *)
(* of create_reverse_swap.                                                 *)
THEOREM Creation == Spec => []Inv
<1>1. Inv /\ [Next]_vars => Inv'
  BY TypeStep, IssuanceStep, AnswerStep DEF Inv
<1> QED BY InvInit, <1>1, PTL DEF Spec

(* Counter, locks, offers and records keep their types, and the counter    *)
(* does not pass the last index.                                           *)
THEOREM CreationTyped == Spec => []TypeOK
BY Creation, PTL DEF Inv

(* No two swaps at Boltz share a preimage, for any number of tasks and     *)
(* processes, crashes and failed writes (issue, increment_key_index).      *)
THEOREM PreimagesAreFresh == Spec => []NoPreimageReuse
<1>1. Inv => NoPreimageReuse BY DEF Inv, IssuanceInv
<1> QED BY Creation, <1>1, PTL

(* An invoice handed out for payment has the swap's preimage on record and *)
(* the terms asked for (create_reverse_swap).                              *)
THEOREM InvoicesAreBacked == Spec => []InvoiceIsBacked
<1>1. Inv => InvoiceIsBacked BY DEF Inv, AnswerInv
<1> QED BY Creation, <1>1, PTL
=============================================================================
