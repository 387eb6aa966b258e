---------------------------- MODULE DeliveryProofs ----------------------------
(***************************************************************************)
(* For any feeds, requests, pollers, burns and fees: a swap completes once *)
(* and with the amount that was delivered; what create accepted, the claim *)
(* does not refuse; tokens leave through the pinned contracts, and never   *)
(* for a token contract; and a bridged delivery can be traced.             *)
(*                                                                         *)
(* Which destination a registry gives does not matter for the first two:   *)
(* Find and Registry stay unexpanded there.  For the others the registry   *)
(* is taken apart, position by position.                                   *)
(***************************************************************************)
EXTENDS Delivery, SequenceTheorems, WellFoundedInduction, TLAPS

HoldingPoints == {"asking", "probing", "done"}
TaskFields == {"pc", "kind", "ref", "amount"}
Made == swap # NoSwap

Shape ==
  /\ feed \in Feeds /\ registry = IF built = None THEN NoRegistry ELSE Registry(built)
  /\ Made => /\ {"status", "kind", "hash", "ref", "amount"} \subseteq DOMAIN swap
             /\ swap.status \in Statuses
  /\ lock \in Pollers \cup {None} /\ DOMAIN task = Pollers
  /\ \A p \in Pollers : DOMAIN task[p] = TaskFields
  /\ \A p \in Pollers : task[p].pc \in HoldingPoints <=> lock = p
  /\ bridge \in [attested : BOOLEAN, fee : Fees \cup {0},
                 forward : {"none", "pending", "complete", "failed"}, hash : BOOLEAN,
                 landed : BOOLEAN, scan : {"none", "inflight", "failed", "delivered"}]

(* The bridges know only messages that were sent.                          *)
Broadcast == Made /\ swap.hash
BridgeInv ==
  /\ Made /\ swap.status \in {"settling", "completed"} => swap.hash
  /\ Broadcast => sent.amount \in Burns
  /\ ~Broadcast => sent = None /\ bridge = NoMessage
  /\ bridge.attested => SentBy("cctp") /\ bridge.fee \in Fees
  /\ bridge.forward # "none" => bridge.attested
  /\ bridge.scan # "none" => SentBy("oft")

(* What a receipt leaves in the record: of a burn no amount, of anything   *)
(* else that can be traced the amount sent.                                *)
RecordInv ==
  Made => /\ swap.status \in {"locked", "claiming"} => swap.amount = None /\ swap.ref = None
          /\ swap.status = "settling" =>
               /\ swap.amount \in {None, sent.amount}
               /\ sent.kind = "cctp" => swap.amount = None
               /\ swap.ref # None /\ sent.kind # "cctp" => swap.amount = sent.amount
          /\ swap.status = "completed" =>
               IF sent.kind = "cctp" THEN bridge.attested /\ swap.amount = Attested
                                     ELSE swap.amount = sent.amount

(* What a poller has found out.                                            *)
TaskInv == \A p \in Pollers :
  /\ task[p].ref # None =>
       Made /\ swap.status \in {"settling", "completed"} /\ swap.ref # None
  /\ task[p].pc \in HoldingPoints => task[p].ref # None
  /\ task[p].pc \in {"idle", "listed", "asking"} => task[p].amount = None
  /\ task[p].pc = "probing" => bridge.attested /\ task[p].amount = Attested
  /\ task[p].pc = "done" => \/ bridge.attested /\ task[p].amount = Attested
                            \/ bridge.scan # "none" /\ task[p].amount = None

CountInv ==
  /\ completions \in {0, 1}
  /\ ~(Made /\ swap.status = "completed") => completions = 0

Inv == Shape /\ BridgeInv /\ RecordInv /\ TaskInv /\ CountInv

LEMMA InitInv == Init => Inv
  BY DeliveryAssumption DEF Init, Inv, Shape, BridgeInv, RecordInv, TaskInv, CountInv, Made,
    Broadcast, NoSwap, NoMessage, Idle, TaskFields, HoldingPoints

LEMMA IdleTasks ==
  ASSUME task' = [p \in Pollers |-> Idle], lock' = None
  PROVE  /\ DOMAIN task' = Pollers
         /\ \A p \in Pollers : /\ DOMAIN task'[p] = TaskFields /\ task'[p].ref = None
                               /\ task'[p].amount = None /\ task'[p].pc = "idle" /\ lock' # p
  BY DeliveryAssumption DEF Idle, TaskFields

-----------------------------------------------------------------------------
(* The service, from the start of a process to the receipt of a claim.     *)
LEMMA ServiceInv == ASSUME Inv, Service PROVE Inv'
<1> USE DEF Inv, world, process
<1>1. CASE Start
  BY <1>1, DeliveryAssumption DEF Start, Up, Shape, BridgeInv, RecordInv, TaskInv, CountInv,
    Made, Broadcast, SentBy, Attested
<1>2. CASE Stop
  BY <1>2, IdleTasks DEF Stop, Shape, BridgeInv, RecordInv, TaskInv, CountInv, Made, Broadcast,
    SentBy, Attested, HoldingPoints
<1>3. CASE FeedMoves \/ \E r \in Requests : Prepare(r)
  <2>1. /\ feed' \in Feeds
        /\ UNCHANGED <<registry, built, swap, sent, bridge, lock, task, completions>>
    BY <1>3 DEF FeedMoves, Prepare, Shape
  <2> QED BY <2>1 DEF Shape, BridgeInv, RecordInv, TaskInv, CountInv, Made, Broadcast, SentBy,
        Attested
<1>4. CASE Create
  <2>1. /\ UNCHANGED <<registry, built, feed, sent, bridge, lock, task, completions>> /\ ~Made
        /\ \/ UNCHANGED swap
           \/ /\ {"status", "kind", "hash", "ref", "amount"} \subseteq DOMAIN swap'
              /\ swap'.status = "locked" /\ ~swap'.hash /\ swap'.ref = None
              /\ swap'.amount = None
    BY <1>4 DEF Create, Made
  <2>2. \A p \in Pollers : task[p].ref = None BY <2>1 DEF TaskInv
  <2> QED BY <2>1, <2>2 DEF Shape, BridgeInv, RecordInv, TaskInv, CountInv, Made, Broadcast,
        SentBy, Attested, Statuses
<1>5. CASE Claim
  <2>1. /\ UNCHANGED <<registry, built, feed, bridge, lock, task, completions>> /\ Made
        /\ ~Broadcast /\ swap.status \in {"locked", "claiming"}
        /\ \/ /\ sent'.amount \in Burns
              /\ swap' = [swap EXCEPT !.status = "claiming", !.hash = TRUE]
           \/ /\ UNCHANGED sent
              /\ swap' = [swap EXCEPT !.status = "claiming"]
    BY <1>5 DEF Claim, Unclaimed, Sends, Made, Broadcast
  <2>2. /\ Made' /\ swap'.status = "claiming" /\ swap'.ref = None /\ swap'.amount = None
        /\ DOMAIN swap' = DOMAIN swap
        /\ \/ swap'.hash /\ sent'.amount \in Burns
           \/ ~swap'.hash /\ sent' = sent
    BY <2>1 DEF Shape, RecordInv, Made, NoSwap, Broadcast
  <2>3. \A p \in Pollers : task[p].ref = None BY <2>1 DEF TaskInv, Made
  <2>4. bridge = NoMessage BY <2>1 DEF BridgeInv
  <2> QED BY <2>1, <2>2, <2>3, <2>4 DEF Shape, BridgeInv, RecordInv, TaskInv, CountInv, Made,
        Broadcast, SentBy, Attested, Statuses, NoMessage
<1>6. CASE Receipt
  <2> DEFINE s == WithDelivered
  <2>1. /\ UNCHANGED <<registry, built, feed, sent, bridge, lock, task>>
        /\ Made /\ swap.status = "claiming" /\ swap.hash /\ DirectHasEvidence(s)
        /\ swap' = [s EXCEPT !.status = PostClaimStatus]
        /\ completions' = Completes(PostClaimStatus)
    BY <1>6 DEF Receipt, Made, NoSwap
  <2>2. /\ DOMAIN s = DOMAIN swap /\ s.kind = swap.kind /\ s.hash = swap.hash
        /\ s.amount \in {None, sent.amount}
        /\ sent.kind = "cctp" => s.amount = None
        /\ s.ref # None /\ sent.kind # "cctp" => s.amount = sent.amount
    BY <2>1 DEF WithDelivered, DeliveredAndRef, Shape, RecordInv, Made
  <2> HIDE DEF s
  <2>3. /\ PostClaimStatus \in {"settling", "completed"}
        /\ PostClaimStatus = "completed" <=> swap.kind = "direct"
    BY DEF PostClaimStatus
  <2>4. /\ Made' /\ DOMAIN swap' = DOMAIN swap /\ swap'.status = PostClaimStatus
        /\ swap'.hash /\ swap'.amount = s.amount /\ swap'.ref = s.ref
    BY <2>1, <2>2, <2>3 DEF Shape, Made, NoSwap
  <2>5. \A p \in Pollers : task[p].ref = None BY <2>1 DEF TaskInv
  <2>6. PostClaimStatus = "completed" => sent.kind # "cctp" /\ s.amount = sent.amount
    BY <2>1, <2>2, <2>3 DEF DirectHasEvidence
  <2>7. Shape' BY <2>1, <2>3, <2>4 DEF Shape, Made, Statuses
  <2>8. BridgeInv' BY <2>1, <2>4 DEF BridgeInv, Broadcast, SentBy, Made
  <2>9. RecordInv' BY <2>1, <2>2, <2>3, <2>4, <2>6 DEF RecordInv, Attested, Made
  <2>10. TaskInv' BY <2>1, <2>5 DEF TaskInv, Attested, Made
  <2>11. CountInv' BY <2>1, <2>3, <2>4 DEF CountInv, Completes, Made
  <2> QED BY <2>7, <2>8, <2>9, <2>10, <2>11
<1> QED BY <1>1, <1>2, <1>3, <1>4, <1>5, <1>6 DEF Service

-----------------------------------------------------------------------------
(* The bridges.                                                            *)
LEMMA BridgesInv == ASSUME Inv, Bridges PROVE Inv'
<1> USE DEF Inv, process, BridgeStep
<1>1. /\ UNCHANGED <<registry, built, feed, swap, sent, lock, task, completions>>
      /\ sent # None
  <2>1. bridge.forward # "none" \/ bridge.scan # "none" => SentBy("cctp") \/ SentBy("oft")
    BY DEF BridgeInv
  <2> QED BY <2>1 DEF Bridges, Attest, ForwardSubmits, ForwardLands, ForwardFails,
        ReceivedByHand, ScanIndexes, OftFails, OftLands, ScanDelivers, SentBy, Shape
<1>2. Broadcast BY <1>1 DEF BridgeInv
<1>3. /\ Shape'
      /\ bridge'.attested => SentBy("cctp") /\ bridge'.fee \in Fees
      /\ bridge'.forward # "none" => bridge'.attested
      /\ bridge'.scan # "none" => SentBy("oft")
      /\ bridge.attested => bridge'.attested /\ bridge'.fee = bridge.fee
      /\ bridge.scan # "none" => bridge'.scan # "none"
  BY <1>1 DEF Shape, Made, BridgeInv, Bridges, Attest, ForwardSubmits, ForwardLands,
    ForwardFails, ReceivedByHand, ScanIndexes, OftFails, OftLands, ScanDelivers, SentBy
<1>4. BridgeInv' BY <1>1, <1>2, <1>3 DEF BridgeInv, Broadcast, Made, SentBy
<1>5. RecordInv' BY <1>1, <1>3 DEF RecordInv, Made, Attested
<1>6. TaskInv' BY <1>1, <1>3 DEF TaskInv, Made, Attested
<1>7. CountInv' BY <1>1 DEF CountInv, Made
<1> QED BY <1>3, <1>4, <1>5, <1>6, <1>7

-----------------------------------------------------------------------------
(* The pollers.  A step of one is its next state and the lock.             *)
LEMMA PollStep ==
  ASSUME Inv, NEW p \in Pollers, NEW t, NEW l, TaskStep(p, t, l), UNCHANGED <<swap, completions>>,
         DOMAIN t = TaskFields, lock \in {None, p} \/ (l = lock /\ t.pc \notin HoldingPoints),
         l = IF t.pc \in HoldingPoints THEN p ELSE IF lock = p THEN None ELSE lock,
         t.ref # None => Made /\ swap.status \in {"settling", "completed"} /\ swap.ref # None,
         t.pc \in HoldingPoints => t.ref # None,
         t.pc \in {"idle", "listed", "asking"} => t.amount = None,
         t.pc = "probing" => bridge.attested /\ t.amount = Attested,
         t.pc = "done" => \/ bridge.attested /\ t.amount = Attested
                          \/ bridge.scan # "none" /\ t.amount = None
  PROVE  Inv'
<1> USE DEF Inv, world, process, TaskStep
<1>1. task'[p] = t /\ \A q \in Pollers \ {p} : task'[q] = task[q] BY DEF Shape
<1>2. Shape'
  <2>1. \A q \in Pollers : task'[q].pc \in HoldingPoints <=> lock' = q
    BY <1>1, DeliveryAssumption DEF Shape
  <2> QED BY <1>1, <2>1 DEF Shape, Made
<1>3. BridgeInv' BY DEF BridgeInv, Broadcast, Made, SentBy
<1>4. RecordInv' /\ CountInv' BY DEF RecordInv, CountInv, Made, Attested
<1>5. TaskInv' BY <1>1 DEF TaskInv, Made, Attested
<1> QED BY <1>2, <1>3, <1>4, <1>5

LEMMA IdleStep ==
  ASSUME Inv, NEW p \in Pollers, TaskStep(p, Idle, IF lock = p THEN None ELSE lock),
         UNCHANGED <<swap, completions>>
  PROVE  Inv'
<1>1. /\ DOMAIN Idle = TaskFields /\ Idle.pc = "idle" /\ Idle.ref = None /\ Idle.amount = None
      /\ Idle.pc \notin HoldingPoints
  BY DEF Idle, TaskFields, HoldingPoints
<1> HIDE DEF Idle
<1> QED BY <1>1, PollStep

LEMMA PollInv == ASSUME Inv, NEW p \in Pollers, Poll(p) PROVE Inv'
<1> USE DEF Inv
<1>0. /\ DOMAIN task[p] = TaskFields /\ lock \in Pollers \cup {None} /\ None \notin Pollers
      /\ task[p].pc \in HoldingPoints <=> lock = p
  BY DeliveryAssumption DEF Shape
<1>1. CASE List(p)
  <2> DEFINE t == [Idle EXCEPT !.pc = "listed", !.kind = swap.kind, !.ref = swap.ref]
  <2>1. /\ DOMAIN t = TaskFields /\ t.pc = "listed" /\ t.ref = swap.ref /\ t.amount = None
    BY DEF Idle, TaskFields
  <2>2. /\ TaskStep(p, t, lock) /\ UNCHANGED <<swap, completions>>
        /\ Made /\ swap.status = "settling" /\ lock # p
    BY <1>0, <1>1 DEF List, Made, NoSwap, HoldingPoints
  <2> HIDE DEF t
  <2>3. t.pc \notin HoldingPoints BY <2>1 DEF HoldingPoints
  <2> QED BY <2>1, <2>2, <2>3, PollStep
<1>2. CASE LockSwap(p)
  <2>1. CASE task[p].ref = None
    BY <1>0, <1>2, <2>1, IdleStep DEF LockSwap
  <2>2. CASE task[p].ref # None
    <3> DEFINE t == [task[p] EXCEPT !.pc = "asking"]
    <3>1. DOMAIN t = TaskFields /\ t.pc = "asking" /\ t.ref = task[p].ref /\ t.amount = task[p].amount
      BY <1>0 DEF TaskFields
    <3>2. TaskStep(p, t, p) /\ UNCHANGED <<swap, completions>> /\ lock = None /\ task[p].pc = "listed"
      BY <1>2, <2>2 DEF LockSwap
    <3> HIDE DEF t
    <3>3. t.pc \in HoldingPoints BY <3>1 DEF HoldingPoints
    <3> QED BY <2>2, <3>1, <3>2, <3>3, PollStep DEF TaskInv
  <2> QED BY <2>1, <2>2
<1>3. CASE QueryCctp(p)
  <2>1. /\ lock = p /\ task[p].pc = "asking" /\ UNCHANGED <<swap, completions>>
    BY <1>0, <1>3 DEF QueryCctp, HoldingPoints
  <2>2. CASE Forwarded \/ Probed
    <3>1. PICK point \in {"done", "probing"} :
            TaskStep(p, [task[p] EXCEPT !.pc = point, !.amount = Attested], p)
      BY <1>3, <2>2 DEF QueryCctp
    <3> DEFINE t == [task[p] EXCEPT !.pc = point, !.amount = Attested]
    <3>2. DOMAIN t = TaskFields /\ t.pc = point /\ t.ref = task[p].ref /\ t.amount = Attested
      BY <1>0 DEF TaskFields
    <3>3. TaskStep(p, t, p) BY <3>1
    <3> HIDE DEF t
    <3>4. t.pc \in HoldingPoints /\ bridge.attested BY <2>2, <3>2 DEF HoldingPoints, Forwarded, Probed
    <3> QED BY <2>1, <3>2, <3>3, <3>4, PollStep DEF TaskInv, HoldingPoints
  <2>3. CASE ~(Forwarded \/ Probed)
    <3>1. TaskStep(p, Idle, None) BY <1>3, <2>3 DEF QueryCctp
    <3> QED BY <2>1, <3>1, IdleStep
  <2> QED BY <2>2, <2>3
<1>4. CASE ProbeSolana(p) \/ QueryOft(p)
  <2>1. /\ lock = p /\ task[p].pc \in {"probing", "asking"} /\ UNCHANGED <<swap, completions>>
        /\ \/ TaskStep(p, Idle, None)
           \/ /\ TaskStep(p, [task[p] EXCEPT !.pc = "done"], p)
              /\ task[p].pc = "probing" \/ bridge.scan # "none"
    BY <1>0, <1>4 DEF ProbeSolana, QueryOft, HoldingPoints, IsDelivered
  <2>2. CASE TaskStep(p, Idle, None)
    BY <2>1, <2>2, IdleStep
  <2>3. CASE ~TaskStep(p, Idle, None)
    <3> DEFINE t == [task[p] EXCEPT !.pc = "done"]
    <3>1. DOMAIN t = TaskFields /\ t.pc = "done" /\ t.ref = task[p].ref /\ t.amount = task[p].amount
      BY <1>0 DEF TaskFields
    <3>2. TaskStep(p, t, p) BY <2>1, <2>3
    <3> HIDE DEF t
    <3>3. t.pc \in HoldingPoints BY <3>1 DEF HoldingPoints
    <3>4. \/ bridge.attested /\ t.amount = Attested
          \/ bridge.scan # "none" /\ t.amount = None
      BY <2>1, <2>3, <3>1 DEF TaskInv
    <3> QED BY <2>1, <3>1, <3>2, <3>3, <3>4, PollStep DEF TaskInv, HoldingPoints
  <2> QED BY <2>2, <2>3
<1>5. CASE ReadFails(p)
  <2>1. lock = p BY <1>0, <1>5 DEF ReadFails, HoldingPoints
  <2> QED BY <1>5, <2>1, IdleStep DEF ReadFails
<1>6. CASE Cancel(p)
  BY <1>6, IdleStep DEF Cancel
<1>7. CASE FinalizeCompleted(p)
  <2>1. lock = p /\ task[p].pc = "done" /\ TaskStep(p, Idle, None)
    BY <1>0, <1>7 DEF FinalizeCompleted, HoldingPoints
  <2>2. CASE ~StillSettling
    BY <1>7, <2>1, <2>2, IdleStep DEF FinalizeCompleted
  <2>3. CASE StillSettling
    <3>1. /\ Made /\ swap.status = "settling" /\ completions' = completions + 1
          /\ swap' = [swap EXCEPT !.status = "completed", !.amount = FinalAmount(p)]
      BY <1>7, <2>3 DEF FinalizeCompleted, StillSettling, Made, NoSwap
    <3>2. /\ Made' /\ DOMAIN swap' = DOMAIN swap /\ swap'.status = "completed"
          /\ swap'.hash = swap.hash /\ swap'.ref = swap.ref /\ swap'.amount = FinalAmount(p)
      BY <3>1 DEF Shape, Made, NoSwap
    <3>3. swap.ref # None /\ Broadcast
      BY <2>1, <3>1 DEF TaskInv, BridgeInv, Broadcast, HoldingPoints
    <3>4. IF sent.kind = "cctp" THEN bridge.attested /\ FinalAmount(p) = Attested
                                ELSE FinalAmount(p) = sent.amount
      <4>1. CASE bridge.attested /\ task[p].amount = Attested
        BY <3>1, <4>1 DEF FinalAmount, RecordInv, BridgeInv, SentBy
      <4>2. CASE bridge.scan # "none" /\ task[p].amount = None
        BY <3>1, <3>3, <4>2 DEF FinalAmount, RecordInv, BridgeInv, SentBy
      <4> QED BY <2>1, <4>1, <4>2 DEF TaskInv
    <3>5. /\ task'[p] = Idle /\ \A q \in Pollers \ {p} : task'[q] = task[q]
          /\ lock' = None /\ DOMAIN task' = Pollers
          /\ UNCHANGED <<feed, registry, built, sent, bridge>>
      BY <2>1 DEF TaskStep, Shape, process, world
    <3>6. DOMAIN Idle = TaskFields /\ Idle.pc \notin HoldingPoints /\ Idle.ref = None
          /\ Idle.amount = None /\ Idle.pc = "idle"
      BY DEF Idle, TaskFields, HoldingPoints
    <3>7. Shape'
      <4>1. \A q \in Pollers : task'[q].pc \in HoldingPoints <=> lock' = q
        BY <1>0, <2>1, <3>5, <3>6 DEF Shape
      <4>2. \A q \in Pollers : DOMAIN task'[q] = TaskFields BY <3>5, <3>6 DEF Shape
      <4>3. {"status", "kind", "hash", "ref", "amount"} \subseteq DOMAIN swap'
        BY <3>1, <3>2 DEF Shape
      <4> QED BY <3>2, <3>5, <4>1, <4>2, <4>3 DEF Shape, Made, Statuses
    <3>8. BridgeInv' BY <3>2, <3>3, <3>5 DEF BridgeInv, Broadcast, Made, SentBy
    <3>9. RecordInv' BY <3>2, <3>4, <3>5 DEF RecordInv, Attested
    <3>10. TaskInv' BY <3>2, <3>5, <3>6 DEF TaskInv, Attested, HoldingPoints
    <3>11. CountInv' BY <3>1, <3>2 DEF CountInv
    <3> QED BY <3>7, <3>8, <3>9, <3>10, <3>11
  <2> QED BY <2>2, <2>3
<1> QED BY <1>1, <1>2, <1>3, <1>4, <1>5, <1>6, <1>7 DEF Poll

LEMMA NextInv == ASSUME Inv, [Next]_vars PROVE Inv'
<1>1. CASE UNCHANGED vars
  BY <1>1 DEF vars, Inv, Shape, BridgeInv, RecordInv, TaskInv, CountInv, Made, Broadcast, SentBy,
    Attested
<1> QED BY <1>1, ServiceInv, BridgesInv, PollInv DEF Next

-----------------------------------------------------------------------------
(* Types hold, and the swap's lock is with the poller that asks, probes or *)
(* finalizes.                                                              *)
THEOREM DeliveryTyped == Spec => []TypeOK
<1>1. Inv => TypeOK
  <2> SUFFICES ASSUME Inv PROVE TypeOK OBVIOUS
  <2>1. Made => swap.amount \in Amounts
    <3>1. Made /\ swap.status \in {"settling", "completed"} => sent.amount \in Nat
      BY DeliveryAssumption DEF Inv, BridgeInv, Broadcast
    <3>2. Made /\ swap.status \in {"settling", "completed"} /\ bridge.attested => Attested \in Nat
      BY DeliveryAssumption DEF Inv, BridgeInv, Broadcast, Attested
    <3> QED BY <3>1, <3>2 DEF Inv, Shape, RecordInv, Statuses, Amounts
  <2> QED BY <2>1 DEF Inv, Shape, TypeOK, Made, HoldingPoints
<1> QED BY <1>1, InitInv, NextInv, PTL DEF Spec

(* The record of a completed swap holds what was delivered: what the       *)
(* Router sent, and of a CCTP burn what is left after Circle's fee.        *)
THEOREM AmountDelivered == Spec => []AmountIsDelivered
<1>1. Inv => AmountIsDelivered
  BY DEF Inv, RecordInv, AmountIsDelivered, Attested, Made, NoSwap
<1> QED BY <1>1, InitInv, NextInv, PTL DEF Spec

(* However many pollers ask for one swap, its completion is announced once.*)
THEOREM CompletesOnce == Spec => []CompletedOnce
<1>1. Inv => CompletedOnce BY DEF Inv, CountInv, CompletedOnce
<1> QED BY <1>1, InitInv, NextInv, PTL DEF Spec

-----------------------------------------------------------------------------
(* The registry.  A set of positions has a least one, so the first match   *)
(* is a match.                                                             *)
LEMMA LeastOf ==
  ASSUME NEW S \in SUBSET Nat, S # {}
  PROVE  Min(S) \in S /\ \A y \in S : Min(S) <= y
<1>1. PICK x \in S : \A y \in S : <<y, x>> \notin OpToRel(<, Nat)
  BY WFMin, NatLessThanWellFounded, Zenon
<1>2. \A y \in S : x <= y
  <2> TAKE y \in S
  <2>1. <<y, x>> \notin OpToRel(<, Nat) BY <1>1
  <2>2. ~(y < x)
    <3>1. y \in Nat /\ x \in Nat OBVIOUS
    <3>2. SUFFICES ASSUME y < x PROVE FALSE OBVIOUS
    <3>3. <<y, x>> \in OpToRel(<, Nat) BY <3>1, <3>2, Zenon DEF OpToRel
    <3> QED BY <2>1, <3>3
  <2> QED BY <2>2
<1> QED BY <1>2 DEF Min

(* The table of CCTP chains names each chain once.                         *)
LEMMA CctpLabels ==
  /\ CctpChains[1][1] = "base" /\ CctpChains[2][1] = "ethereum" /\ CctpChains[3][1] = "avalanche"
  /\ CctpChains[4][1] = "optimism" /\ CctpChains[5][1] = "polygon pos"
  /\ CctpChains[6][1] = "unichain" /\ CctpChains[7][1] = "linea" /\ CctpChains[8][1] = "codex"
  /\ CctpChains[9][1] = "sonic" /\ CctpChains[10][1] = "world chain"
  /\ CctpChains[11][1] = "monad" /\ CctpChains[12][1] = "sei" /\ CctpChains[13][1] = "xdc"
  /\ CctpChains[14][1] = "ink" /\ CctpChains[15][1] = "plume"
  BY SMT DEF CctpChains
LEMMA CctpIds ==
  /\ CctpChains[1][2] = 8453 /\ CctpChains[2][2] = 1 /\ CctpChains[3][2] = 43114
  /\ CctpChains[4][2] = 10 /\ CctpChains[5][2] = 137 /\ CctpChains[6][2] = 130
  /\ CctpChains[7][2] = 59144 /\ CctpChains[8][2] = 81224 /\ CctpChains[9][2] = 146
  /\ CctpChains[10][2] = 480 /\ CctpChains[11][2] = 143 /\ CctpChains[12][2] = 1329
  /\ CctpChains[13][2] = 50 /\ CctpChains[14][2] = 57073 /\ CctpChains[15][2] = 98866
  BY SMT DEF CctpChains

LEMMA CctpTable ==
  /\ Len(CctpChains) \in Nat /\ DOMAIN CctpChains = 1..Len(CctpChains)
  /\ \A i, j \in DOMAIN CctpChains :
       CctpChains[i][1] = CctpChains[j][1] \/ CctpChains[i][2] = CctpChains[j][2] => i = j
  /\ \A i \in DOMAIN CctpChains : CctpChains[i][1] # "solana" /\ CctpChains[i][2] # 0
<1>1. Len(CctpChains) = 15 /\ DOMAIN CctpChains = 1..15 BY SMT DEF CctpChains
<1>2. \A i \in 1..15 : \/ i = 1 \/ i = 2 \/ i = 3 \/ i = 4 \/ i = 5 \/ i = 6 \/ i = 7 \/ i = 8
                       \/ i = 9 \/ i = 10 \/ i = 11 \/ i = 12 \/ i = 13 \/ i = 14 \/ i = 15
  OBVIOUS
<1>3. ASSUME NEW i \in 1..15, NEW j \in 1..15, CctpChains[i][1] = CctpChains[j][1] PROVE i = j
  BY <1>2, <1>3, CctpLabels, ZenonT(60)
<1>4. \A i, j \in 1..15 : CctpChains[i][2] = CctpChains[j][2] => i = j BY CctpIds
<1>5. \A i \in 1..15 : CctpChains[i][2] # 0 BY CctpIds
<1>6. \A i \in 1..15 : CctpChains[i][1] # "solana" BY <1>2, CctpLabels, Zenon
<1> QED BY <1>1, <1>3, <1>4, <1>5, <1>6

LEMMA Joined ==
  ASSUME NEW S, NEW m \in Nat, NEW n \in Nat, NEW s \in [1..m -> S], NEW t \in [1..n -> S]
  PROVE  /\ DOMAIN (s \o t) = 1..(m + n)
         /\ \A i \in 1..(m + n) : (s \o t)[i] = IF i <= m THEN s[i] ELSE t[i - m]
<1>1. s \in Seq(S) /\ t \in Seq(S) BY SeqDef
<1>2. Len(s) = m /\ Len(t) = n BY <1>1, LenProperties
<1> QED BY <1>1, <1>2

(* The USDC destinations, one by one.                                      *)
LEMMA UsdcList ==
  ASSUME NEW source
  PROVE  LET usdc == UsdcDestinations(source)
             m == Len(CctpChains) IN
         /\ DOMAIN usdc = 1..(m + 2)
         /\ \A i \in 1..m : usdc[i] = CctpUsdc(CctpChains[i][1], "evm", CctpChains[i][2])
         /\ usdc[m + 1] = CctpUsdc("solana", "solana", 0)
         /\ usdc[m + 2] = Usdc(source, "evm", SourceId, SourceTokens.usdc, "direct")
<1> DEFINE m == Len(CctpChains)
           table == [i \in DOMAIN CctpChains |-> CctpUsdc(CctpChains[i][1], "evm", CctpChains[i][2])]
           own == << CctpUsdc("solana", "solana", 0),
                     Usdc(source, "evm", SourceId, SourceTokens.usdc, "direct") >>
           usdc == table \o own
           S == {table[i] : i \in 1..m} \cup {own[1], own[2]}
<1>1. /\ m \in Nat /\ table \in [1..m -> S] /\ own \in [1..2 -> S]
      /\ own[1] = CctpUsdc("solana", "solana", 0)
      /\ own[2] = Usdc(source, "evm", SourceId, SourceTokens.usdc, "direct")
      /\ \A i \in 1..m : table[i] = CctpUsdc(CctpChains[i][1], "evm", CctpChains[i][2])
  BY CctpTable
<1>2. UsdcDestinations(source) = usdc BY DEF UsdcDestinations
<1> HIDE DEF m, table, own, S
<1>3. PICK n \in Nat : n = 2 OBVIOUS
<1>4. /\ DOMAIN usdc = 1..(m + n)
      /\ \A i \in 1..(m + n) : usdc[i] = IF i <= m THEN table[i] ELSE own[i - m]
  <2>1. own \in [1..n -> S] BY <1>1, <1>3
  <2> QED BY <1>1, <2>1, Joined
<1> HIDE DEF usdc
<1>5. /\ DOMAIN usdc = 1..(m + 2) /\ \A i \in 1..m : usdc[i] = table[i]
      /\ usdc[m + 1] = own[1] /\ usdc[m + 2] = own[2]
  BY <1>1, <1>3, <1>4
<1> QED BY <1>1, <1>2, <1>5 DEF m

Last(f) == Len(Listed(f))
Transports == {"evm", "solana", "tron"}
Kinds == {"direct", "oft", "cctp"}

(* The two lists of a feed, one after the other.                           *)
LEMMA ListedShape ==
  ASSUME NEW f \in Feeds
  PROVE  /\ Len(f["native"]) \in Nat /\ DOMAIN f["native"] = 1..Len(f["native"])
         /\ Last(f) \in Nat /\ Last(f) >= Len(f["native"]) /\ DOMAIN Listed(f) = 1..Last(f)
         /\ \A n \in DOMAIN f["native"] : Listed(f)[n] = f["native"][n]
<1> DEFINE s == f["native"]
           t == f["legacy"]
           S == Range(s) \cup Range(t)
           m == Len(s)
           n == Len(t)
<1>1. s \in Seq(Range(s)) /\ t \in Seq(Range(t)) BY FeedAssumption DEF Meshes
<1> HIDE DEF s, t
<1>2. /\ m \in Nat /\ DOMAIN s = 1..m /\ s \in [1..m -> Range(s)]
      /\ n \in Nat /\ DOMAIN t = 1..n /\ t \in [1..n -> Range(t)]
  BY <1>1, LenProperties
<1>3. s \in [1..m -> S] /\ t \in [1..n -> S] BY <1>2 DEF Range
<1> HIDE DEF S, m, n
<1> DEFINE l == s \o t
<1>4. DOMAIN l = 1..(m + n) /\ \A i \in 1..(m + n) : l[i] = IF i <= m THEN s[i] ELSE t[i - m]
  BY <1>2, <1>3, Joined
<1>5. Len(l) = m + n
  <2>1. s \in Seq(S) /\ t \in Seq(S) BY <1>2, <1>3, SeqDef
  <2> QED BY <2>1, ConcatProperties DEF m, n
<1> HIDE DEF l
<1>6. /\ m \in Nat /\ DOMAIN s = 1..m /\ Len(l) \in Nat /\ Len(l) >= m /\ DOMAIN l = 1..Len(l)
      /\ \A i \in 1..m : l[i] = s[i]
  BY <1>2, <1>4, <1>5
<1>7. Listed(f) = l BY DEF Listed, l, s, t
<1> QED BY <1>6, <1>7 DEF Last, m, s

LEMMA BuildShape ==
  ASSUME NEW entry, IsBuilt(entry), NEW mesh \in Meshes, NEW source
  PROVE  LET d == Build(entry, mesh, source) IN
         /\ d.kind \in {"direct", "oft"} /\ d.transport \in Transports
         /\ d.asset \in {"USDT", "USDT0"} /\ d.label = entry.name /\ d.id = entry.id
         /\ d.kind = "oft" => d.mesh = mesh
         /\ d.kind = "direct" => d.mesh = None
<1>1. Transport(entry) \in Transports BY DEF IsBuilt, Transport, Transports
<1> QED BY <1>1 DEF Build

LEMMA CandidateShape ==
  ASSUME NEW f \in Feeds, NEW source, NEW i \in DOMAIN Candidates(f, source)
  PROVE  LET d == Candidates(f, source)[i] IN
         /\ i \in 1..Last(f) /\ IsBuilt(Listed(f)[i])
         /\ d.kind \in {"direct", "oft"} /\ d.transport \in Transports
         /\ d.asset \in {"USDT", "USDT0"} /\ d.label = Listed(f)[i].name /\ d.id = Listed(f)[i].id
         /\ d.kind = "oft" => d.mesh \in Meshes
         /\ d.mesh = "legacy" => i > Len(f["native"])
<1> DEFINE mesh == IF i <= Len(f["native"]) THEN "native" ELSE "legacy"
           entry == Listed(f)[i]
<1>1. i \in DOMAIN Listed(f) /\ IsBuilt(entry) /\ Candidates(f, source)[i] = Build(entry, mesh, source)
  BY DEF Candidates
<1>2. mesh \in Meshes /\ (mesh = "legacy" => ~(i <= Len(f["native"]))) BY DEF Meshes
<1> HIDE DEF mesh, entry
<1>3. None # "legacy" BY DestinationsAssumption DEF Meshes
<1> QED BY <1>1, <1>2, <1>3, BuildShape, ListedShape DEF entry

(* A list of destinations: first what was kept of the feed, then USDC.     *)
LEMMA DestsShape ==
  ASSUME NEW f \in Feeds, NEW source
  PROVE  LET dests == AllDestinations(f, source)
             cands == Candidates(f, source)
             usdc == UsdcDestinations(source) IN
         /\ DOMAIN dests \subseteq Nat
         /\ \A i \in DOMAIN dests :
              \/ /\ i <= Last(f) /\ i \in DOMAIN cands /\ IsKept(cands, i) /\ dests[i] = cands[i]
              \/ /\ i > Last(f) /\ i - Last(f) \in 1..(Len(CctpChains) + 2)
                 /\ dests[i] = usdc[i - Last(f)]
<1> DEFINE dests == AllDestinations(f, source)
           cands == Candidates(f, source)
           usdt == UsdtDestinations(f, source)
           usdc == UsdcDestinations(source)
           k == Len(CctpChains) + 2
<1>1. DOMAIN usdt \subseteq DOMAIN cands /\ \A i \in DOMAIN usdt : IsKept(cands, i) /\ usdt[i] = cands[i]
  BY DEF UsdtDestinations
<1>2. DOMAIN usdc = 1..k /\ k \in Nat BY UsdcList, CctpTable
<1>3. Last(f) \in Nat /\ DOMAIN cands \subseteq 1..Last(f) BY ListedShape, CandidateShape
<1>4. /\ DOMAIN dests = DOMAIN usdt \cup {Last(f) + n : n \in DOMAIN usdc}
      /\ \A i \in DOMAIN dests : dests[i] = IF i <= Last(f) THEN usdt[i] ELSE usdc[i - Last(f)]
  BY DEF AllDestinations, Last
<1> HIDE DEF dests, cands, usdt, usdc, k
<1>5. ASSUME NEW i \in DOMAIN usdt PROVE i \in Nat /\ i <= Last(f) /\ i \in DOMAIN cands
  BY <1>1, <1>3
<1>6. ASSUME NEW n \in 1..k PROVE /\ Last(f) + n \in Nat /\ Last(f) + n > Last(f)
                                  /\ (Last(f) + n) - Last(f) = n
  BY <1>2, <1>3
<1>7. ASSUME NEW i \in DOMAIN dests
      PROVE  /\ i \in Nat
             /\ \/ i <= Last(f) /\ i \in DOMAIN cands /\ IsKept(cands, i) /\ dests[i] = cands[i]
                \/ i > Last(f) /\ i - Last(f) \in 1..k /\ dests[i] = usdc[i - Last(f)]
  <2>1. CASE i \in DOMAIN usdt BY <1>1, <1>4, <1>5, <2>1
  <2>2. CASE i \notin DOMAIN usdt
    <3>1. PICK n \in 1..k : i = Last(f) + n BY <1>2, <1>4, <2>2
    <3>2. i \in Nat /\ i > Last(f) /\ i - Last(f) = n BY <1>6, <3>1
    <3>3. ~(i <= Last(f)) BY <1>3, <3>2
    <3>4. dests[i] = usdc[i - Last(f)] BY <1>4, <3>3
    <3> QED BY <3>1, <3>2, <3>4
  <2> QED BY <2>1, <2>2
<1> QED BY <1>7 DEF dests, cands, usdc, k

LEMMA UsdcShape ==
  ASSUME NEW source, NEW n \in 1..(Len(CctpChains) + 2)
  PROVE  LET d == UsdcDestinations(source)[n] IN
         /\ d.kind \in {"direct", "cctp"} /\ d.transport \in {"evm", "solana"} /\ d.asset = "USDC"
         /\ d.mesh = None
<1>1. Len(CctpChains) \in Nat BY CctpTable
<1>2. \/ n \in 1..Len(CctpChains) \/ n = Len(CctpChains) + 1 \/ n = Len(CctpChains) + 2 BY <1>1
<1> DEFINE d == UsdcDestinations(source)[n]
<1>3. CASE n \in 1..Len(CctpChains)
  <2>1. d = CctpUsdc(CctpChains[n][1], "evm", CctpChains[n][2]) BY <1>3, UsdcList
  <2> HIDE DEF d
  <2> QED BY <2>1 DEF CctpUsdc, Usdc, d
<1>4. CASE n = Len(CctpChains) + 1
  <2>1. d = CctpUsdc("solana", "solana", 0) BY <1>4, UsdcList
  <2> HIDE DEF d
  <2> QED BY <2>1 DEF CctpUsdc, Usdc, d
<1>5. CASE n = Len(CctpChains) + 2
  <2>1. d = Usdc(source, "evm", SourceId, SourceTokens.usdc, "direct") BY <1>5, UsdcList
  <2> HIDE DEF d
  <2> QED BY <2>1 DEF Usdc, d
<1> QED BY <1>2, <1>3, <1>4, <1>5

LEMMA DestinationShape ==
  ASSUME NEW f \in Feeds, NEW source, NEW i \in DOMAIN AllDestinations(f, source)
  PROVE  LET d == AllDestinations(f, source)[i] IN
         /\ d.kind \in Kinds /\ d.transport \in Transports
         /\ d.kind = "oft" => d.mesh \in Meshes
         /\ d.kind = "cctp" => d.transport # "tron"
         /\ d.asset = "USDC" <=> i > Last(f)
<1> DEFINE d == AllDestinations(f, source)[i]
<1>1. i \in Nat /\ Last(f) \in Nat BY DestsShape, ListedShape
<1>2. CASE i <= Last(f)
  <2>1. i \in DOMAIN Candidates(f, source) /\ d = Candidates(f, source)[i]
    BY <1>1, <1>2, DestsShape
  <2> HIDE DEF d
  <2>2. /\ d.kind \in {"direct", "oft"} /\ d.transport \in Transports
        /\ d.asset \in {"USDT", "USDT0"} /\ (d.kind = "oft" => d.mesh \in Meshes)
    BY <2>1, CandidateShape
  <2> QED BY <1>1, <1>2, <2>2 DEF Kinds, d
<1>3. CASE i > Last(f)
  <2>1. i - Last(f) \in 1..(Len(CctpChains) + 2) /\ d = UsdcDestinations(source)[i - Last(f)]
    BY <1>1, <1>3, DestsShape
  <2> HIDE DEF d
  <2>2. /\ d.kind \in {"direct", "cctp"} /\ d.transport \in {"evm", "solana"} /\ d.asset = "USDC"
    BY <2>1, UsdcShape
  <2> QED BY <1>3, <2>2 DEF Kinds, Transports, d
<1> QED BY <1>1, <1>2, <1>3

(* A registry that could be built holds the pins and that list.            *)
LEMMA RegistryShape ==
  ASSUME NEW f \in Feeds
  PROVE  /\ \A mesh \in Meshes : Registry(f).oft[mesh] \in {None, Pin[mesh]}
         /\ \/ Registry(f) = NoRegistry
            \/ /\ OfSource(f["native"]) # {}
               /\ Registry(f).dests = AllDestinations(f, Own(f["native"]).name)
<1>1. NoRegistry.oft = [mesh \in Meshes |-> None] BY DEF NoRegistry
<1>2. CASE Registry(f) = NoRegistry BY <1>1, <1>2
<1>3. CASE Registry(f) # NoRegistry
  <2>1. /\ OfSource(f["native"]) # {} /\ \A mesh \in Meshes : PinHolds(f, mesh)
        /\ Registry(f).oft = [mesh \in Meshes |-> SourceOft(f[mesh])]
        /\ Registry(f).dests = AllDestinations(f, Own(f["native"]).name)
    BY <1>3 DEF Registry
  <2> QED BY <2>1 DEF PinHolds
<1> QED BY <1>2, <1>3

LEMMA RegistryDests ==
  ASSUME NEW f \in Feeds, NEW i \in DOMAIN Registry(f).dests
  PROVE  LET d == Registry(f).dests[i] IN
         /\ i \in Nat /\ d.kind \in Kinds /\ d.transport \in Transports
         /\ d.kind = "oft" => d.mesh \in Meshes
         /\ d.kind = "cctp" => d.transport # "tron"
<1>1. CASE Registry(f) = NoRegistry
  <2>1. NoRegistry.dests = <<>> /\ DOMAIN <<>> = {} BY DEF NoRegistry
  <2> QED BY <1>1, <2>1
<1>2. CASE Registry(f) # NoRegistry
  BY <1>2, RegistryShape, DestsShape, DestinationShape
<1> QED BY <1>1, <1>2

(* find gives one of the list, or nothing.                                 *)
LEMMA Found ==
  ASSUME NEW f \in Feeds, NEW label, NEW asset
  PROVE  LET d == Find(Registry(f), label, asset) IN
         \/ d = NotFound
         \/ \E i \in DOMAIN Registry(f).dests : d = Registry(f).dests[i]
<1> DEFINE found == Matching(Registry(f).dests, label, asset)
<1>1. found \in SUBSET Nat /\ found \subseteq DOMAIN Registry(f).dests
  BY RegistryDests DEF Matching
<1>2. found # {} => Min(found) \in found BY <1>1, LeastOf
<1> QED BY <1>1, <1>2 DEF Find

LEMMA FoundShape ==
  ASSUME NEW f \in Feeds, NEW label, NEW asset
  PROVE  LET d == Find(Registry(f), label, asset) IN
         /\ d = NotFound <=> d.kind = None
         /\ d # NotFound => d.kind \in Kinds /\ d.transport \in Transports
         /\ d.kind = "oft" => d.mesh \in Meshes
         /\ d.kind = "cctp" => d.transport # "tron"
<1> DEFINE d == Find(Registry(f), label, asset)
<1>1. NotFound.kind = None /\ None \notin Kinds BY DestinationsAssumption DEF NotFound, Kinds
<1>2. CASE d = NotFound BY <1>1, <1>2 DEF Kinds
<1>3. CASE d # NotFound
  <2>1. PICK i \in DOMAIN Registry(f).dests : d = Registry(f).dests[i] BY <1>3, Found
  <2> HIDE DEF d
  <2> QED BY <1>1, <1>3, <2>1, RegistryDests DEF d
<1> QED BY <1>2, <1>3

(* What the pass keeps has neither label nor chain id in common.           *)
LEMMA KeptDiffer ==
  ASSUME NEW f \in Feeds, NEW source, NEW cands, cands = Candidates(f, source),
         NEW i \in DOMAIN cands, NEW j \in DOMAIN cands, i < j, IsKept(cands, i), IsKept(cands, j)
  PROVE  cands[i].label # cands[j].label /\ (cands[i].id = cands[j].id => cands[i].id = 0)
<1>1. i \in Earlier(cands, j) BY DEF Earlier
<1>2. cands[i].label \in SeenLabels(cands, j) BY <1>1 DEF IsKept, SeenLabels
<1>3. cands[i].id # 0 => cands[i].id \in SeenChainIds(cands, j) BY <1>1 DEF SeenChainIds
<1> QED BY <1>2, <1>3 DEF IsKept, IdIsTaken

(* Nor has the USDC list, the source chain at its end included.            *)
LEMMA UsdcDiffer ==
  ASSUME NEW f \in Feeds, OfSource(f["native"]) # {},
         NEW p \in 1..(Len(CctpChains) + 2), NEW q \in 1..(Len(CctpChains) + 2), p < q
  PROVE  LET usdc == UsdcDestinations(Own(f["native"]).name) IN
         usdc[p].label # usdc[q].label /\ (usdc[p].id = usdc[q].id => usdc[p].id = 0)
<1> DEFINE m == Len(CctpChains)
           source == Own(f["native"]).name
           usdc == UsdcDestinations(source)
<1>1. m \in Nat /\ DOMAIN CctpChains = 1..m BY CctpTable
<1>2. /\ source # "solana" /\ \A n \in 1..m : source # CctpChains[n][1] /\ SourceId # CctpChains[n][2]
      /\ SourceId # 0
  BY <1>1, FeedAssumption, SourceIsNotCctp, DestinationsAssumption
<1> DEFINE r(n) == CctpUsdc(CctpChains[n][1], "evm", CctpChains[n][2])
<1>3. /\ \A n \in 1..m : usdc[n] = r(n)
      /\ usdc[m + 1] = CctpUsdc("solana", "solana", 0)
      /\ usdc[m + 2] = Usdc(source, "evm", SourceId, SourceTokens.usdc, "direct")
  BY UsdcList
<1> SUFFICES usdc[p].label # usdc[q].label /\ (usdc[p].id = usdc[q].id => usdc[p].id = 0)
  OBVIOUS
<1> HIDE DEF usdc, source
<1>4. \A n \in 1..m : /\ usdc[n].label = CctpChains[n][1] /\ usdc[n].id = CctpChains[n][2]
                      /\ CctpChains[n][1] # "solana" /\ CctpChains[n][2] # 0
  <2> TAKE n \in 1..m
  <2>1. usdc[n] = r(n) /\ n \in DOMAIN CctpChains BY <1>1, <1>3
  <2>2. r(n).label = CctpChains[n][1] /\ r(n).id = CctpChains[n][2] BY DEF CctpUsdc, Usdc
  <2> QED BY <2>1, <2>2, CctpTable
<1>5. /\ usdc[m + 1].label = "solana" /\ usdc[m + 1].id = 0
      /\ usdc[m + 2].label = source /\ usdc[m + 2].id = SourceId
  BY <1>3 DEF CctpUsdc, Usdc
<1>6. \A i, j \in 1..m : CctpChains[i][1] = CctpChains[j][1] \/ CctpChains[i][2] = CctpChains[j][2] => i = j
  BY <1>1, CctpTable
<1> HIDE DEF m
<1>7. p \in 1..(m + 2) /\ q \in 1..(m + 2) /\ p < q BY DEF m
<1>8. /\ p \in 1..m \/ p = m + 1
      /\ q \in 1..m \/ q = m + 1 \/ q = m + 2
      /\ ~(p = m + 1 /\ q \in 1..m) /\ p # q
  BY <1>1, <1>7
<1>9. CASE p \in 1..m /\ q \in 1..m BY <1>4, <1>6, <1>8, <1>9
<1>10. CASE p \in 1..m /\ q = m + 1 BY <1>4, <1>5, <1>10
<1>11. CASE p \in 1..m /\ q = m + 2 BY <1>2, <1>4, <1>5, <1>11
<1>12. CASE p = m + 1 /\ q = m + 2 BY <1>2, <1>5, <1>12
<1> QED BY <1>8, <1>9, <1>10, <1>11, <1>12

LEMMA OneRoute ==
  ASSUME NEW f \in Feeds, Registry(f) # NoRegistry
  PROVE  Unambiguous(Registry(f).dests) /\ NativeFirst(Registry(f).dests, f["native"])
<1> DEFINE source == Own(f["native"]).name
           cands == Candidates(f, source)
           usdc == UsdcDestinations(source)
           dests == AllDestinations(f, source)
<1>1. OfSource(f["native"]) # {} /\ Registry(f).dests = dests BY RegistryShape
<1>2. DOMAIN dests \subseteq Nat /\ Last(f) \in Nat /\ DOMAIN cands \subseteq Nat
  BY DestsShape, ListedShape, CandidateShape
<1>3. ASSUME NEW i \in DOMAIN dests
      PROVE  /\ \/ i <= Last(f) /\ i \in DOMAIN cands /\ IsKept(cands, i) /\ dests[i] = cands[i]
                \/ /\ i > Last(f) /\ i - Last(f) \in 1..(Len(CctpChains) + 2)
                   /\ dests[i] = usdc[i - Last(f)]
             /\ dests[i].asset = "USDC" <=> i > Last(f)
  BY DestsShape, DestinationShape
<1>4. ASSUME NEW i \in DOMAIN dests, NEW j \in DOMAIN dests, i < j,
             dests[i].asset = "USDC" <=> dests[j].asset = "USDC"
      PROVE  dests[i].label # dests[j].label /\ (dests[i].id = dests[j].id => dests[i].id = 0)
  <2>1. i \in Nat /\ j \in Nat BY <1>2
  <2>2. CASE i <= Last(f)
    <3>1. /\ i \in DOMAIN cands /\ IsKept(cands, i) /\ dests[i] = cands[i]
          /\ j \in DOMAIN cands /\ IsKept(cands, j) /\ dests[j] = cands[j]
      BY <1>2, <1>3, <1>4, <2>1, <2>2
    <3> HIDE DEF cands, dests
    <3> QED BY <1>4, <3>1, KeptDiffer DEF cands
  <2>3. CASE i > Last(f)
    <3>1. /\ i - Last(f) \in 1..(Len(CctpChains) + 2) /\ dests[i] = usdc[i - Last(f)]
          /\ j - Last(f) \in 1..(Len(CctpChains) + 2) /\ dests[j] = usdc[j - Last(f)]
          /\ i - Last(f) < j - Last(f)
      BY <1>2, <1>3, <1>4, <2>1, <2>3
    <3> QED BY <1>1, <3>1, UsdcDiffer
  <2> QED BY <1>2, <2>1, <2>2, <2>3
<1>5. ASSUME NEW i \in DOMAIN dests, NEW n \in DOMAIN f["native"], dests[i].mesh = "legacy",
             IsBuilt(f["native"][n]), IsChain(f["native"][n], dests[i])
      PROVE  FALSE
  <2>1. i \in DOMAIN cands /\ IsKept(cands, i) /\ dests[i] = cands[i]
    <3>1. CASE i > Last(f)
      <4>1. dests[i].mesh = None BY <1>2, <1>3, <3>1, UsdcShape
      <4> QED BY <1>5, <4>1, DestinationsAssumption DEF Meshes
    <3> QED BY <1>2, <1>3, <3>1
  <2>2. i > Len(f["native"]) /\ n \in 1..Len(f["native"]) /\ Len(f["native"]) \in Nat
    BY <1>5, <2>1, CandidateShape, ListedShape
  <2>3. n < i /\ n \in DOMAIN Listed(f) /\ Listed(f)[n] = f["native"][n]
    BY <1>2, <2>1, <2>2, ListedShape
  <2>4. n \in DOMAIN cands BY <1>5, <2>3 DEF Candidates
  <2>5. cands[n].id = f["native"][n].id /\ cands[n].label = f["native"][n].name
    BY <2>3, <2>4, CandidateShape
  <2> HIDE DEF cands, dests
  <2>6. n \in Earlier(cands, i) BY <2>3, <2>4 DEF Earlier
  <2>7. CASE cands[i].id # 0 \/ cands[n].id # 0
    <3>1. cands[i].id = cands[n].id BY <1>5, <2>1, <2>5, <2>7 DEF IsChain
    <3>2. cands[i].id \in SeenChainIds(cands, i) BY <2>6, <2>7, <3>1 DEF SeenChainIds
    <3> QED BY <2>1, <3>2 DEF IsKept, IdIsTaken
  <2>8. CASE cands[i].id = 0 /\ cands[n].id = 0
    <3>1. cands[i].label = cands[n].label BY <1>5, <2>1, <2>5, <2>8 DEF IsChain
    <3>2. ~IdIsTaken(cands, n) BY <2>8 DEF IdIsTaken, SeenChainIds
    <3>3. cands[i].label \in SeenLabels(cands, i) BY <2>6, <3>1, <3>2 DEF SeenLabels
    <3> QED BY <2>1, <3>3 DEF IsKept
  <2> QED BY <2>7, <2>8
<1> QED BY <1>1, <1>4, <1>5 DEF Unambiguous, NativeFirst

-----------------------------------------------------------------------------
(* What a registry promises of a request, or of a swap with the same terms.*)
Goal(published, s) == Find(Registry(published), s.label, s.asset)
Offered(published, s) ==
  Goal(published, s) # NotFound /\ Recipient(Goal(published, s).transport, s.addr)
Routed(published, s) ==
  Goal(published, s).kind = "oft" => Registry(published).oft[Goal(published, s).mesh] # None

Terms == {"label", "asset", "addr", "kind", "hash", "quoted", "created"}
PreparedInv ==
  prepared # None =>
    /\ prepared.request \in Requests /\ prepared.under \in Feeds
    /\ Offered(prepared.under, prepared.request) /\ Routed(prepared.under, prepared.request)
AcceptedInv ==
  Made => /\ Terms \subseteq DOMAIN swap /\ {swap.quoted, swap.created} \subseteq Feeds
          /\ Offered(swap.quoted, swap) /\ Routed(swap.quoted, swap)
          /\ Offered(swap.created, swap)
(* What was sent is what the registry of the claim gave for the swap.      *)
SentInv ==
  Broadcast =>
    /\ sent.under \in Feeds /\ Goal(sent.under, swap) # NotFound
    /\ sent.kind = Goal(sent.under, swap).kind /\ sent.to = swap.addr.names
    /\ Routed(sent.under, swap)
    /\ sent.kind = "oft" => sent.oft = Registry(sent.under).oft[Goal(sent.under, swap).mesh]
RouteInv == built \in Feeds \cup {None} /\ PreparedInv /\ AcceptedInv /\ SentInv

LEMMA InitRoute == Init => RouteInv
  BY DEF Init, RouteInv, PreparedInv, AcceptedInv, SentInv, Broadcast, Made

LEMMA RunningFeed == ASSUME Inv, RouteInv, Up PROVE built \in Feeds /\ registry = Registry(built)
  BY DEF Inv, Shape, RouteInv, Up

(* A step that leaves the terms of the swap alone.                         *)
LEMMA SameTerms ==
  ASSUME RouteInv, built' \in Feeds \cup {None}, sent' = sent, prepared' \in {prepared, None},
         Made' => Made /\ DOMAIN swap' = DOMAIN swap /\ \A t \in Terms : swap'[t] = swap[t]
  PROVE  RouteInv'
<1>1. Made' => /\ swap'.label = swap.label /\ swap'.asset = swap.asset /\ swap'.addr = swap.addr
               /\ swap'.quoted = swap.quoted /\ swap'.created = swap.created
               /\ swap'.hash = swap.hash
  BY DEF Terms
<1>2. PreparedInv' BY DEF RouteInv, PreparedInv
<1>3. AcceptedInv' BY <1>1 DEF RouteInv, AcceptedInv, Offered, Routed, Goal
<1>4. SentInv' BY <1>1 DEF RouteInv, SentInv, Broadcast, Routed, Goal
<1> QED BY <1>2, <1>3, <1>4 DEF RouteInv

LEMMA RouteNext == ASSUME Inv, RouteInv, [Next]_vars PROVE RouteInv'
<1>0. built \in Feeds \cup {None} /\ feed \in Feeds BY DEF RouteInv, Inv, Shape
<1>1. CASE /\ UNCHANGED <<swap, sent>> /\ prepared' \in {prepared, None}
           /\ built' \in Feeds \cup {None}
  BY <1>1, SameTerms DEF Made
<1>2. CASE UNCHANGED vars BY <1>0, <1>1, <1>2 DEF vars
<1>3. CASE Start \/ Stop \/ FeedMoves
  BY <1>0, <1>1, <1>3 DEF Start, Stop, FeedMoves, world, process
<1>4. CASE Bridges
  BY <1>0, <1>1, <1>4 DEF Bridges, Attest, ForwardSubmits, ForwardLands, ForwardFails,
    ReceivedByHand, ScanIndexes, OftFails, OftLands, ScanDelivers, BridgeStep, process
<1>5. ASSUME NEW p \in Pollers, Poll(p) PROVE RouteInv'
  <2>1. /\ UNCHANGED <<sent, prepared, built>>
        /\ \/ UNCHANGED swap
           \/ Made /\ swap' = [swap EXCEPT !.status = "completed", !.amount = FinalAmount(p)]
    BY <1>5 DEF Poll, List, LockSwap, QueryCctp, ProbeSolana, QueryOft, ReadFails, Cancel,
      FinalizeCompleted, TaskStep, world, process, StillSettling, Made, NoSwap
  <2>2. CASE UNCHANGED swap BY <1>0, <1>1, <2>1, <2>2
  <2>3. CASE Made /\ swap' = [swap EXCEPT !.status = "completed", !.amount = FinalAmount(p)]
    <3>1. /\ DOMAIN swap' = DOMAIN swap /\ \A t \in Terms : swap'[t] = swap[t]
          /\ swap'.status = "completed"
      BY <2>3 DEF Terms, Inv, Shape, RouteInv, AcceptedInv
    <3>2. Made' BY <3>1 DEF Made, NoSwap
    <3> QED BY <1>0, <2>1, <2>3, <3>1, <3>2, SameTerms
  <2> QED BY <2>1, <2>2, <2>3
<1>6. ASSUME NEW r \in Requests, Prepare(r) PROVE RouteInv'
  <2> DEFINE d == Find(registry, r.label, r.asset)
  <2>1. /\ Up /\ d # NotFound /\ Accepts(registry, d, r.addr) /\ HasRoute(d)
        /\ prepared'.request = r /\ prepared'.under = built
        /\ UNCHANGED <<built, sent, swap>>
    BY <1>6 DEF Prepare, Target, world, process
  <2>2. built \in Feeds /\ d = Goal(built, r) /\ registry = Registry(built)
    BY <2>1, RunningFeed DEF Goal
  <2>3. PreparedInv'
    BY <2>1, <2>2 DEF PreparedInv, Offered, Routed, Goal, Accepts, HasRoute
  <2> QED BY <2>1, <2>3 DEF RouteInv, AcceptedInv, SentInv, Broadcast, Made, Offered, Routed, Goal
<1>7. CASE Create
  <2>1. CASE UNCHANGED swap BY <1>0, <1>1, <1>7, <2>1 DEF Create, world, process
  <2>2. CASE ~UNCHANGED swap
    <3> DEFINE r == prepared.request
    <3>1. /\ Up /\ ~Made /\ prepared # None /\ Revalidated(r) /\ prepared' = None
          /\ UNCHANGED <<built, sent>>
          /\ Terms \subseteq DOMAIN swap' /\ swap'.label = r.label /\ swap'.asset = r.asset
          /\ swap'.addr = r.addr /\ swap'.quoted = prepared.under /\ swap'.created = built
          /\ ~swap'.hash
      BY <1>7, <2>2 DEF Create, Made, Terms, world, process
    <3>2. SentInv' BY <3>1 DEF SentInv, Broadcast
    <3>3. built \in Feeds /\ registry = Registry(built) BY <3>1, RunningFeed
    <3>4. /\ prepared.under \in Feeds /\ Offered(prepared.under, r) /\ Routed(prepared.under, r)
      BY <3>1 DEF RouteInv, PreparedInv
    <3>5. Offered(built, r)
      BY <3>1, <3>3 DEF Revalidated, Target, Offered, Goal, Accepts
    <3>6. AcceptedInv' BY <3>1, <3>3, <3>4, <3>5 DEF AcceptedInv, Offered, Routed, Goal
    <3> QED BY <3>1, <3>2, <3>3, <3>6 DEF RouteInv, PreparedInv
  <2> QED BY <2>1, <2>2
<1>8. CASE Claim
  <2>1. /\ Up /\ Made /\ Unclaimed /\ UNCHANGED <<built, prepared>>
        /\ \/ /\ Claimable /\ \E burn \in Burns : Sends(Target(swap), burn)
              /\ swap' = [swap EXCEPT !.status = "claiming", !.hash = TRUE]
           \/ /\ UNCHANGED sent
              /\ swap' = [swap EXCEPT !.status = "claiming"]
    BY <1>8 DEF Claim, Made, process
  <2>2. /\ DOMAIN swap' = DOMAIN swap /\ \A t \in Terms \ {"hash"} : swap'[t] = swap[t]
        /\ swap'.status = "claiming"
    BY <2>1 DEF Terms, Inv, Shape, RouteInv, AcceptedInv
  <2>3. Made' BY <2>2 DEF Made, NoSwap
  <2>4. CASE UNCHANGED sent /\ swap' = [swap EXCEPT !.status = "claiming"]
    <3>1. swap'.hash = swap.hash BY <2>1, <2>4 DEF Inv, Shape
    <3>2. \A t \in Terms : swap'[t] = swap[t] BY <2>2, <3>1
    <3> QED BY <1>0, <2>1, <2>2, <2>3, <2>4, <3>2, SameTerms
  <2>5. CASE Claimable /\ \E burn \in Burns : Sends(Target(swap), burn)
    <3> DEFINE d == Target(swap)
    <3>1. built \in Feeds /\ registry = Registry(built) /\ d = Goal(built, swap)
      BY <2>1, RunningFeed DEF Target, Goal
    <3>2. d # NotFound /\ HasRoute(d) BY <2>5 DEF Claimable
    <3>3. /\ sent'.kind = d.kind /\ sent'.to = swap.addr.names /\ sent'.under = built
          /\ sent'.kind = "oft" => sent'.oft = registry.oft[d.mesh]
      BY <2>5 DEF Sends, SendContract
    <3>4. swap'.label = swap.label /\ swap'.asset = swap.asset /\ swap'.addr = swap.addr
          /\ swap'.quoted = swap.quoted /\ swap'.created = swap.created
      BY <2>2 DEF Terms
    <3>5. Goal(built, swap') = d /\ Goal(sent'.under, swap') = d BY <3>1, <3>3, <3>4 DEF Goal
    <3>6. SentInv'
      BY <3>1, <3>2, <3>3, <3>4, <3>5 DEF SentInv, Routed, HasRoute, Goal
    <3>7. AcceptedInv' BY <2>1, <2>2, <3>4 DEF RouteInv, AcceptedInv, Offered, Routed, Goal
    <3> QED BY <1>0, <2>1, <3>6, <3>7 DEF RouteInv, PreparedInv
  <2> QED BY <2>1, <2>4, <2>5
<1>9. CASE Receipt
  <2>1. /\ Made /\ UNCHANGED <<sent, prepared, built>>
        /\ swap' = [WithDelivered EXCEPT !.status = PostClaimStatus]
    BY <1>9 DEF Receipt, Made, NoSwap, world, process
  <2>2. /\ DOMAIN swap' = DOMAIN swap /\ \A t \in Terms : swap'[t] = swap[t]
        /\ swap'.status = PostClaimStatus
    BY <2>1 DEF Terms, Inv, Shape, RouteInv, AcceptedInv, WithDelivered
  <2>3. Made' BY <2>2 DEF Made, NoSwap, PostClaimStatus
  <2> QED BY <1>0, <2>1, <2>2, <2>3, SameTerms
<1> QED BY <1>2, <1>3, <1>4, <1>5, <1>6, <1>7, <1>8, <1>9 DEF Next, Service

-----------------------------------------------------------------------------
(* Where the tokens of a completed swap are.                               *)
Evidence == bridge.landed \/ bridge.hash
EvidenceInv ==
  /\ bridge.hash => bridge.forward \in {"pending", "complete"}
  /\ bridge.forward = "complete" \/ bridge.scan = "delivered" => bridge.landed
  /\ \A p \in Pollers : task[p].pc = "done" => Evidence
  /\ Made => "kind" \in DOMAIN swap
  /\ Made /\ swap.status = "completed" /\ swap.kind # "direct" => Evidence

LEMMA InitEvidence == Init => EvidenceInv
  BY DEF Init, EvidenceInv, NoMessage, Idle, Made

LEMMA EvidenceStep ==
  ASSUME Inv, EvidenceInv, NEW p \in Pollers, NEW t, task' = [task EXCEPT ![p] = t],
         t.pc = "done" => Evidence, UNCHANGED <<swap, bridge>>
  PROVE  EvidenceInv'
  BY DEF EvidenceInv, Evidence, Made, Inv, Shape

LEMMA EvidenceNext == ASSUME Inv, EvidenceInv, [Next]_vars PROVE EvidenceInv'
<1>0. Idle.pc # "done" BY DEF Idle
<1>1. CASE UNCHANGED <<swap, bridge>> /\ (task' = task \/ task' = [p \in Pollers |-> Idle])
  BY <1>0, <1>1 DEF EvidenceInv, Evidence, Made
<1>2. CASE UNCHANGED vars \/ Start \/ Stop \/ FeedMoves \/ \E r \in Requests : Prepare(r)
  BY <1>1, <1>2 DEF vars, Start, Stop, FeedMoves, Prepare, world, process
<1>3. CASE Bridges
  <2>1. /\ UNCHANGED <<swap, task>>
        /\ bridge.landed => bridge'.landed
        /\ bridge.hash => bridge'.hash
        /\ bridge'.hash => bridge'.forward \in {"pending", "complete"}
        /\ bridge'.forward = "complete" \/ bridge'.scan = "delivered" => bridge'.landed
    BY <1>3 DEF Bridges, Attest, ForwardSubmits, ForwardLands, ForwardFails, ReceivedByHand,
      ScanIndexes, OftFails, OftLands, ScanDelivers, BridgeStep, process, EvidenceInv, Inv, Shape,
      BridgeInv
  <2> QED BY <2>1 DEF EvidenceInv, Evidence, Made
<1>4. CASE Create
  <2>1. /\ UNCHANGED <<bridge, task>>
        /\ \/ UNCHANGED swap
           \/ "kind" \in DOMAIN swap' /\ swap'.status = "locked"
    BY <1>4 DEF Create, world
  <2> QED BY <2>1 DEF EvidenceInv, Evidence, Made
<1>5. CASE Claim
  <2>1. /\ UNCHANGED <<bridge, task>> /\ Made /\ swap'.status = "claiming" /\ "kind" \in DOMAIN swap'
    BY <1>5 DEF Claim, EvidenceInv, Made, Inv, Shape
  <2> QED BY <2>1 DEF EvidenceInv, Evidence, Made
<1>6. CASE Receipt
  <2>1. /\ UNCHANGED <<bridge, task>> /\ Made /\ swap'.status = PostClaimStatus
        /\ "kind" \in DOMAIN swap' /\ swap'.kind = swap.kind
    BY <1>6 DEF Receipt, EvidenceInv, Made, NoSwap, Inv, Shape, WithDelivered, world
  <2> QED BY <2>1 DEF EvidenceInv, Evidence, Made, PostClaimStatus
<1>7. ASSUME NEW p \in Pollers, Poll(p) PROVE EvidenceInv'
  <2>1. CASE Cancel(p) \/ ReadFails(p) \/ List(p) \/ LockSwap(p)
    <3> DEFINE Snapshot == [Idle EXCEPT !.pc = "listed", !.kind = swap.kind, !.ref = swap.ref]
               Asking == [task[p] EXCEPT !.pc = "asking"]
    <3>1. /\ UNCHANGED <<swap, bridge>>
          /\ \/ task' = [task EXCEPT ![p] = Idle]
             \/ task' = [task EXCEPT ![p] = Snapshot]
             \/ task' = [task EXCEPT ![p] = Asking]
      BY <2>1 DEF Cancel, ReadFails, List, LockSwap, TaskStep, world
    <3>2. Snapshot.pc = "listed" BY DEF Idle
    <3>3. Asking.pc = "asking" BY DEF Inv, Shape, TaskFields
    <3> HIDE DEF Snapshot, Asking
    <3> QED BY <1>0, <3>1, <3>2, <3>3, EvidenceStep
  <2>2. CASE QueryCctp(p)
    <3>1. UNCHANGED <<swap, bridge>> /\ DOMAIN task[p] = TaskFields
      BY <2>2 DEF QueryCctp, TaskStep, world, Inv, Shape
    <3>2. CASE Forwarded
      <4>1. task' = [task EXCEPT ![p] = [task[p] EXCEPT !.pc = "done", !.amount = Attested]]
        BY <2>2, <3>2 DEF QueryCctp, TaskStep
      <4> QED BY <3>1, <3>2, <4>1, EvidenceStep DEF Forwarded, Evidence
    <3>3. CASE ~Forwarded /\ Probed
      <4>1. task' = [task EXCEPT ![p] = [task[p] EXCEPT !.pc = "probing", !.amount = Attested]]
        BY <2>2, <3>3 DEF QueryCctp, TaskStep
      <4> DEFINE t == [task[p] EXCEPT !.pc = "probing", !.amount = Attested]
      <4>2. t.pc = "probing" BY <3>1 DEF TaskFields
      <4> HIDE DEF t
      <4> QED BY <3>1, <4>1, <4>2, EvidenceStep DEF t
    <3>4. CASE ~Forwarded /\ ~Probed
      <4>1. task' = [task EXCEPT ![p] = Idle] BY <2>2, <3>4 DEF QueryCctp, TaskStep
      <4> QED BY <1>0, <3>1, <4>1, EvidenceStep
    <3> QED BY <3>2, <3>3, <3>4
  <2>3. CASE ProbeSolana(p)
    BY <1>0, <2>3, EvidenceStep DEF ProbeSolana, TaskStep, world, Evidence
  <2>4. CASE QueryOft(p)
    BY <1>0, <2>4, EvidenceStep DEF QueryOft, TaskStep, world, Evidence, IsDelivered, EvidenceInv
  <2>5. CASE FinalizeCompleted(p)
    <3>1. /\ Evidence /\ UNCHANGED bridge /\ task' = [task EXCEPT ![p] = Idle]
          /\ \/ UNCHANGED swap
             \/ Made /\ swap' = [swap EXCEPT !.status = "completed", !.amount = FinalAmount(p)]
      BY <2>5 DEF FinalizeCompleted, TaskStep, world, EvidenceInv, StillSettling, Made, NoSwap
    <3>2. Made' => "kind" \in DOMAIN swap' BY <3>1 DEF EvidenceInv, Made
    <3> QED BY <1>0, <3>1, <3>2 DEF EvidenceInv, Evidence, Made, Inv, Shape
  <2> QED BY <1>7, <2>1, <2>2, <2>3, <2>4, <2>5 DEF Poll
<1> QED BY <1>2, <1>3, <1>4, <1>5, <1>6, <1>7 DEF Next, Service

-----------------------------------------------------------------------------
RouteSafe == Inv /\ RouteInv
LEMMA RouteSafeInit == Init => RouteSafe BY InitInv, InitRoute DEF RouteSafe
LEMMA RouteSafeNext == RouteSafe /\ [Next]_vars => RouteSafe' BY NextInv, RouteNext DEF RouteSafe

(* Whatever the feed publishes, a claim over OFT goes to the pinned        *)
(* contract of the destination's mesh.                                     *)
THEOREM SendsThroughPin == Spec => []PinnedSource
<1>1. RouteSafe => PinnedSource
  <2> SUFFICES ASSUME RouteSafe, sent # None, sent.kind = "oft"
               PROVE  sent.oft = Pin[Goal(sent.under, swap).mesh]
    BY DEF PinnedSource, Goal
  <2> DEFINE d == Goal(sent.under, swap)
  <2>1. /\ sent.under \in Feeds /\ d.kind = "oft"
        /\ Registry(sent.under).oft[d.mesh] # None /\ sent.oft = Registry(sent.under).oft[d.mesh]
    BY DEF RouteSafe, RouteInv, SentInv, Routed, Inv, BridgeInv
  <2>2. d.mesh \in Meshes BY <2>1, FoundShape DEF Goal
  <2> QED BY <2>1, <2>2, RegistryShape
<1> QED BY <1>1, RouteSafeInit, RouteSafeNext, PTL DEF Spec

(* What prepare and create accepted can be claimed under the registry they *)
(* checked it with.                                                        *)
THEOREM ClaimableOnceAccepted == Spec => []AcceptedIsClaimable
<1>1. RouteSafe => AcceptedIsClaimable
  <2> SUFFICES ASSUME RouteSafe, Up, Made
               PROVE  /\ built = swap.quoted => Claimable
                      /\ built = swap.created =>
                           Claimable \/ (Target(swap) # NotFound /\ ~HasRoute(Target(swap)))
    BY DEF AcceptedIsClaimable, Made
  <2> DEFINE d == Target(swap)
  <2>1. built \in Feeds /\ registry = Registry(built) BY RunningFeed DEF RouteSafe
  <2>2. d = Goal(built, swap) BY <2>1 DEF Target, Goal
  <2>3. d.kind = "cctp" => d.transport # "tron" BY <2>1, <2>2, FoundShape DEF Goal
  <2>4. HasRoute(d) <=> Routed(built, swap) BY <2>1, <2>2 DEF HasRoute, Routed
  <2>5. Claimable <=> Offered(built, swap) /\ Routed(built, swap)
    BY <2>2, <2>3, <2>4 DEF Claimable, Offered
  <2>6. /\ built = swap.quoted => Offered(built, swap) /\ Routed(built, swap)
        /\ built = swap.created => Offered(built, swap)
    BY DEF RouteSafe, RouteInv, AcceptedInv
  <2> QED BY <2>2, <2>4, <2>5, <2>6 DEF Offered
<1> QED BY <1>1, RouteSafeInit, RouteSafeNext, PTL DEF Spec

(* Every registry a process starts with is unambiguous and prefers the     *)
(* native mesh.                                                            *)
THEOREM OffersEachChainOnce == Spec => OneRoutePerChain
<1>1. RouteSafe /\ [Next]_vars =>
        (Start => Unambiguous(registry'.dests) /\ NativeFirst(registry'.dests, built'["native"]))
  <2> SUFFICES ASSUME RouteSafe, Start
               PROVE  Unambiguous(registry'.dests) /\ NativeFirst(registry'.dests, built'["native"])
    OBVIOUS
  <2>1. feed \in Feeds /\ registry' = Registry(feed) /\ Registry(feed) # NoRegistry /\ built' = feed
    BY DEF Start, RouteSafe, Inv, Shape
  <2> QED BY <2>1, OneRoute
<1> QED BY <1>1, RouteSafeInit, RouteSafeNext, PTL DEF Spec, OneRoutePerChain

(* No swap is created that delivers to a token its registry knows.         *)
THEOREM NeverToAToken == Spec => NotAToken
<1> DEFINE Delivers == Create /\ swap' # NoSwap /\ (swap'.addr.form = "hex" => swap'.addr.prefixed)
           Spared == \A i \in DOMAIN registry.dests :
                       swap'.addr.names \notin {registry.dests[i].token, SourceTokens.tbtc}
<1>1. RouteSafe /\ [Next]_vars => (Delivers => Spared)
  <2> SUFFICES ASSUME RouteSafe, Delivers, NEW i \in DOMAIN registry.dests
               PROVE  swap'.addr.names \notin {registry.dests[i].token, SourceTokens.tbtc}
    OBVIOUS
  <2> DEFINE r == prepared.request
             d == Target(r)
             e == registry.dests[i]
  <2>1. /\ Up /\ prepared # None /\ d # NotFound /\ Accepts(registry, d, r.addr)
        /\ swap'.addr = r.addr
    BY DEF Create, Revalidated
  <2>2. r \in Requests BY <2>1 DEF RouteSafe, RouteInv, PreparedInv
  <2>3. built \in Feeds /\ registry = Registry(built) BY <2>1, RunningFeed DEF RouteSafe
  <2>4. d.transport \in Transports /\ e.transport \in Transports
    BY <2>1, <2>3, FoundShape, RegistryDests DEF Target
  <2>5. r.addr.names # None /\ (r.addr.names = SourceTokens.tbtc => Recipient("evm", r.addr))
        /\ (e.token = r.addr.names => Recipient(e.transport, r.addr))
    BY <2>2, <2>3, AddressAssumption
  <2>6. Recipient(d.transport, r.addr) /\ r.addr.names \notin KnownTokens(registry, d.transport)
    BY <2>1 DEF Accepts, IsKnownToken
  <2> HIDE DEF r, d
  <2>7. ASSUME NEW t \in Transports, Recipient(t, r.addr) PROVE t = d.transport
    BY <2>4, <2>6, <2>7 DEF Recipient, Transports
  <2>8. r.addr.names # SourceTokens.tbtc
    <3>1. d.transport = "evm" => SourceTokens.tbtc \in KnownTokens(registry, d.transport)
      BY DEF KnownTokens
    <3> QED BY <2>5, <2>6, <2>7, <3>1 DEF Transports
  <2>9. r.addr.names # e.token
    <3>1. e.transport = d.transport /\ e.token # None => e.token \in KnownTokens(registry, d.transport)
      BY DEF KnownTokens
    <3> QED BY <2>4, <2>5, <2>6, <2>7, <3>1
  <2> QED BY <2>1, <2>8, <2>9
<1> QED BY <1>1, RouteSafeInit, RouteSafeNext, PTL DEF Spec, NotAToken

(* The receipt of a bridged claim leaves a reference, unless the route     *)
(* changed since the claim.                                                *)
THEOREM LeavesATrace == Spec => DeliveryTraceable
<1> DEFINE Lost == Receipt /\ sent.kind # "direct" /\ swap'.status = "settling" /\ swap'.ref = None
<1>1. RouteSafe /\ [Next]_vars => (Lost => RouteIn(registry) # RouteIn(Registry(sent.under)))
  <2> SUFFICES ASSUME RouteSafe, Lost, RouteIn(registry) = RouteIn(Registry(sent.under))
               PROVE  FALSE
    OBVIOUS
  <2> DEFINE d == Target(swap)
             e == Goal(sent.under, swap)
  <2>1. /\ Up /\ Made /\ swap.hash /\ swap' = [WithDelivered EXCEPT !.status = PostClaimStatus]
    BY DEF Receipt, Made, NoSwap
  <2>2. built \in Feeds /\ registry = Registry(built) BY <2>1, RunningFeed DEF RouteSafe
  <2>3. /\ sent.under \in Feeds /\ e # NotFound /\ sent.kind = e.kind
        /\ Routed(sent.under, swap)
        /\ e.kind = "oft" => sent.oft = Registry(sent.under).oft[e.mesh]
    BY <2>1 DEF RouteSafe, RouteInv, SentInv, Broadcast
  <2>4. e.kind \in {"oft", "cctp"} BY <2>3, FoundShape DEF Goal, Kinds
  <2>5. /\ d.kind = e.kind
        /\ e.kind = "oft" => registry.oft[d.mesh] = sent.oft /\ sent.oft # None
    BY <2>3 DEF RouteIn, Target, Goal, Routed
  <2>6. Matches(d) BY <2>3, <2>4, <2>5 DEF Matches, DecodeCctpSent, DecodeOftSent
  <2>7. WithDelivered.ref \in {"cctp", "oft"}
    <3>1. WithDelivered = [swap EXCEPT !.amount = DeliveredAndRef.amount, !.ref = DeliveredAndRef.ref]
      BY <2>6 DEF WithDelivered
    <3>2. DeliveredAndRef.ref \in {"cctp", "oft"} BY <2>3, <2>4 DEF DeliveredAndRef
    <3> QED BY <2>1, <3>1, <3>2 DEF RouteSafe, Inv, Shape
  <2>8. swap'.ref = WithDelivered.ref BY <2>1 DEF WithDelivered, RouteSafe, Inv, Shape
  <2> QED BY <2>7, <2>8, DestinationsAssumption
<1> QED BY <1>1, RouteSafeInit, RouteSafeNext, PTL DEF Spec, DeliveryTraceable

(* A bridged swap completes only when its tokens have landed or Circle has *)
(* submitted their forward: no poller takes an attestation, a failed       *)
(* forward or a message in flight for a delivery.                          *)
CompletedHasEvidence == swap.status = "completed" /\ swap.kind # "direct" => Evidence
THEOREM CompletedIsShown == Spec => []CompletedHasEvidence
<1>1. Inv /\ EvidenceInv => CompletedHasEvidence
  BY DEF EvidenceInv, CompletedHasEvidence, Made, NoSwap
<1>2. Init => Inv /\ EvidenceInv BY InitInv, InitEvidence
<1>3. Inv /\ EvidenceInv /\ [Next]_vars => Inv' /\ EvidenceInv' BY NextInv, EvidenceNext
<1> QED BY <1>1, <1>2, <1>3, PTL DEF Spec

=============================================================================
