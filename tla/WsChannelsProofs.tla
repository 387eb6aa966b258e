------------------------- MODULE WsChannelsProofs -------------------------
(***************************************************************************)
(* A tracked swap is subscribed, whatever the interleaving of tasks, loop  *)
(* and reader, for any number of swaps and tasks and any capacities.       *)
(***************************************************************************)
EXTENDS WsChannels, TLAPS

(* A place where a process works on a swap.                                *)
OnSwap == {"waiting", "handling", "unsubscribe", "remove", "insert", "subscribe"}

Inv ==
  /\ TypeOK
  /\ \A p \in Procs : pc[p] \in OnSwap => at[p] \in Swaps
  /\ TrackedIsSubscribed

-----------------------------------------------------------------------------
(* The queue of commands.                                                  *)
LEMMA SentLast ==
  ASSUME NEW queue \in Seq(ReaderCommand), NEW c \in ReaderCommand, c.op = "subscribe"
  PROVE LastIsSubscribe(Append(queue, c), c.swap)
<1>1. Len(Append(queue, c)) = Len(queue) + 1 /\ Append(queue, c)[Len(queue) + 1] = c
  OBVIOUS
<1> QED BY <1>1 DEF LastIsSubscribe, About

LEMMA SentAboutOthers ==
  ASSUME NEW queue \in Seq(ReaderCommand), NEW c \in ReaderCommand,
         NEW s \in Swaps, c.swap # s
  PROVE /\ About(Append(queue, c), s) = About(queue, s)
        /\ LastIsSubscribe(queue, s) => LastIsSubscribe(Append(queue, c), s)
<1>1. /\ Len(Append(queue, c)) = Len(queue) + 1 /\ Append(queue, c)[Len(queue) + 1] = c
      /\ \A i \in 1..Len(queue) : Append(queue, c)[i] = queue[i]
  OBVIOUS
<1>2. About(Append(queue, c), s) = About(queue, s)
  BY <1>1 DEF About
<1> QED BY <1>1, <1>2 DEF LastIsSubscribe, About

LEMMA Taken ==
  ASSUME NEW queue \in Seq(ReaderCommand), queue # <<>>, NEW s \in Swaps
  PROVE /\ About(queue, s) = {} => About(Tail(queue), s) = {} /\ Head(queue).swap # s
        /\ LastIsSubscribe(queue, s) =>
             \/ LastIsSubscribe(Tail(queue), s)
             \/ /\ About(Tail(queue), s) = {}
                /\ Head(queue).swap = s /\ Head(queue).op = "subscribe"
<1>1. /\ Len(queue) \in Nat /\ Len(queue) > 0 /\ Head(queue) = queue[1]
      /\ Len(Tail(queue)) = Len(queue) - 1
      /\ \A i \in 1..Len(Tail(queue)) : Tail(queue)[i] = queue[i + 1]
  OBVIOUS
<1>2. About(queue, s) = {} => About(Tail(queue), s) = {} /\ Head(queue).swap # s
  BY <1>1 DEF About
<1>3. ASSUME LastIsSubscribe(queue, s), ~LastIsSubscribe(Tail(queue), s)
      PROVE /\ About(Tail(queue), s) = {}
            /\ Head(queue).swap = s /\ Head(queue).op = "subscribe"
  <2>1. PICK i \in About(queue, s) :
          queue[i].op = "subscribe" /\ \A j \in About(queue, s) : j <= i
    BY <1>3 DEF LastIsSubscribe
  <2>2. i = 1
    <3> SUFFICES ASSUME i # 1 PROVE FALSE
      OBVIOUS
    <3>1. i \in 1..Len(queue) /\ queue[i].swap = s /\ i - 1 \in 1..Len(Tail(queue))
      BY <1>1, <2>1 DEF About
    <3>2. Tail(queue)[i - 1] = queue[i]
      BY <1>1, <3>1
    <3>3. i - 1 \in About(Tail(queue), s)
      BY <3>1, <3>2 DEF About
    <3>4. \A j \in About(Tail(queue), s) : j + 1 \in About(queue, s)
      BY <1>1 DEF About
    <3>5. \A j \in About(Tail(queue), s) : j <= i - 1
      BY <2>1, <3>1, <3>4 DEF About
    <3> QED BY <1>3, <2>1, <3>2, <3>3, <3>5 DEF LastIsSubscribe
  <2>3. \A j \in About(Tail(queue), s) : j + 1 \in About(queue, s) /\ j + 1 > 1
    BY <1>1 DEF About
  <2>4. \A j \in About(queue, s) : j <= 1
    BY <2>1, <2>2
  <2>5. About(Tail(queue), s) = {}
    BY <2>3, <2>4, <1>1 DEF About
  <2> QED BY <1>1, <2>1, <2>2, <2>5 DEF About
<1> QED BY <1>2, <1>3

-----------------------------------------------------------------------------
(* What disturbs the invariant: the reader takes a command, a process      *)
(* moves, inserts, removes or sends.                                       *)
Sited == \A p \in Procs : pc[p] \in OnSwap => at[p] \in Swaps

LEMMA ReaderTakes ==
  ASSUME Inv, cmds # <<>>, cmds' = Tail(cmds), Apply(Head(cmds)),
         UNCHANGED <<tracked, pc, at>>
  PROVE /\ cmds' \in Seq(ReaderCommand) /\ Len(cmds') <= CmdCap
        /\ local' \subseteq Swaps /\ Sited' /\ TrackedIsSubscribed'
<1>1. /\ cmds \in Seq(ReaderCommand) /\ Len(cmds) <= CmdCap
      /\ local \subseteq Swaps /\ tracked \subseteq Swaps
  BY DEF Inv, TypeOK
<1>2. Head(cmds) \in ReaderCommand /\ cmds' \in Seq(ReaderCommand) /\ Len(cmds') <= CmdCap
  BY <1>1, ChannelsAssumption
<1>3. local' \subseteq Swaps
  BY <1>1, <1>2 DEF Apply, ReaderCommand
<1>4. ASSUME NEW s \in tracked
      PROVE \/ LastIsSubscribe(cmds', s)
            \/ About(cmds', s) = {} /\ s \in local'
            \/ \E p \in Procs : at[p] = s /\ pc[p] \in {"subscribe", "remove"}
  <2>1. s \in Swaps
    BY <1>1
  <2>2. CASE LastIsSubscribe(cmds, s)
    BY <1>1, <1>2, <2>1, <2>2, Taken DEF Apply
  <2>3. CASE About(cmds, s) = {} /\ s \in local
    <3>1. About(cmds', s) = {} /\ Head(cmds).swap # s
      BY <1>1, <2>1, <2>3, Taken
    <3>2. s \in local'
      BY <1>2, <2>3, <3>1 DEF Apply, ReaderCommand
    <3> QED BY <3>1, <3>2
  <2> QED BY <1>4, <2>2, <2>3 DEF Inv, TrackedIsSubscribed
<1> QED BY <1>2, <1>3, <1>4 DEF Inv, Sited, TrackedIsSubscribed

LEMMA ProcessMoves ==
  ASSUME Inv, NEW p \in Procs, pc[p] \notin {"subscribe", "remove"},
         \A q \in Procs \ {p} : pc'[q] = pc[q] /\ at'[q] = at[q],
         UNCHANGED <<cmds, local, tracked>>
  PROVE TrackedIsSubscribed'
<1> SUFFICES ASSUME NEW s \in tracked
             PROVE \/ LastIsSubscribe(cmds, s)
                   \/ About(cmds, s) = {} /\ s \in local
                   \/ \E q \in Procs : at'[q] = s /\ pc'[q] \in {"subscribe", "remove"}
  BY DEF TrackedIsSubscribed
<1> QED BY DEF Inv, TrackedIsSubscribed

LEMMA AfterIsTyped ==
  ASSUME NEW p, NEW here \in {"start", "insert", "subscribe", "cleanup", "unsubscribe", "remove"}
  PROVE After(p, here) \in {"select", "idle", "unsubscribe", "remove", "check", "insert", "subscribe"}
BY DEF After

LEMMA ProceedIsTyped ==
  ASSUME Inv, NEW p \in Procs, pc[p] \in OnSwap,
         NEW place \in {"select", "idle", "unsubscribe", "remove", "check", "insert", "subscribe"},
         Proceed(p, place)
  PROVE /\ pc' \in [Procs -> {"select", "draining", "stopped", "closed", "idle",
                              "waiting", "handling", "unsubscribe", "remove",
                              "check", "insert", "subscribe"}]
        /\ at' \in [Procs -> Swaps \cup {NoSwap}] /\ Sited'
        /\ \A q \in Procs \ {p} : pc'[q] = pc[q] /\ at'[q] = at[q]
        /\ pc'[p] = place /\ (place \in OnSwap => at'[p] = at[p])
<1>1. /\ pc' = [pc EXCEPT ![p] = place]
      /\ at' = [at EXCEPT ![p] = IF place \in {"idle", "check", "select"} THEN NoSwap ELSE @]
  BY DEF Proceed, GoTo
<1>2. at[p] \in Swaps
  BY DEF Inv
<1>3. /\ \A q \in Procs \ {p} : pc'[q] = pc[q] /\ at'[q] = at[q]
      /\ pc'[p] = place /\ (place \in OnSwap => at'[p] = at[p])
  BY <1>1 DEF Inv, TypeOK, OnSwap
<1>4. Sited'
  BY <1>2, <1>3 DEF Inv, Sited
<1> QED BY <1>1, <1>3, <1>4 DEF Inv, TypeOK

LEMMA InvInsert ==
  ASSUME Inv, NEW p \in Procs, Insert(p)
  PROVE Inv'
<1>1. /\ pc[p] = "insert" /\ Proceed(p, "subscribe") /\ tracked' = tracked \cup {at[p]}
      /\ UNCHANGED <<boltz, socket, channels, requests, seen, todo, records, counters>>
  BY DEF Insert, After
<1>2. pc[p] \in OnSwap /\ at[p] \in Swaps
  BY <1>1 DEF Inv, OnSwap
<1>3. /\ \A q \in Procs \ {p} : pc'[q] = pc[q] /\ at'[q] = at[q]
      /\ pc'[p] = "subscribe" /\ at'[p] = at[p]
  BY <1>1, <1>2, ProceedIsTyped DEF OnSwap
<1>4. TypeOK' /\ Sited'
  BY <1>1, <1>2, ProceedIsTyped
     DEF Inv, TypeOK, boltz, socket, channels, records, counters, Update, Current
<1>5. TrackedIsSubscribed'
  <2> SUFFICES ASSUME NEW s \in tracked, s # at[p]
               PROVE \/ LastIsSubscribe(cmds, s)
                     \/ About(cmds, s) = {} /\ s \in local
                     \/ \E q \in Procs : at'[q] = s /\ pc'[q] \in {"subscribe", "remove"}
    BY <1>1, <1>3 DEF TrackedIsSubscribed, channels, socket
  <2> QED BY <1>3 DEF Inv, TrackedIsSubscribed
<1> QED BY <1>4, <1>5 DEF Inv, Sited

LEMMA InvRemove ==
  ASSUME Inv, NEW p \in Procs, Remove(p)
  PROVE Inv'
<1>1. /\ pc[p] = "remove" /\ Proceed(p, "idle") /\ tracked' = tracked \ {at[p]}
      /\ UNCHANGED <<boltz, socket, channels, requests, seen, todo, records, counters>>
  BY DEF Remove, After
<1>2. pc[p] \in OnSwap /\ at[p] \in Swaps
  BY <1>1 DEF Inv, OnSwap
<1>3. \A q \in Procs \ {p} : pc'[q] = pc[q] /\ at'[q] = at[q]
  BY <1>1, <1>2, ProceedIsTyped
<1>4. TypeOK' /\ Sited'
  BY <1>1, <1>2, ProceedIsTyped
     DEF Inv, TypeOK, boltz, socket, channels, records, counters
<1>5. TrackedIsSubscribed'
  <2> SUFFICES ASSUME NEW s \in tracked, s # at[p]
               PROVE \/ LastIsSubscribe(cmds, s)
                     \/ About(cmds, s) = {} /\ s \in local
                     \/ \E q \in Procs : at'[q] = s /\ pc'[q] \in {"subscribe", "remove"}
    BY <1>1 DEF TrackedIsSubscribed, channels, socket
  <2> QED BY <1>3 DEF Inv, TrackedIsSubscribed
<1> QED BY <1>4, <1>5 DEF Inv, Sited

LEMMA InvSend ==
  ASSUME Inv, NEW p \in Procs, NEW op \in {"subscribe", "unsubscribe"}, SendCommand(p, op)
  PROVE Inv'
<1> DEFINE c == [op |-> op, swap |-> at[p]]
<1>1. /\ pc[p] = op /\ Proceed(p, After(p, op)) /\ Len(cmds) < CmdCap /\ cmds' = Append(cmds, c)
      /\ UNCHANGED <<boltz, socket, updates, tracking, seen, todo, records, counters>>
  BY DEF SendCommand, HasRoom
<1>2. pc[p] \in OnSwap /\ at[p] \in Swaps /\ c \in ReaderCommand
  BY <1>1 DEF Inv, OnSwap, ReaderCommand
<1>3. /\ cmds \in Seq(ReaderCommand) /\ cmds' \in Seq(ReaderCommand)
      /\ Len(cmds') <= CmdCap /\ tracked' \subseteq Swaps
  BY <1>1, <1>2, ChannelsAssumption DEF Inv, TypeOK, tracking
<1>4. After(p, op) \in {"select", "idle", "unsubscribe", "remove", "check", "insert", "subscribe"}
  BY AfterIsTyped
<1>5. /\ \A q \in Procs \ {p} : pc'[q] = pc[q] /\ at'[q] = at[q]
      /\ pc'[p] = After(p, op) /\ (After(p, op) \in OnSwap => at'[p] = at[p])
  BY <1>1, <1>2, <1>4, ProceedIsTyped
<1>6. TypeOK' /\ Sited'
  BY <1>1, <1>2, <1>3, <1>4, ProceedIsTyped
     DEF Inv, TypeOK, boltz, socket, tracking, records, counters
<1>7. TrackedIsSubscribed'
  <2> SUFFICES ASSUME NEW s \in tracked
               PROVE \/ LastIsSubscribe(cmds', s)
                     \/ About(cmds', s) = {} /\ s \in local
                     \/ \E q \in Procs : at'[q] = s /\ pc'[q] \in {"subscribe", "remove"}
    BY <1>1 DEF TrackedIsSubscribed, tracking, socket
  <2>1. s \in Swaps
    BY DEF Inv, TypeOK
  <2>2. CASE s # at[p]
    <3>1. /\ About(cmds', s) = About(cmds, s)
          /\ LastIsSubscribe(cmds, s) => LastIsSubscribe(cmds', s)
      BY <1>1, <1>2, <1>3, <2>1, <2>2, SentAboutOthers
    <3> QED BY <1>5, <2>2, <3>1 DEF Inv, TrackedIsSubscribed
  <2>3. CASE s = at[p] /\ op = "subscribe"
    BY <1>1, <1>2, <1>3, <2>3, SentLast
  <2>4. CASE s = at[p] /\ op = "unsubscribe"
    <3>1. pc'[p] = "remove" /\ at'[p] = s
      BY <1>5, <2>4 DEF After, OnSwap
    <3> QED BY <3>1
  <2> QED BY <2>2, <2>3, <2>4
<1> QED BY <1>6, <1>7 DEF Inv, Sited

-----------------------------------------------------------------------------
(* The steps of each part.                                                 *)
LEMMA OneMessage ==
  ASSUME NEW message \in SUBSET Update
  PROVE <<>> \in Seq(SUBSET Update) /\ <<message>> \in Seq(SUBSET Update)
OBVIOUS

LEMMA OneMoreMessage ==
  ASSUME NEW messages \in Seq(SUBSET Update), NEW message \in SUBSET Update
  PROVE Append(messages, message) \in Seq(SUBSET Update)
OBVIOUS

LEMMA InvOutside ==
  ASSUME Inv, World
  PROVE Inv'
<1> USE DEF Inv, TypeOK, socket, channels, tracking, tasks, records, counters, boltz
<1>1. ASSUME UNCHANGED <<cmds, local, tracked, pc, at>>, TypeOK' PROVE Inv'
  BY <1>1 DEF TrackedIsSubscribed
<1>2. ASSUME NEW s \in Swaps, StatusChange(s) PROVE Inv'
  <2>1. status' \in [Swaps -> 0..MaxChanges] /\ Current(s)' \in Update
    BY <1>2, ChannelsAssumption DEF StatusChange, Current, Update
  <2>2. wire' \in Seq(SUBSET Update)
    BY <1>2, <2>1 DEF StatusChange
  <2> QED BY <1>1, <1>2, <2>1, <2>2 DEF StatusChange
<1>3. ASSUME NEW s \in Swaps, TrackSwap(s) PROVE Inv'
  <2>1. tracks' \in 0..MaxTracks /\ requests' \subseteq Swaps
    BY <1>3, ChannelsAssumption DEF TrackSwap
  <2> QED BY <1>1, <1>3, <2>1 DEF TrackSwap
<1>4. ASSUME NEW s \in Swaps, PollFinalizes(s) PROVE Inv'
  BY <1>1, <1>4 DEF PollFinalizes
<1>5. ASSUME NEW s \in Swaps, Replicate(s) PROVE Inv'
  <2>1. revivals' \in 0..MaxRevivals /\ done' \in [Swaps -> BOOLEAN]
    BY <1>5, ChannelsAssumption DEF Replicate
  <2> QED BY <1>1, <1>5, <2>1 DEF Replicate
<1>6. CASE Stop
  <2>1. TypeOK' /\ Sited'
    BY <1>6 DEF Stop, GoTo, Sited, OnSwap
  <2>2. TrackedIsSubscribed'
    BY <1>6, ProcessMoves DEF Stop, GoTo, Procs
  <2> QED BY <2>1, <2>2 DEF Sited
<1>7. CASE Disconnect
  <2>1. CASE cmds # <<>> /\ cmds' = Tail(cmds) /\ Apply(Head(cmds))
    <3>1. /\ cmds' \in Seq(ReaderCommand) /\ Len(cmds') <= CmdCap
          /\ local' \subseteq Swaps /\ Sited' /\ TrackedIsSubscribed'
      BY <1>7, <2>1, ReaderTakes DEF Disconnect
    <3> QED BY <1>7, <3>1, ChannelsAssumption DEF Disconnect, Sited
  <2>2. CASE UNCHANGED <<local, cmds>>
    BY <1>1, <1>7, <2>2, ChannelsAssumption DEF Disconnect
  <2> QED BY <1>7, <2>1, <2>2 DEF Disconnect
<1> QED BY <1>2, <1>3, <1>4, <1>5, <1>6, <1>7 DEF World

LEMMA InvReader ==
  ASSUME Inv, ReaderSteps
  PROVE Inv'
<1> USE DEF Inv, TypeOK, channels, tracking, tasks, records, counters, boltz
<1>1. ASSUME UNCHANGED <<cmds, local, tracked, pc, at>>, TypeOK' PROVE Inv'
  BY <1>1 DEF TrackedIsSubscribed
<1>2. ASSUME NEW place \in {"connecting", "drain", "reading"}, TakeCommand(place),
             UNCHANGED <<tracked, pc, at>>
      PROVE /\ reader' \in {place, "stopped"}
            /\ cmds' \in Seq(ReaderCommand) /\ Len(cmds') <= CmdCap
            /\ local' \subseteq Swaps /\ Sited' /\ TrackedIsSubscribed'
  BY <1>2, ReaderTakes DEF TakeCommand
<1>3. CASE Connect \/ ConnectFails
  BY <1>1, <1>3 DEF Connect, ConnectFails
<1>4. CASE Retry
  <2>1. CASE TakeCommand("connecting")
    BY <1>2, <1>4, <2>1 DEF Retry, Sited
  <2>2. CASE reader' = "connecting" /\ UNCHANGED <<local, cmds>>
    BY <1>1, <1>4, <2>2 DEF Retry
  <2> QED BY <1>4, <2>1, <2>2 DEF Retry
<1>5. CASE DrainCommand
  BY <1>2, <1>5 DEF DrainCommand, Sited
<1>6. CASE Resubscribe
  <2>1. {Current(s) : s \in local} \subseteq Update
    BY DEF Current, Update
  <2>2. /\ session' = local
        /\ wire' = IF local = {} THEN <<>> ELSE <<{Current(s) : s \in local}>>
    BY <1>6 DEF Resubscribe, IdsToResubscribe
  <2>3. <<>> \in Seq(SUBSET Update) /\ <<{Current(s) : s \in local}>> \in Seq(SUBSET Update)
    BY <2>1, OneMessage DEF Inv
  <2>4. session' \subseteq Swaps /\ wire' \in Seq(SUBSET Update)
    BY <2>2, <2>3
  <2> QED BY <1>1, <1>6, <2>4 DEF Resubscribe
<1>7. CASE ReadCommand
  <2>1. Head(cmds) \in ReaderCommand
    BY <1>7 DEF ReadCommand, TakeCommand
  <2>2. Head(cmds).op = "subscribe" => Head(cmds).swap \in Swaps
    BY <2>1 DEF ReaderCommand
  <2>3. Head(cmds).op = "subscribe" => {Current(Head(cmds).swap)} \subseteq Update
    BY <2>2 DEF Current, Update
  <2>4. session' \subseteq Swaps /\ wire' \in Seq(SUBSET Update)
    <3>1. CASE Head(cmds).op = "subscribe"
      <4>1. /\ session' = session \cup {Head(cmds).swap}
            /\ wire' = Append(wire, {Current(Head(cmds).swap)})
        BY <1>7, <3>1 DEF ReadCommand
      <4> QED BY <2>2, <2>3, <3>1, <4>1, OneMoreMessage
    <3>2. CASE Head(cmds).op # "subscribe"
      BY <1>7, <3>2 DEF ReadCommand
    <3> QED BY <3>1, <3>2
  <2>5. /\ reader' \in {"reading", "stopped"}
        /\ cmds' \in Seq(ReaderCommand) /\ Len(cmds') <= CmdCap
        /\ local' \subseteq Swaps /\ Sited' /\ TrackedIsSubscribed'
    BY <1>2, <1>7 DEF ReadCommand
  <2> QED BY <1>7, <2>4, <2>5 DEF ReadCommand, Sited
<1>8. CASE ReadMessage
  BY <1>1, <1>8 DEF ReadMessage
<1>9. CASE SendUpdate
  <2>1. PICK u \in out :
          /\ out' = out \ {u}
          /\ \/ Len(updates) < UpdCap /\ updates' = Append(updates, u)
             \/ UNCHANGED updates
    BY <1>9 DEF SendUpdate, HasRoom
  <2>2. u \in Update /\ updates \in Seq(Update) /\ Len(updates) <= UpdCap /\ UpdCap \in Nat
    BY <2>1, ChannelsAssumption
  <2>3. updates' \in Seq(Update) /\ Len(updates') <= UpdCap
    BY ONLY <2>1, <2>2
  <2> QED BY <1>1, <1>9, <2>1, <2>3 DEF SendUpdate
<1> QED BY <1>3, <1>4, <1>5, <1>6, <1>7, <1>8, <1>9 DEF ReaderSteps

LEMMA InvLoop ==
  ASSUME Inv, LoopSteps
  PROVE Inv'
<1> USE DEF Inv, TypeOK, socket, channels, tracking, tasks, records, counters, boltz, Procs, Workers
<1>1. ASSUME NEW p \in Procs, pc[p] \notin {"subscribe", "remove"},
             \A q \in Procs \ {p} : pc'[q] = pc[q] /\ at'[q] = at[q],
             UNCHANGED <<cmds, local, tracked>>, TypeOK', Sited'
      PROVE Inv'
  BY <1>1, ProcessMoves DEF Sited
<1>2. CASE LoopIgnores
  <2>1. updates' \in Seq(Update) /\ Len(updates') <= UpdCap
    BY <1>2, ChannelsAssumption DEF LoopIgnores
  <2> QED BY <1>2, <2>1 DEF LoopIgnores, TrackedIsSubscribed
<1>3. ASSUME NEW h \in Handlers, LoopDispatches(h) PROVE Inv'
  <2>1. updates' \in Seq(Update) /\ Len(updates') <= UpdCap /\ Head(updates) \in Update
    BY <1>3, ChannelsAssumption DEF LoopDispatches
  <2>2. Head(updates).swap \in Swaps /\ Head(updates).status \in 0..MaxChanges
    BY <2>1 DEF Update
  <2>3. TypeOK'
    BY <1>3, <2>1, <2>2 DEF LoopDispatches, GoTo
  <2>4. Sited'
    BY <1>3, <2>2 DEF LoopDispatches, GoTo, Sited, OnSwap
  <2> QED BY <1>1, <1>3, <2>3, <2>4 DEF LoopDispatches, GoTo
<1>4. CASE TasksJoined
  BY <1>1, <1>4 DEF TasksJoined, GoTo, Sited, OnSwap
<1>5. CASE Close
  <2> DEFINE c == [op |-> "shutdown", swap |-> NoSwap]
  <2>1. /\ pc[Main] = "stopped" /\ pc' = [pc EXCEPT ![Main] = "closed"]
        /\ Len(cmds) < CmdCap /\ cmds' = Append(cmds, c)
        /\ UNCHANGED <<boltz, socket, updates, tracking, at, seen, todo, records, counters>>
    BY <1>5 DEF Close, GoTo, HasRoom
  <2>2. c \in ReaderCommand
    BY DEF ReaderCommand
  <2>3. cmds' \in Seq(ReaderCommand) /\ Len(cmds') <= CmdCap
    <3>1. cmds \in Seq(ReaderCommand) /\ CmdCap \in Nat
      BY ChannelsAssumption
    <3> QED BY ONLY <2>1, <2>2, <3>1 
  <2>4. TypeOK' /\ Sited'
    BY <2>1, <2>3 DEF Sited, OnSwap
  <2>5. TrackedIsSubscribed'
    <3> SUFFICES ASSUME NEW s \in tracked
                 PROVE \/ LastIsSubscribe(cmds', s)
                       \/ About(cmds', s) = {} /\ s \in local
                       \/ \E p \in Procs : at[p] = s /\ pc'[p] \in {"subscribe", "remove"}
      BY <2>1 DEF TrackedIsSubscribed
    <3>1. \A p \in Procs : pc[p] \in {"subscribe", "remove"} => pc'[p] = pc[p]
      BY <2>1
    <3>2. CASE \E p \in Procs : at[p] = s /\ pc[p] \in {"subscribe", "remove"}
      BY <3>1, <3>2
    <3>3. cmds \in Seq(ReaderCommand) /\ s \in Swaps /\ c.swap # s
      BY ChannelsAssumption
    <3>4. /\ About(cmds', s) = About(cmds, s)
          /\ LastIsSubscribe(cmds, s) => LastIsSubscribe(cmds', s)
      BY <2>1, <2>2, <3>3, SentAboutOthers
    <3> QED BY <3>2, <3>4 DEF TrackedIsSubscribed
  <2> QED BY <2>4, <2>5 DEF Sited
<1>6. ASSUME NEW s \in Swaps, LoopTracks(s) PROVE Inv'
  BY <1>1, <1>6 DEF LoopTracks, GoTo, After, Sited, OnSwap
<1>7. ASSUME NEW r \in Reconcilers, LoopTicks(r) PROVE Inv'
  BY <1>1, <1>7 DEF LoopTicks, GoTo, Sited, OnSwap
<1> QED BY <1>2, <1>3, <1>4, <1>5, <1>6, <1>7, InvInsert, InvSend DEF LoopSteps, LoopTakesUpdate

LEMMA InvTasks ==
  ASSUME Inv, TaskSteps
  PROVE Inv'
<1> USE DEF Inv, TypeOK, socket, channels, tracking, records, counters, boltz, Procs, Workers
<1>1. ASSUME NEW p \in Procs, pc[p] \notin {"subscribe", "remove"},
             \A q \in Procs \ {p} : pc'[q] = pc[q] /\ at'[q] = at[q],
             UNCHANGED <<cmds, local, tracked>>, TypeOK', Sited'
      PROVE Inv'
  BY <1>1, ProcessMoves DEF Sited
<1>2. ASSUME NEW h \in Handlers, Begin(h) PROVE Inv'
  <2>1. at[h] \in Swaps
    BY <1>2 DEF Begin, OnSwap
  <2>2. TypeOK' /\ Sited'
    BY <1>2, <2>1, ChannelsAssumption DEF Begin, GoTo, After, Sited, OnSwap
  <2> QED BY <1>1, <1>2, <2>2 DEF Begin, GoTo
<1>3. ASSUME NEW h \in Handlers, Finish(h) PROVE Inv'
  <2>1. PICK place \in {"idle", "unsubscribe"} : Proceed(h, place)
    BY <1>3 DEF Finish, After
  <2>2. pc[h] = "handling" /\ pc[h] \in OnSwap
    BY <1>3 DEF Finish, OnSwap
  <2>3. /\ pc' \in [Procs -> {"select", "draining", "stopped", "closed", "idle",
                              "waiting", "handling", "unsubscribe", "remove",
                              "check", "insert", "subscribe"}]
        /\ at' \in [Procs -> Swaps \cup {NoSwap}] /\ Sited'
        /\ \A q \in Procs \ {h} : pc'[q] = pc[q] /\ at'[q] = at[q]
    <3> HIDE DEF Inv, TypeOK, Procs, Workers
    <3>1. h \in Procs /\ place \in {"select", "idle", "unsubscribe", "remove", "check", "insert", "subscribe"}
      BY DEF Procs, Workers
    <3> QED BY <2>1, <2>2, <3>1, ProceedIsTyped
  <2>4. done' \in [Swaps -> BOOLEAN]
    BY <1>3 DEF Finish
  <2>5. TypeOK'
    BY <1>3, <2>3, <2>4 DEF Finish
  <2> QED BY <1>1, <1>3, <2>2, <2>3, <2>5 DEF Finish
<1>4. ASSUME NEW r \in Reconcilers, Reconcile(r) PROVE Inv'
  <2>1. PICK place \in {"idle", "check", "insert"}, s \in Swaps \cup {NoSwap}, list \in SUBSET Swaps :
          /\ pc' = [pc EXCEPT ![r] = place] /\ at' = [at EXCEPT ![r] = s]
          /\ todo' = [todo EXCEPT ![r] = list] /\ (place = "insert" => s \in Swaps)
    <3>1. CASE GoTo(r, "idle") /\ UNCHANGED <<at, todo>>
      <4>1. /\ pc' = [pc EXCEPT ![r] = "idle"] /\ at' = [at EXCEPT ![r] = at[r]]
            /\ todo' = [todo EXCEPT ![r] = todo[r]]
        BY <3>1 DEF GoTo
      <4> QED BY <4>1
    <3>2. ASSUME NEW s \in todo[r], todo' = [todo EXCEPT ![r] = @ \ {s}],
                 \/ UNCHANGED <<pc, at>>
                 \/ GoTo(r, "insert") /\ at' = [at EXCEPT ![r] = s]
          PROVE \E place \in {"idle", "check", "insert"}, u \in Swaps \cup {NoSwap}, list \in SUBSET Swaps :
                  /\ pc' = [pc EXCEPT ![r] = place] /\ at' = [at EXCEPT ![r] = u]
                  /\ todo' = [todo EXCEPT ![r] = list] /\ (place = "insert" => u \in Swaps)
      <4>1. todo[r] \ {s} \in SUBSET Swaps /\ s \in Swaps /\ at[r] \in Swaps \cup {NoSwap}
        BY <3>2
      <4>2. CASE UNCHANGED <<pc, at>>
        <5>1. pc' = [pc EXCEPT ![r] = "check"] /\ at' = [at EXCEPT ![r] = at[r]]
          BY <1>4, <4>2 DEF Reconcile
        <5>2. todo' = [todo EXCEPT ![r] = todo[r] \ {s}]
          BY <3>2
        <5> WITNESS "check" \in {"idle", "check", "insert"}, at[r] \in Swaps \cup {NoSwap},
                    todo[r] \ {s} \in SUBSET Swaps
        <5> QED BY <5>1, <5>2
      <4>3. CASE GoTo(r, "insert") /\ at' = [at EXCEPT ![r] = s]
        BY <3>2, <4>1, <4>3 DEF GoTo
      <4> QED BY <3>2, <4>2, <4>3
    <3> QED BY <1>4, <3>1, <3>2 DEF Reconcile, After
  <2>2. TypeOK' /\ Sited'
    BY <1>4, <2>1 DEF Reconcile, Sited, OnSwap
  <2> QED BY <1>1, <1>4, <2>1, <2>2 DEF Reconcile
<1> QED BY <1>2, <1>3, <1>4, InvInsert, InvRemove, InvSend
        DEF TaskSteps, HandlerSteps, ReconcilerSteps

LEMMA InvInit == Init => Inv
BY ChannelsAssumption
   DEF Init, Inv, TypeOK, TrackedIsSubscribed, OnSwap, ReaderCommand, Update, Procs

LEMMA InvStutters == Inv /\ UNCHANGED vars => Inv'
BY DEF Inv, TypeOK, TrackedIsSubscribed, vars, socket, channels, tracking, tasks, records, counters, boltz

THEOREM Tracking == Spec => []Inv
<1>1. Inv /\ [Next]_vars => Inv'
  BY InvOutside, InvReader, InvLoop, InvTasks, InvStutters DEF Next
<1> QED BY <1>1, InvInit, PTL DEF Spec

(* Types hold, and neither channel holds more than its capacity.           *)
THEOREM ChannelsTyped == Spec => []TypeOK
BY Tracking, PTL DEF Inv

(* A tracked swap is subscribed or about to be, however start_tracking and *)
(* cleanup_terminal interleave.                                            *)
THEOREM TrackedStaysSubscribed == Spec => []TrackedIsSubscribed
BY Tracking, PTL DEF Inv
=============================================================================
