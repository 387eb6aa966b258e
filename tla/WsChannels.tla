----------------------------- MODULE WsChannels -----------------------------
(***************************************************************************)
(* How status updates reach the handlers: the reader task of the           *)
(* reconnecting WebSocket (src/crates/lib/src/api/ws.rs), the event loop   *)
(* of the swap manager with the tasks it spawns (swap/manager.rs), and the *)
(* two bounded channels between them.                                      *)
(*                                                                         *)
(* The handlers themselves are in SwapManager.  Here a swap is done or not *)
(* (final or Settling: it needs no event any more), and a status is a      *)
(* number that grows.  Every await is a step of its own.  Locks of         *)
(* tracked_ids are held for one step.                                      *)
(***************************************************************************)
EXTENDS Naturals, Sequences

CONSTANTS
  Swaps, NoSwap,
  Handlers,        \* tasks that handle an update, and tasks of a tick that
  Reconcilers,     \* reconcile; as many as needed in the code
  Main,            \* the event loop
  CmdCap, UpdCap,  \* channel capacities, 16 and 256 in the code
  MaxChanges,      \* status changes of a swap at Boltz
  MaxTracks,       \* calls of track_swap
  MaxDrops,        \* lost connections
  MaxRevivals      \* stale records brought back by replication

ASSUME ChannelsAssumption ==
  /\ NoSwap \notin Swaps /\ Main \notin Handlers \cup Reconcilers
  /\ CmdCap \in Nat \ {0} /\ UpdCap \in Nat \ {0}
  /\ {MaxChanges, MaxTracks, MaxDrops, MaxRevivals} \subseteq Nat

VARIABLES
  status, session, wire,   \* Boltz: statuses, subscriptions, messages under way
  reader, local, out,      \* reader task: where it is, local_ids, updates to send on
  cmds, updates,           \* the channels to and from the reader
  requests, tracked,       \* swaps to track, and tracked_ids
  pc, at, seen, todo,      \* the loop and its tasks: place, swap, status, list
  done, handled,           \* the records, and the last status handled
  drops, tracks, revivals  \* counters of the bounds

boltz == <<status, session, wire>>
socket == <<reader, local, out>>
channels == <<cmds, updates>>
tracking == <<requests, tracked>>
tasks == <<pc, at, seen, todo>>
records == <<done, handled>>
counters == <<drops, tracks, revivals>>
vars == <<boltz, socket, channels, tracking, tasks, records, counters>>

Workers == Handlers \cup Reconcilers
Procs == Workers \cup {Main}
Update == [swap : Swaps, status : 0..MaxChanges]
ReaderCommand == [op : {"subscribe", "unsubscribe"}, swap : Swaps]
                 \cup [op : {"shutdown"}, swap : {NoSwap}]

TypeOK ==
  /\ status \in [Swaps -> 0..MaxChanges] /\ session \subseteq Swaps
  /\ wire \in Seq(SUBSET Update)
  /\ reader \in {"connecting", "drain", "reading", "sending", "backoff", "stopped"}
  /\ local \subseteq Swaps /\ out \subseteq Update
  /\ cmds \in Seq(ReaderCommand) /\ Len(cmds) <= CmdCap
  /\ updates \in Seq(Update) /\ Len(updates) <= UpdCap
  /\ requests \subseteq Swaps /\ tracked \subseteq Swaps
  /\ pc \in [Procs -> {"select", "draining", "stopped", "closed", "idle",
                       "waiting", "handling", "unsubscribe", "remove",
                       "check", "insert", "subscribe"}]
  /\ at \in [Procs -> Swaps \cup {NoSwap}]
  /\ seen \in [Procs -> 0..MaxChanges] /\ todo \in [Procs -> SUBSET Swaps]
  /\ done \in [Swaps -> BOOLEAN] /\ handled \in [Swaps -> 0..MaxChanges]
  /\ drops \in 0..MaxDrops /\ tracks \in 0..MaxTracks /\ revivals \in 0..MaxRevivals

Init ==
  /\ status = [s \in Swaps |-> 0] /\ session = {} /\ wire = <<>>
  /\ reader = "connecting" /\ local = {} /\ out = {}
  /\ cmds = <<>> /\ updates = <<>>
  /\ requests = {} /\ tracked = {}
  /\ pc = [p \in Procs |-> IF p = Main THEN "select" ELSE "idle"]
  /\ at = [p \in Procs |-> NoSwap]
  /\ seen = [p \in Procs |-> 0] /\ todo = [p \in Procs |-> {}]
  /\ done = [s \in Swaps |-> FALSE] /\ handled = [s \in Swaps |-> 0]
  /\ drops = 0 /\ tracks = 0 /\ revivals = 0

-----------------------------------------------------------------------------
(* The world outside: Boltz, the embedder, and what finalizes or brings    *)
(* back a record without the help of a handler.                            *)
Current(s) == [swap |-> s, status |-> status[s]]

StatusChange(s) ==
  /\ status[s] < MaxChanges
  /\ status' = [status EXCEPT ![s] = @ + 1]
  /\ wire' = IF s \in session THEN Append(wire, {Current(s)'}) ELSE wire
  /\ UNCHANGED <<session, socket, channels, tracking, tasks, records, counters>>

TrackSwap(s) ==
  /\ tracks < MaxTracks /\ tracks' = tracks + 1
  /\ pc[Main] \notin {"stopped", "closed"}
  /\ requests' = requests \cup {s}
  /\ UNCHANGED <<boltz, socket, channels, tracked, tasks, records, drops, revivals>>

PollFinalizes(s) ==
  /\ ~done[s] /\ done' = [done EXCEPT ![s] = TRUE]
  /\ UNCHANGED <<boltz, socket, channels, tracking, tasks, handled, counters>>

Replicate(s) ==
  /\ done[s] /\ done' = [done EXCEPT ![s] = FALSE]
  /\ revivals < MaxRevivals /\ revivals' = revivals + 1
  /\ UNCHANGED <<boltz, socket, channels, tracking, tasks, handled, drops, tracks>>

-----------------------------------------------------------------------------
(* The steps that change tracked_ids and the subscription.  start_tracking *)
(* inserts, then subscribes; cleanup_terminal unsubscribes, then removes.  *)
SubscribeFirst(p, here) ==   \* mutant: start_tracking subscribes first
  CASE here = "start" -> "subscribe" [] here = "subscribe" -> "insert"
    [] here = "insert" -> IF p = Main THEN "select" ELSE "check"
    [] here = "cleanup" -> "unsubscribe" [] here = "unsubscribe" -> "remove"
    [] here = "remove" -> "idle"
After(p, here) ==
  CASE here = "start" -> "insert" [] here = "insert" -> "subscribe"
    [] here = "subscribe" -> IF p = Main THEN "select" ELSE "check"
    [] here = "cleanup" -> "unsubscribe" [] here = "unsubscribe" -> "remove"
    [] here = "remove" -> "idle"

(* A bounded channel takes a message only when there is room.              *)
RoomOffByOne(channel, capacity) == Len(channel) <= capacity   \* mutant
HasRoom(channel, capacity) == Len(channel) < capacity

GoTo(p, place) == pc' = [pc EXCEPT ![p] = place]

(* The next place of a task that works on a swap, until it is through.     *)
Proceed(p, place) ==
  /\ GoTo(p, place)
  /\ at' = [at EXCEPT ![p] = IF place \in {"idle", "check", "select"} THEN NoSwap ELSE @]

Insert(p) ==
  /\ pc[p] = "insert" /\ Proceed(p, After(p, "insert"))
  /\ tracked' = tracked \cup {at[p]}
  /\ UNCHANGED <<boltz, socket, channels, requests, seen, todo, records, counters>>

Remove(p) ==
  /\ pc[p] = "remove" /\ Proceed(p, After(p, "remove"))
  /\ tracked' = tracked \ {at[p]}
  /\ UNCHANGED <<boltz, socket, channels, requests, seen, todo, records, counters>>

(* subscribe and unsubscribe wait for room in the command channel.  The    *)
(* reader outlives the loop and its tasks (close comes after both have     *)
(* ended), so neither finds the channel closed.                            *)
SendCommand(p, op) ==
  /\ pc[p] = op /\ Proceed(p, After(p, op))
  /\ HasRoom(cmds, CmdCap) /\ cmds' = Append(cmds, [op |-> op, swap |-> at[p]])
  /\ UNCHANGED <<boltz, socket, updates, tracking, seen, todo, records, counters>>

-----------------------------------------------------------------------------
(* The event loop.                                                         *)
LoopTracks(s) ==
  /\ pc[Main] = "select" /\ GoTo(Main, After(Main, "start"))
  /\ s \in requests /\ requests' = requests \ {s}
  /\ at' = [at EXCEPT ![Main] = s]
  /\ UNCHANGED <<boltz, socket, channels, tracked, seen, todo, records, counters>>

LoopDispatches(w) ==
  /\ pc[Main] = "select" /\ pc[w] = "idle" /\ updates # <<>>
  /\ Head(updates).swap \in tracked
  /\ updates' = Tail(updates)
  /\ at' = [at EXCEPT ![w] = Head(updates).swap]
  /\ seen' = [seen EXCEPT ![w] = Head(updates).status]
  /\ GoTo(w, "waiting")
  /\ UNCHANGED <<boltz, socket, cmds, tracking, todo, records, counters>>

LoopIgnores ==
  /\ pc[Main] = "select" /\ updates # <<>>
  /\ Head(updates).swap \notin tracked
  /\ updates' = Tail(updates)
  /\ UNCHANGED <<boltz, socket, cmds, tracking, tasks, records, counters>>

(* The tick spawns reconcile_tracking, with the swaps list_active_swaps    *)
(* returns but those in Settling.                                          *)
LoopTicks(w) ==
  /\ pc[Main] = "select" /\ pc[w] = "idle" /\ GoTo(w, "check")
  /\ todo' = [todo EXCEPT ![w] = {s \in Swaps : ~done[s]}]
  /\ UNCHANGED <<boltz, socket, channels, tracking, at, seen, records, counters>>

Stop ==
  /\ pc[Main] = "select" /\ GoTo(Main, "draining")
  /\ UNCHANGED <<boltz, socket, channels, tracking, at, seen, todo, records, counters>>

TasksJoined ==
  /\ pc[Main] = "draining" /\ \A w \in Workers : pc[w] = "idle"
  /\ GoTo(Main, "stopped")
  /\ UNCHANGED <<boltz, socket, channels, tracking, at, seen, todo, records, counters>>

Close ==
  /\ pc[Main] = "stopped" /\ GoTo(Main, "closed")
  /\ HasRoom(cmds, CmdCap) /\ cmds' = Append(cmds, [op |-> "shutdown", swap |-> NoSwap])
  /\ UNCHANGED <<boltz, socket, updates, tracking, at, seen, todo, records, counters>>

-----------------------------------------------------------------------------
(* The tasks.  A handler holds its swap's lock from Begin on.              *)
Locked == {"handling", "unsubscribe", "remove"}

Begin(w) ==
  /\ pc[w] = "waiting"
  /\ \A v \in Handlers : pc[v] \in Locked => at[v] # at[w]
  /\ handled' = [handled EXCEPT ![at[w]] = IF seen[w] > @ THEN seen[w] ELSE @]
  /\ seen' = [seen EXCEPT ![w] = 0]
  /\ GoTo(w, IF done[at[w]] THEN After(w, "cleanup") ELSE "handling")
  /\ UNCHANGED <<boltz, socket, channels, tracking, at, todo, done, counters>>

Finish(w) ==
  /\ pc[w] = "handling"
  /\ \/ Proceed(w, "idle") /\ UNCHANGED done
     \/ /\ done' = [done EXCEPT ![at[w]] = TRUE]
        /\ \E place \in {"idle", After(w, "cleanup")} : Proceed(w, place)
  /\ UNCHANGED <<boltz, socket, channels, tracking, seen, todo, handled, counters>>

(* reconcile_tracking skips the swaps that are tracked.                    *)
Reconcile(w) ==
  /\ pc[w] = "check"
  /\ \/ todo[w] = {} /\ GoTo(w, "idle") /\ UNCHANGED <<at, todo>>
     \/ \E s \in todo[w] :
          /\ todo' = [todo EXCEPT ![w] = @ \ {s}]
          /\ \/ s \in tracked /\ UNCHANGED <<pc, at>>
             \/ s \notin tracked /\ GoTo(w, After(w, "start")) /\ at' = [at EXCEPT ![w] = s]
  /\ UNCHANGED <<boltz, socket, channels, tracking, seen, records, counters>>

-----------------------------------------------------------------------------
(* The reader.                                                             *)
Apply(c) ==
  local' = CASE c.op = "subscribe" -> local \cup {c.swap}
             [] c.op = "unsubscribe" -> local \ {c.swap}
             [] c.op = "shutdown" -> local

TakeAnyCommand(next) ==   \* mutant: Shutdown is one command like the others
  /\ cmds # <<>> /\ cmds' = Tail(cmds) /\ Apply(Head(cmds))
  /\ reader' = next
TakeCommand(next) ==
  /\ cmds # <<>> /\ cmds' = Tail(cmds) /\ Apply(Head(cmds))
  /\ reader' = IF Head(cmds).op = "shutdown" THEN "stopped" ELSE next

Connect ==
  /\ reader = "connecting" /\ reader' = "drain"
  /\ UNCHANGED <<boltz, local, out, channels, tracking, tasks, records, counters>>

ConnectFails ==
  /\ reader = "connecting" /\ reader' = "backoff"
  /\ UNCHANGED <<boltz, local, out, channels, tracking, tasks, records, counters>>

(* The delay before the next attempt, cut short by a command.              *)
Retry ==
  /\ reader = "backoff"
  /\ \/ TakeCommand("connecting")
     \/ reader' = "connecting" /\ UNCHANGED <<local, cmds>>
  /\ UNCHANGED <<boltz, out, updates, tracking, tasks, records, counters>>

DrainCommand ==
  /\ reader = "drain" /\ TakeCommand("drain")
  /\ UNCHANGED <<boltz, out, updates, tracking, tasks, records, counters>>

(* Boltz answers a subscription with the current statuses.                 *)
ForgetsIds == {}   \* mutant: no subscription after a reconnect
IdsToResubscribe == local

Resubscribe ==
  /\ reader = "drain" /\ cmds = <<>> /\ reader' = "reading"
  /\ session' = IdsToResubscribe
  /\ wire' = IF session' = {} THEN <<>> ELSE <<{Current(s) : s \in session'}>>
  /\ UNCHANGED <<status, local, out, channels, tracking, tasks, records, counters>>

ReadCommand ==
  /\ reader = "reading" /\ TakeCommand("reading")
  /\ IF Head(cmds).op = "subscribe"
     THEN /\ session' = session \cup {Head(cmds).swap}
          /\ wire' = Append(wire, {Current(Head(cmds).swap)})
     ELSE UNCHANGED <<session, wire>>
  /\ UNCHANGED <<status, out, updates, tracking, tasks, records, counters>>

ReadMessage ==
  /\ reader = "reading" /\ reader' = "sending"
  /\ wire # <<>> /\ wire' = Tail(wire) /\ out' = Head(wire)
  /\ UNCHANGED <<status, session, local, channels, tracking, tasks, records, counters>>

(* handle_message sends the updates of a message one by one, and takes no  *)
(* command in between.  Once the loop is gone, sending fails at once.      *)
SendUpdate ==
  /\ reader = "sending"
  /\ \E u \in out :
       /\ out' = out \ {u}
       /\ reader' = IF out' = {} THEN "reading" ELSE "sending"
       /\ \/ HasRoom(updates, UpdCap) /\ updates' = Append(updates, u)
          \/ pc[Main] \in {"stopped", "closed"} /\ UNCHANGED updates
  /\ UNCHANGED <<boltz, local, cmds, tracking, tasks, records, counters>>

(* The connection ends, or a write fails; what was under way is lost.      *)
Disconnect ==
  /\ reader = "reading" /\ reader' = "backoff"
  /\ session' = {} /\ wire' = <<>>
  /\ drops < MaxDrops /\ drops' = drops + 1
  /\ \/ UNCHANGED <<local, cmds>>
     \/ cmds # <<>> /\ Head(cmds).op = "subscribe"
        /\ cmds' = Tail(cmds) /\ Apply(Head(cmds))
  /\ UNCHANGED <<status, out, updates, tracking, tasks, records, tracks, revivals>>

-----------------------------------------------------------------------------
ReaderSteps ==
  \/ Connect \/ ConnectFails \/ Retry \/ DrainCommand \/ Resubscribe
  \/ ReadCommand \/ ReadMessage \/ SendUpdate

HandlerSteps(h) == Begin(h) \/ Finish(h) \/ Remove(h) \/ SendCommand(h, "unsubscribe")
ReconcilerSteps(r) == Reconcile(r) \/ Insert(r) \/ SendCommand(r, "subscribe")
TaskSteps == \/ \E h \in Handlers : HandlerSteps(h)
             \/ \E r \in Reconcilers : ReconcilerSteps(r)

LoopTakesUpdate == LoopIgnores \/ \E h \in Handlers : LoopDispatches(h)

LoopSteps ==
  \/ LoopTakesUpdate \/ TasksJoined \/ Close
  \/ Insert(Main) \/ SendCommand(Main, "subscribe")
  \/ \E s \in Swaps : LoopTracks(s)
  \/ \E r \in Reconcilers : LoopTicks(r)

World ==
  \/ Disconnect \/ Stop
  \/ \E s \in Swaps : StatusChange(s) \/ TrackSwap(s) \/ PollFinalizes(s) \/ Replicate(s)

Next == ReaderSteps \/ LoopSteps \/ TaskSteps \/ World

Spec == Init /\ [][Next]_vars

-----------------------------------------------------------------------------
(* A tracked swap is subscribed: the last word the reader gets about it is *)
(* a subscription, or a task is on its way to send one, or to remove it    *)
(* (start_tracking against cleanup_terminal).                              *)
About(queue, s) == {i \in 1..Len(queue) : queue[i].swap = s}
LastIsSubscribe(queue, s) ==
  \E i \in About(queue, s) :
    queue[i].op = "subscribe" /\ \A j \in About(queue, s) : j <= i

TrackedIsSubscribed ==
  \A s \in tracked :
    \/ LastIsSubscribe(cmds, s)
    \/ About(cmds, s) = {} /\ s \in local
    \/ \E p \in Procs : at[p] = s /\ pc[p] \in {"subscribe", "remove"}

(* With both channels full, the reader waits for the loop to take an       *)
(* update and whoever has a command waits for the reader to take one.      *)
ReaderWaits == reader = "sending" /\ ~HasRoom(updates, UpdCap)
AwaitsReader(p) == pc[p] \in {"subscribe", "unsubscribe"} /\ ~HasRoom(cmds, CmdCap)

(* What the code does not rule out, and nothing ends: the reader waits for *)
(* the loop, and the loop for the reader, or for a task that waits for it. *)
Jammed ==
  /\ ReaderWaits
  /\ \/ AwaitsReader(Main)
     \/ pc[Main] = "draining" /\ \E w \in Workers : AwaitsReader(w)

(* The loop only dispatches, and lets the work in flight finish when it    *)
(* stops: it never waits on the reader, nor on a task that does, while the *)
(* reader waits on it (run_loop).                                          *)
NeverJams == ~Jammed

-----------------------------------------------------------------------------
(* Fairness: tasks, loop and reader take their next step when they can.    *)
(* The loop's select picks among its ready branches at random, so each     *)
(* gets its turn, and attempts to connect do not fail for ever.            *)
Fairness ==
  /\ \A h \in Handlers : WF_vars(HandlerSteps(h))
  /\ \A r \in Reconcilers : WF_vars(ReconcilerSteps(r))
  /\ WF_vars(LoopTakesUpdate) /\ WF_vars(\E s \in Swaps : LoopTracks(s))
  /\ WF_vars(\E r \in Reconcilers : LoopTicks(r))
  /\ WF_vars(Insert(Main) \/ SendCommand(Main, "subscribe") \/ TasksJoined \/ Close)
  /\ WF_vars(ReaderSteps) /\ SF_vars(Connect)

FairSpec == Spec /\ Fairness

Stopping == pc[Main] \in {"draining", "stopped", "closed"}

(* Every status of a swap reaches a handler, that one or a later one,      *)
(* across reconnects, clean-ups and revivals, while the swap needs events  *)
(* and the service runs, unless the channels jam: neither a slow handler   *)
(* nor a full update channel alone loses one (reconcile_tracking,          *)
(* resubscription, handle_message).                                        *)
StatusIsHandled ==
  \/ <>[]Jammed
  \/ \A s \in Swaps : \A v \in 1..MaxChanges :
       status[s] >= v ~> handled[s] >= v \/ done[s] \/ Stopping

(* A shutdown lets the work in flight finish and then ends: the tasks, the *)
(* loop, and then the reader (SwapManager::shutdown, close).  The jam is   *)
(* all that can keep it from its end, whatever the tasks are at when it    *)
(* comes and with the reader waiting for room.                             *)
OnlyJamStopsShutdown ==
  <>[]Jammed \/ (Stopping ~> pc[Main] = "closed" /\ reader = "stopped")

=============================================================================
