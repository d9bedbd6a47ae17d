------------------------------ MODULE Channel ------------------------------
(***************************************************************************)
(* One channel of the node (src/net/channel.rs) with its message subsystem *)
(* (src/net/message_subscriber.rs), its stop subscriber and the stoppable  *)
(* receive task (src/system).                                              *)
(*                                                                         *)
(* Tasks: the receive loop "rx"; Callers, protocol tasks that send on the  *)
(* channel or stop it, and may be cancelled; Readers, message              *)
(* subscriptions of a fixed command; Watchers, stop subscriptions.         *)
(* A label of pc is a point where the task may be suspended, and therefore *)
(* cancelled: futures are dropped only at an await that is not ready.      *)
(* Sends on the unbounded queues never suspend.                            *)
(*                                                                         *)
(* A message is its number among the messages of its command.              *)
(***************************************************************************)
EXTENDS Naturals, Sequences, FiniteSets

CONSTANTS
  Callers, Readers, Watchers,
  Commands,     \* commands with a dispatcher (setup_dispatchers)
  CommandOf,    \* the command each reader subscribes to
  Err,          \* an error in a message queue
  MaxMessages,  \* bound: messages of each command
  MaxStops      \* bound: calls of Channel::stop

ASSUME CommandAssumption == CommandOf \in [Readers -> Commands]
ASSUME BoundAssumption == MaxMessages \in Nat /\ MaxStops \in Nat /\ Err \notin Nat

VARIABLES
  pc,       \* where each task is
  todo,     \* the dispatchers a task inside trigger_error has still to visit
  current,  \* the command of the packet the receive loop is handing out
  stopped,  \* Channel.stopped
  stops,    \* how often stop() was entered
  stopReq,  \* is there a signal in the stop queue of the receive task?
  watch,    \* the stop subscriptions
  reg,      \* the message subscriptions: "none", "live" (registered, with a
            \* receiver), "garbage" (registered, receiver dropped) or "gone"
  queue,    \* the receive queue of each reader
  next,     \* the number of the first message the reader has not received
  sent      \* the number of messages dispatched for each command

vars == <<pc, todo, current, stopped, stops, stopReq, watch, reg, queue, next, sent>>

stopVars   == <<stopped, stops, stopReq, watch>>
readerVars == <<reg, queue, next, sent>>

Tasks == Callers \cup {"rx"}

TypeOK ==
  /\ pc \in [Tasks -> {"idle", "read", "deliver", "stop", "locking", "trigger", "handle",
                       "handling", "done", "cancelled", "panicked"}]
  /\ todo \in [Tasks -> SUBSET Commands]
  /\ current \in Commands
  /\ stopped \in BOOLEAN /\ stopReq \in BOOLEAN /\ stops \in Nat
  /\ watch \in [Watchers -> {"none", "live", "signalled", "dropped", "left"}]
  /\ reg \in [Readers -> {"none", "live", "garbage", "gone"}]
  /\ queue \in [Readers -> Seq(Nat \cup {Err})]
  /\ next \in [Readers -> Nat]
  /\ sent \in [Commands -> Nat]

Init ==
  /\ pc = [t \in Tasks |-> "idle"]
  /\ todo = [t \in Tasks |-> {}]
  /\ current \in Commands
  /\ stopped = FALSE
  /\ stops = 0
  /\ stopReq = FALSE
  /\ watch = [w \in Watchers |-> "none"]
  /\ reg = [r \in Readers |-> "none"]
  /\ queue = [r \in Readers |-> <<>>]
  /\ next = [r \in Readers |-> 1]
  /\ sent = [c \in Commands |-> 0]

Goto(t, l) == pc' = [pc EXCEPT ![t] = l]
Started == pc["rx"] # "idle"

\* trigger_error holds the lock of the dispatcher table while it visits them.
TableLocked == \E t \in Tasks : pc[t] \in {"trigger", "handling"}

----------------------------------------------------------------------------
(* The message subsystem.                                                  *)

Registered(c) == {r \in Readers : CommandOf[r] = c /\ reg[r] \in {"live", "garbage"}}

\* A trigger_all that stops at the first closed receiver instead of noting it.
TriggerFails(c, item) ==
  IF \E r \in Registered(c) : reg[r] = "garbage"
    THEN UNCHANGED <<queue, reg>>
    ELSE /\ queue' = [r \in Readers |-> IF r \in Registered(c) THEN Append(queue[r], item) ELSE queue[r]]
         /\ UNCHANGED reg

\* trigger_all: the item goes to every live subscription of the dispatcher,
\* and the subscriptions whose receiver is gone are removed.
TriggerAll(c, item) ==
  /\ queue' = [r \in Readers |->
                 IF r \in Registered(c) /\ reg[r] = "live" THEN Append(queue[r], item) ELSE queue[r]]
  /\ reg' = [r \in Readers |->
               IF r \in Registered(c) /\ reg[r] = "garbage" THEN "gone" ELSE reg[r]]

\* MessageSubsystem::subscribe looks the dispatcher up under the table lock.
Subscribe(r) ==
  /\ reg[r] = "none" /\ ~TableLocked
  /\ reg' = [reg EXCEPT ![r] = "live"]
  /\ next' = [next EXCEPT ![r] = sent[CommandOf[r]] + 1]
  /\ UNCHANGED <<pc, todo, current, stopVars, queue, sent>>

\* MessageSubscription::receive; every protocol ends on an error, which drops
\* its subscription without unsubscribing.
Receive(r) ==
  /\ reg[r] = "live" /\ queue[r] # <<>>
  /\ IF Head(queue[r]) = Err
       THEN /\ reg' = [reg EXCEPT ![r] = "garbage"]
            /\ queue' = [queue EXCEPT ![r] = <<>>]
            /\ UNCHANGED next
       ELSE /\ queue' = [queue EXCEPT ![r] = Tail(@)]
            /\ next' = [next EXCEPT ![r] = Head(queue[r]) + 1]
            /\ UNCHANGED reg
  /\ UNCHANGED <<pc, todo, current, stopVars, sent>>

\* The task that owns the subscription is cancelled or returns.
DropReader(r) ==
  /\ reg[r] = "live"
  /\ reg' = [reg EXCEPT ![r] = "garbage"]
  /\ queue' = [queue EXCEPT ![r] = <<>>]
  /\ UNCHANGED <<pc, todo, current, stopVars, next, sent>>

Unsubscribe(r) ==
  /\ reg[r] = "live"
  /\ reg' = [reg EXCEPT ![r] = "gone"]
  /\ queue' = [queue EXCEPT ![r] = <<>>]
  /\ UNCHANGED <<pc, todo, current, stopVars, next, sent>>

----------------------------------------------------------------------------
(* Stop subscriptions.                                                     *)

\* `let _ = channel.subscribe_stop()` would drop the receiver at once.
SubscribeStopDropped(w) ==
  /\ watch[w] = "none"
  /\ watch' = [watch EXCEPT ![w] = "dropped"]
  /\ UNCHANGED <<pc, todo, current, stopped, stops, stopReq, readerVars>>

\* subscribe_stop does not look at the stopped status.
SubscribeStop(w) ==
  /\ watch[w] = "none"
  /\ watch' = [watch EXCEPT ![w] = "live"]
  /\ UNCHANGED <<pc, todo, current, stopped, stops, stopReq, readerVars>>

\* The watcher gets the event and returns, dropping its receiver.
ReceiveStop(w) ==
  /\ watch[w] = "signalled"
  /\ watch' = [watch EXCEPT ![w] = "dropped"]
  /\ UNCHANGED <<pc, todo, current, stopped, stops, stopReq, readerVars>>

\* A watcher leaves early (a timed out handshake).
DropWatcher(w) ==
  /\ watch[w] = "live"
  /\ watch' = [watch EXCEPT ![w] = "left"]
  /\ UNCHANGED <<pc, todo, current, stopped, stops, stopReq, readerVars>>

\* Neither kind of departure unsubscribes.
Deserted == {w \in Watchers : watch[w] \in {"dropped", "left"}}
Listening == {w \in Watchers : watch[w] \in {"live", "signalled"}}
Signal(W) == watch' = [w \in Watchers |-> IF w \in W THEN "signalled" ELSE watch[w]]

----------------------------------------------------------------------------
(* Channel::stop, run by a task t.                                         *)

\* assert_eq!(stopped, false); stopped.store(false): the flag stays down.
EnterStop(t) ==
  /\ ~stopped
  /\ stops < MaxStops
  /\ stops' = stops + 1
  /\ stopped' = FALSE
  /\ Goto(t, "stop")
  /\ UNCHANGED <<todo, current, stopReq, watch, readerVars>>

\* stop_subscriber.notify, then receive_task.stop, without a suspension.
NotifyStop(t) ==
  /\ pc[t] = "stop"
  /\ Deserted = {}
  /\ Signal(Listening)
  /\ stopReq' = TRUE
  /\ Goto(t, "locking")
  /\ UNCHANGED <<todo, current, stopped, stops, readerVars>>

\* A dropped receiver makes notify panic: some watchers are not told, and
\* neither the receive task nor the readers are.
NotifyPanics(t) ==
  /\ pc[t] = "stop"
  /\ Deserted # {}
  /\ \E W \in SUBSET Listening : Signal(W)
  /\ Goto(t, "panicked")
  /\ UNCHANGED <<todo, current, stopped, stops, stopReq, readerVars>>

\* message_subsystem.trigger_error: take the table lock, visit the
\* dispatchers in any order, each with an await on its own lock.
BeginTrigger(t) ==
  /\ pc[t] \in {"locking", "handle"} /\ ~TableLocked
  /\ todo' = [todo EXCEPT ![t] = Commands]
  /\ Goto(t, IF pc[t] = "locking" THEN "trigger" ELSE "handling")
  /\ UNCHANGED <<current, stopVars, readerVars>>

TriggerError(t) ==
  /\ pc[t] \in {"trigger", "handling"}
  /\ \E c \in todo[t] :
       /\ TriggerAll(c, Err)
       /\ todo' = [todo EXCEPT ![t] = @ \ {c}]
  /\ UNCHANGED <<pc, current, stopVars, next, sent>>

\* channel.start installs handle_stop, which triggers an error again.
NoHandler == "done"
StopHandler == "handle"

\* A caller goes on; the receive loop returns and its handler runs.
EndTrigger(t) ==
  /\ pc[t] \in {"trigger", "handling"} /\ todo[t] = {}
  /\ Goto(t, IF pc[t] = "handling" THEN "done" ELSE IF t = "rx" THEN StopHandler ELSE "idle")
  /\ UNCHANGED <<todo, current, stopVars, readerVars>>

----------------------------------------------------------------------------
(* The receive task.                                                       *)

Start ==
  /\ pc["rx"] = "idle"
  /\ Goto("rx", "read")
  /\ UNCHANGED <<todo, current, stopVars, readerVars>>

\* read_packet returns a packet of a known command, and its dispatcher is
\* looked up.  A packet that has no dispatcher or does not decode is dropped.
ReadPacket(c) ==
  /\ pc["rx"] = "read" /\ ~TableLocked
  /\ sent[c] < MaxMessages
  /\ current' = c
  /\ Goto("rx", "deliver")
  /\ UNCHANGED <<todo, stopVars, readerVars>>

DeliverPacket ==
  /\ pc["rx"] = "deliver"
  /\ sent' = [sent EXCEPT ![current] = @ + 1]
  /\ TriggerAll(current, sent[current] + 1)
  /\ Goto("rx", "read")
  /\ UNCHANGED <<todo, current, stopVars, next>>

\* End of file or a read error: the loop stops its own channel.
ReadFails == pc["rx"] = "read" /\ EnterStop("rx")

\* StoppableTask: the select takes the stop signal and drops the loop
\* wherever it is suspended, then the stop handler runs.
NeverInterrupted == FALSE
Interrupt ==
  /\ stopReq
  /\ pc["rx"] \in {"read", "deliver", "stop", "locking", "trigger"}
  /\ Goto("rx", StopHandler)
  /\ todo' = [todo EXCEPT !["rx"] = {}]
  /\ UNCHANGED <<current, stopVars, readerVars>>

----------------------------------------------------------------------------
(* The callers.                                                            *)

\* Channel::send: a failed write stops the channel.  (A send that succeeds
\* changes nothing here.)
SendFails(t) == pc[t] = "idle" /\ Started /\ ~stopped /\ EnterStop(t)

\* A protocol stops the channel itself (ping, seed).
CallStop(t) == pc[t] = "idle" /\ Started /\ EnterStop(t)

\* The jobs manager cancels the task where it is suspended.
Cancel(t) ==
  /\ pc[t] \in {"idle", "stop", "locking", "trigger"} /\ Started
  /\ Goto(t, "cancelled")
  /\ todo' = [todo EXCEPT ![t] = {}]
  /\ UNCHANGED <<current, stopVars, readerVars>>

StopStep(t) ==
  NotifyStop(t) \/ NotifyPanics(t) \/ BeginTrigger(t) \/ TriggerError(t) \/ EndTrigger(t)

Next ==
  \/ Start \/ ReadFails \/ DeliverPacket \/ Interrupt
  \/ \E c \in Commands : ReadPacket(c)
  \/ \E t \in Tasks : StopStep(t)
  \/ \E t \in Callers : SendFails(t) \/ CallStop(t) \/ Cancel(t)
  \/ \E r \in Readers : Subscribe(r) \/ Receive(r) \/ DropReader(r) \/ Unsubscribe(r)
  \/ \E w \in Watchers : SubscribeStop(w) \/ ReceiveStop(w) \/ DropWatcher(w)

Spec == Init /\ [][Next]_vars

\* The executor polls every woken task; nobody owes us packets or calls.
Fairness ==
  /\ \A t \in Tasks : WF_vars(StopStep(t))
  /\ WF_vars(Interrupt) /\ WF_vars(DeliverPacket)

FairSpec == Spec /\ Fairness

----------------------------------------------------------------------------
(* What holds.                                                             *)

(* A live subscription loses, repeats and reorders nothing: the messages   *)
(* in its queue increase, and are exactly those dispatched for its command *)
(* since it subscribed and not yet received, whatever errors other tasks   *)
(* put between them and whoever else subscribes or leaves.                 *)
DeliveryOf(r) ==
  /\ \A i, j \in DOMAIN queue[r] :
       i < j /\ queue[r][i] # Err /\ queue[r][j] # Err => queue[r][i] < queue[r][j]
  /\ \A i \in DOMAIN queue[r] : queue[r][i] \in {Err} \cup (next[r] .. sent[CommandOf[r]])
  /\ \A n \in next[r] .. sent[CommandOf[r]] : \E i \in DOMAIN queue[r] : queue[r][i] = n
Delivery == \A r \in Readers : reg[r] = "live" => DeliveryOf(r)

(* notify panics only when the channel was stopped before or a watcher     *)
(* left early: the first stop of an undisturbed channel reaches everybody. *)
PanicHasCause ==
  (\E t \in Tasks : pc[t] = "panicked") => stops >= 2 \/ \E w \in Watchers : watch[w] = "left"

(* The inductive invariant behind the two.  Stops are counted against the  *)
(* tasks about to notify and the watchers that were notified already.      *)
Notified == \E w \in Watchers : watch[w] \in {"signalled", "dropped"}
StopsCounted ==
  /\ Notified => stops >= 1
  /\ \A t \in Tasks : pc[t] = "stop" =>
       /\ stops >= 1
       /\ Notified => stops >= 2
       /\ \A u \in Tasks \ {t} : pc[u] = "stop" => stops >= 2
QueuesFollow ==
  \A r \in Readers :
    /\ reg[r] = "none" => queue[r] = <<>>
    /\ reg[r] = "live" => next[r] <= sent[CommandOf[r]] + 1
IInv == TypeOK /\ Delivery /\ PanicHasCause /\ StopsCounted /\ QueuesFollow

(* Once the receive task was told to stop, everybody waiting for a message *)
(* gets an error, although the task that stopped the channel may be        *)
(* cancelled halfway through its own trigger_error and the receive loop    *)
(* dropped in the middle of a packet or of a stop of its own: the handler  *)
(* of the receive task visits every dispatcher again.  A panic in the      *)
(* receive loop is the one exception.                                      *)
ReadersReleased ==
  \A r \in Readers :
    (reg[r] = "live" /\ stopReq /\ pc["rx"] \notin {"handling", "done", "panicked"})
      ~> (reg[r] # "live" \/ Err \in {queue[r][i] : i \in DOMAIN queue[r]} \/ pc["rx"] = "panicked")

(* The receive task always ends after a stop that got as far as telling it.*)
ReceiveTaskEnds == stopReq ~> pc["rx"] \in {"done", "panicked"}

----------------------------------------------------------------------------
(* What the code says and does not do.                                     *)

(* channel.rs:75: assert_eq!(stopped, false): a channel is stopped once.   *)
StoppedOnce == stops <= 1

(* channel.rs:71: stop "Notifies all subscribers that the channel has been *)
(* closed": after notify no listening watcher is without the event.        *)
StopNotifiesAll ==
  [][\A t \in Tasks : pc[t] = "stop" /\ pc'[t] \in {"locking", "panicked"}
       => \A w \in Watchers : watch'[w] # "live"]_vars
============================================================================
