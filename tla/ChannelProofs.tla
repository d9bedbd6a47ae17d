--------------------------- MODULE ChannelProofs ---------------------------
(***************************************************************************)
(* Proofs about Channel, for any number of tasks, subscriptions, commands, *)
(* messages and stops; about JobsManager, the managers that watch a        *)
(* channel to end its jobs, any number of them; and about KeepAlive, the   *)
(* ping-pong of the two ends of a connection.                              *)
(***************************************************************************)
EXTENDS Channel, JobsManager, KeepAlive, TLAPS

USE CommandAssumption, BoundAssumption

LEMMA InitIInv == Init => IInv
<1> SUFFICES ASSUME Init PROVE IInv
  OBVIOUS
<1>1. stopped \in BOOLEAN /\ stopReq \in BOOLEAN
  BY Zenon DEF Init
<1>2. TypeOK
  BY <1>1 DEF Init, TypeOK
<1>3. Delivery /\ QueuesFollow
  BY DEF Init, Delivery, QueuesFollow
<1>4. PanicHasCause /\ StopsCounted
  BY DEF Init, PanicHasCause, StopsCounted, Notified
<1> QED
  BY <1>2, <1>3, <1>4 DEF IInv

(* The part about stops survives as long as nobody enters stop or panics.  *)
LEMMA StopsUnchanged ==
  ASSUME StopsCounted, PanicHasCause, UNCHANGED <<stops, watch>>,
         \A t \in Tasks : pc'[t] \in {"stop", "panicked"} => pc'[t] = pc[t]
  PROVE  StopsCounted' /\ PanicHasCause'
BY DEF StopsCounted, PanicHasCause, Notified

(* The types.  Handing a packet or an error out keeps queues sequences.    *)
LEMMA TriggerAllType ==
  ASSUME TypeOK, NEW c \in Commands, NEW item \in Nat \cup {Err}, TriggerAll(c, item)
  PROVE  /\ queue' \in [Readers -> Seq(Nat \cup {Err})]
         /\ reg' \in [Readers -> {"none", "live", "garbage", "gone"}]
<1>1. \A r \in Readers : Append(queue[r], item) \in Seq(Nat \cup {Err})
  BY DEF TypeOK
<1>2. \A r \in Readers : queue'[r] \in Seq(Nat \cup {Err})
  BY <1>1 DEF TypeOK, TriggerAll
<1> QED
  BY <1>2 DEF TypeOK, TriggerAll

LEMMA EnterStopType == TypeOK /\ (\E t \in Tasks : EnterStop(t)) => TypeOK'
<1> SUFFICES ASSUME TypeOK, NEW t \in Tasks, EnterStop(t) PROVE TypeOK'
  OBVIOUS
<1>1. stopped' \in BOOLEAN
  BY Zenon DEF EnterStop
<1>2. /\ stops' \in Nat
      /\ pc' \in [Tasks -> {"idle", "read", "deliver", "stop", "locking", "trigger", "handle",
                            "handling", "done", "cancelled", "panicked"}]
      /\ UNCHANGED <<todo, current, stopReq, watch, reg, queue, next, sent>>
  BY DEF EnterStop, TypeOK, Goto, readerVars
<1> QED
  BY <1>1, <1>2 DEF TypeOK

LEMMA EmptyQueue == <<>> \in Seq(Nat \cup {Err})
OBVIOUS

LEMMA NextTypeOK == TypeOK /\ [Next]_vars => TypeOK'
<1> SUFFICES ASSUME TypeOK, [Next]_vars PROVE TypeOK'
  OBVIOUS
<1> USE DEF TypeOK, Goto, Tasks, stopVars, readerVars, StopHandler
<1>1. CASE Start \/ ReadFails \/ Interrupt \/ \E c \in Commands : ReadPacket(c)
  <2>1. CASE Start
    BY <2>1 DEF Start
  <2>2. CASE ReadFails
    BY <2>2, EnterStopType DEF ReadFails
  <2>3. CASE Interrupt
    BY <2>3 DEF Interrupt
  <2>4. CASE \E c \in Commands : ReadPacket(c)
    BY <2>4 DEF ReadPacket
  <2> QED
    BY <1>1, <2>1, <2>2, <2>3, <2>4
<1>2. CASE DeliverPacket
  <2>1. sent' \in [Commands -> Nat] /\ next' = next
    BY <1>2 DEF DeliverPacket
  <2>2. /\ queue' \in [Readers -> Seq(Nat \cup {Err})]
        /\ reg' \in [Readers -> {"none", "live", "garbage", "gone"}]
    <3>1. current \in Commands /\ sent[current] + 1 \in Nat
      OBVIOUS
    <3>2. TriggerAll(current, sent[current] + 1)
      BY <1>2 DEF DeliverPacket
    <3> QED
      BY <3>1, <3>2, TriggerAllType
  <2> QED
    BY <1>2, <2>1, <2>2 DEF DeliverPacket
<1>3. ASSUME NEW t \in Tasks, StopStep(t) PROVE TypeOK'
  <2>1. CASE NotifyStop(t)
    BY <2>1 DEF NotifyStop, Signal
  <2>2. CASE NotifyPanics(t)
    BY <2>2 DEF NotifyPanics, Signal
  <2>3. CASE BeginTrigger(t) \/ EndTrigger(t)
    BY <2>3 DEF BeginTrigger, EndTrigger
  <2>4. CASE TriggerError(t)
    BY <2>4, TriggerAllType DEF TriggerError
  <2> QED
    BY <1>3, <2>1, <2>2, <2>3, <2>4 DEF StopStep
<1>4. ASSUME NEW t \in Callers, SendFails(t) \/ CallStop(t) \/ Cancel(t) PROVE TypeOK'
  <2>1. CASE SendFails(t) \/ CallStop(t)
    BY <2>1, EnterStopType DEF SendFails, CallStop
  <2>2. CASE Cancel(t)
    BY <2>2 DEF Cancel
  <2> QED
    BY <1>4, <2>1, <2>2
<1>5. ASSUME NEW r \in Readers, Subscribe(r) \/ DropReader(r) \/ Unsubscribe(r) PROVE TypeOK'
  <2>1. CASE Subscribe(r)
    <3>1. sent[CommandOf[r]] + 1 \in Nat
      OBVIOUS
    <3> QED
      BY <2>1, <3>1 DEF Subscribe
  <2>2. CASE DropReader(r) \/ Unsubscribe(r)
    BY <2>2, EmptyQueue DEF DropReader, Unsubscribe
  <2> QED
    BY <1>5, <2>1, <2>2
<1>6. ASSUME NEW r \in Readers, Receive(r) PROVE TypeOK'
  <2>1. queue[r] \in Seq(Nat \cup {Err}) /\ queue[r] # <<>>
    BY <1>6 DEF Receive
  <2>2. Head(queue[r]) \in Nat \cup {Err} /\ Tail(queue[r]) \in Seq(Nat \cup {Err})
    BY <2>1
  <2>3. CASE Head(queue[r]) = Err
    BY <1>6, <2>3, EmptyQueue DEF Receive
  <2>4. CASE Head(queue[r]) # Err
    <3>1. Head(queue[r]) + 1 \in Nat
      BY <2>2, <2>4
    <3> QED
      BY <1>6, <2>2, <2>4, <3>1 DEF Receive
  <2> QED
    BY <2>3, <2>4
<1>7. ASSUME NEW w \in Watchers, SubscribeStop(w) \/ ReceiveStop(w) \/ DropWatcher(w) PROVE TypeOK'
  BY <1>7 DEF SubscribeStop, ReceiveStop, DropWatcher
<1>8. CASE UNCHANGED vars
  BY <1>8 DEF vars
<1> QED
  BY <1>1, <1>2, <1>3, <1>4, <1>5, <1>6, <1>7, <1>8 DEF Next

----------------------------------------------------------------------------
(* Delivery.  An item appended to a queue is an error, or the message that *)
(* follows all those dispatched before.                                    *)

LEMMA AppendError ==
  ASSUME TypeOK, NEW r \in Readers, DeliveryOf(r), UNCHANGED <<next, sent>>,
         queue'[r] = Append(queue[r], Err)
  PROVE  DeliveryOf(r)'
<1>1. queue[r] \in Seq(Nat \cup {Err}) /\ next[r] \in Nat /\ sent[CommandOf[r]] \in Nat
  BY DEF TypeOK
<1>2. /\ Len(queue'[r]) = Len(queue[r]) + 1
      /\ \A i \in DOMAIN queue'[r] :
           queue'[r][i] = IF i \in DOMAIN queue[r] THEN queue[r][i] ELSE Err
      /\ DOMAIN queue[r] \subseteq DOMAIN queue'[r]
  BY <1>1
<1> QED
  BY <1>1, <1>2 DEF DeliveryOf

LEMMA AppendMessage ==
  ASSUME TypeOK, NEW r \in Readers, DeliveryOf(r), next' = next,
         next[r] <= sent[CommandOf[r]] + 1,
         sent'[CommandOf[r]] = sent[CommandOf[r]] + 1,
         queue'[r] = Append(queue[r], sent[CommandOf[r]] + 1)
  PROVE  DeliveryOf(r)'
<1> DEFINE n == sent[CommandOf[r]]
<1>1. queue[r] \in Seq(Nat \cup {Err}) /\ next[r] \in Nat /\ n \in Nat
  BY DEF TypeOK
<1> DEFINE l == Len(queue[r])
<1>2. /\ l \in Nat /\ DOMAIN queue[r] = 1..l /\ DOMAIN queue'[r] = 1..(l + 1)
      /\ queue'[r][l + 1] = n + 1
      /\ \A i \in 1..l : queue'[r][i] = queue[r][i]
  BY <1>1
<1>3. ASSUME NEW i \in 1..l, queue[r][i] # Err
      PROVE  queue[r][i] \in Nat /\ queue[r][i] <= n
  <2>1. queue[r][i] \in next[r] .. n
    BY <1>2, <1>3 DEF DeliveryOf
  <2> QED
    BY <1>1, <2>1
<1>4. \A i, j \in DOMAIN queue'[r] :
        i < j /\ queue'[r][i] # Err /\ queue'[r][j] # Err => queue'[r][i] < queue'[r][j]
  BY <1>1, <1>2, <1>3 DEF DeliveryOf
<1>5. \A i \in DOMAIN queue'[r] : queue'[r][i] \in {Err} \cup (next[r] .. n + 1)
  BY <1>1, <1>2 DEF DeliveryOf
<1>6. ASSUME NEW m \in next[r] .. n + 1
      PROVE  \E i \in DOMAIN queue'[r] : queue'[r][i] = m
  <2>1. CASE m = n + 1
    BY <1>2, <2>1
  <2>2. CASE m # n + 1
    <3>1. m \in next[r] .. n
      BY <1>1, <2>2
    <3>2. PICK i \in 1..l : queue[r][i] = m
      BY <1>2, <3>1 DEF DeliveryOf
    <3> QED
      BY <1>2, <3>2
  <2> QED
    BY <2>1, <2>2
<1> QED
  BY <1>4, <1>5, <1>6 DEF DeliveryOf

(* Receiving the head leaves the rest of a correct queue.                  *)
LEMMA ReceiveHead ==
  ASSUME TypeOK, NEW r \in Readers, DeliveryOf(r), queue[r] # <<>>, Head(queue[r]) # Err,
         next'[r] = Head(queue[r]) + 1, sent' = sent, queue'[r] = Tail(queue[r])
  PROVE  DeliveryOf(r)' /\ next'[r] <= sent[CommandOf[r]] + 1
<1> DEFINE n == sent[CommandOf[r]]  h == Head(queue[r])  l == Len(queue[r])
<1>1. queue[r] \in Seq(Nat \cup {Err}) /\ next[r] \in Nat /\ n \in Nat
  BY DEF TypeOK
<1>2. /\ l \in Nat \ {0} /\ DOMAIN queue[r] = 1..l /\ DOMAIN queue'[r] = 1..(l - 1)
      /\ h = queue[r][1]
      /\ \A i \in 1..(l - 1) : queue'[r][i] = queue[r][i + 1]
  BY <1>1
<1>3. h \in Nat /\ next[r] <= h /\ h <= n
  BY <1>1, <1>2 DEF DeliveryOf
<1>4. \A i, j \in DOMAIN queue'[r] :
        i < j /\ queue'[r][i] # Err /\ queue'[r][j] # Err => queue'[r][i] < queue'[r][j]
  <2> SUFFICES ASSUME NEW i \in 1..(l - 1), NEW j \in 1..(l - 1), i < j,
                      queue[r][i + 1] # Err, queue[r][j + 1] # Err
               PROVE  queue[r][i + 1] < queue[r][j + 1]
    BY <1>2
  <2>1. i + 1 \in DOMAIN queue[r] /\ j + 1 \in DOMAIN queue[r] /\ i + 1 < j + 1
    BY <1>2
  <2> QED
    BY <2>1 DEF DeliveryOf
<1>5. \A i \in DOMAIN queue'[r] : queue'[r][i] \in {Err} \cup (h + 1 .. n)
  <2> SUFFICES ASSUME NEW i \in 1..(l - 1), queue[r][i + 1] # Err
               PROVE  queue[r][i + 1] \in h + 1 .. n
    BY <1>2
  <2>1. 1 \in DOMAIN queue[r] /\ i + 1 \in DOMAIN queue[r] /\ 1 < i + 1
    BY <1>2
  <2>2. queue[r][i + 1] \in next[r] .. n
    BY <2>1 DEF DeliveryOf
  <2>3. h < queue[r][i + 1]
    BY <1>2, <2>1 DEF DeliveryOf
  <2> QED
    BY <1>1, <1>3, <2>2, <2>3
<1>6. ASSUME NEW m \in h + 1 .. n
      PROVE  \E i \in DOMAIN queue'[r] : queue'[r][i] = m
  <2>1. m \in next[r] .. n
    BY <1>1, <1>3
  <2>2. PICK j \in 1..l : queue[r][j] = m
    BY <1>2, <2>1 DEF DeliveryOf
  <2>3. j # 1 /\ j - 1 \in 1..(l - 1)
    BY <1>1, <1>2, <1>3, <2>2
  <2>4. (j - 1) + 1 = j
    OBVIOUS
  <2>5. queue'[r][j - 1] = m
    BY <1>2, <2>2, <2>3, <2>4
  <2> QED
    BY <1>2, <2>3, <2>5
<1> QED
  BY <1>3, <1>4, <1>5, <1>6, <1>1 DEF DeliveryOf

LEMMA NextDelivery ==
  TypeOK /\ Delivery /\ QueuesFollow /\ [Next]_vars => Delivery' /\ QueuesFollow'
<1> SUFFICES ASSUME TypeOK, Delivery, QueuesFollow, [Next]_vars
             PROVE  Delivery' /\ QueuesFollow'
  OBVIOUS
<1> DEFINE Good(r) == /\ reg[r] = "live" => DeliveryOf(r) /\ next[r] <= sent[CommandOf[r]] + 1
                      /\ reg[r] = "none" => queue[r] = <<>>
<1>1. ASSUME NEW r \in Readers PROVE Good(r)
  BY DEF Delivery, QueuesFollow
<1>2. SUFFICES ASSUME NEW r \in Readers PROVE Good(r)'
  BY DEF Delivery, QueuesFollow
<1>3. ASSUME UNCHANGED <<reg[r], queue[r], next[r], sent>> PROVE Good(r)'
  BY <1>1, <1>3 DEF DeliveryOf
<1>4. CASE DeliverPacket
  <2>1. CASE CommandOf[r] = current /\ reg[r] = "live"
    <3>1. /\ queue'[r] = Append(queue[r], sent[CommandOf[r]] + 1)
          /\ sent'[CommandOf[r]] = sent[CommandOf[r]] + 1
          /\ next' = next /\ reg'[r] = "live"
      BY <1>4, <2>1 DEF DeliverPacket, TriggerAll, Registered, TypeOK
    <3>2. DeliveryOf(r)'
      BY <1>1, <2>1, <3>1, AppendMessage
    <3>3. next'[r] <= sent'[CommandOf[r]] + 1
      BY <1>1, <2>1, <3>1 DEF TypeOK
    <3> QED
      BY <3>1, <3>2, <3>3
  <2>2. CASE ~(CommandOf[r] = current /\ reg[r] = "live")
    BY <1>1, <1>4, <2>2 DEF DeliverPacket, TriggerAll, Registered, TypeOK, DeliveryOf
  <2> QED
    BY <2>1, <2>2
<1>5. ASSUME NEW t \in Tasks, TriggerError(t) PROVE Good(r)'
  <2>1. PICK c \in Commands : TriggerAll(c, Err)
    BY <1>5 DEF TriggerError, TypeOK
  <2>2. UNCHANGED <<next, sent>>
    BY <1>5 DEF TriggerError
  <2>3. CASE CommandOf[r] = c /\ reg[r] = "live"
    <3>1. queue'[r] = Append(queue[r], Err) /\ reg'[r] = "live"
      BY <2>1, <2>3 DEF TriggerAll, Registered
    <3> QED
      BY <1>1, <2>2, <2>3, <3>1, AppendError
  <2>4. CASE ~(CommandOf[r] = c /\ reg[r] = "live")
    BY <1>1, <2>1, <2>2, <2>4 DEF TriggerAll, Registered, DeliveryOf
  <2> QED
    BY <2>3, <2>4
<1>6. ASSUME NEW q \in Readers, Subscribe(q) PROVE Good(r)'
  <2>1. CASE q = r
    <3>1. queue'[r] = <<>> /\ next'[r] = sent[CommandOf[r]] + 1 /\ sent' = sent /\ reg'[r] = "live"
      BY <1>1, <1>6, <2>1 DEF Subscribe, TypeOK
    <3>2. sent[CommandOf[r]] \in Nat
      BY DEF TypeOK
    <3> QED
      BY <3>1, <3>2 DEF DeliveryOf
  <2>2. CASE q # r
    BY <1>3, <1>6, <2>2 DEF Subscribe
  <2> QED
    BY <2>1, <2>2
<1>7. ASSUME NEW q \in Readers, Receive(q) PROVE Good(r)'
  <2>1. CASE q = r /\ Head(queue[r]) # Err
    <3>1. /\ queue[r] # <<>> /\ queue'[r] = Tail(queue[r]) /\ sent' = sent
          /\ next'[r] = Head(queue[r]) + 1 /\ reg[r] = "live" /\ reg' = reg
      BY <1>7, <2>1 DEF Receive, TypeOK
    <3> QED
      BY <1>1, <2>1, <3>1, ReceiveHead
  <2>2. CASE q = r /\ Head(queue[r]) = Err
    BY <1>7, <2>2 DEF Receive, TypeOK
  <2>3. CASE q # r
    BY <1>3, <1>7, <2>3 DEF Receive, TypeOK
  <2> QED
    BY <2>1, <2>2, <2>3
<1>8. ASSUME NEW q \in Readers, DropReader(q) \/ Unsubscribe(q) PROVE Good(r)'
  <2>1. CASE q = r
    BY <1>8, <2>1 DEF DropReader, Unsubscribe, TypeOK
  <2>2. CASE q # r
    BY <1>3, <1>8, <2>2 DEF DropReader, Unsubscribe, TypeOK
  <2> QED
    BY <2>1, <2>2
<1>9. CASE UNCHANGED readerVars
  BY <1>3, <1>9 DEF readerVars
<1>10. CASE \/ Start \/ ReadFails \/ Interrupt \/ \E c \in Commands : ReadPacket(c)
            \/ \E t \in Tasks : NotifyStop(t) \/ NotifyPanics(t) \/ BeginTrigger(t) \/ EndTrigger(t)
            \/ \E t \in Callers : SendFails(t) \/ CallStop(t) \/ Cancel(t)
            \/ \E w \in Watchers : SubscribeStop(w) \/ ReceiveStop(w) \/ DropWatcher(w)
            \/ UNCHANGED vars
  <2>1. UNCHANGED readerVars
    BY <1>10 DEF Start, ReadFails, Interrupt, ReadPacket, NotifyStop, NotifyPanics, BeginTrigger,
                 EndTrigger, SendFails, CallStop, Cancel, EnterStop, SubscribeStop, ReceiveStop,
                 DropWatcher, vars, readerVars
  <2> QED
    BY <1>9, <2>1
<1> QED
  BY <1>4, <1>5, <1>6, <1>7, <1>8, <1>10 DEF Next, StopStep

----------------------------------------------------------------------------
(* Stops.  Whoever is about to notify has been counted; a second one, or a *)
(* watcher notified earlier, makes two.                                    *)

LEMMA EnterStopCounts ==
  ASSUME TypeOK, StopsCounted, PanicHasCause, NEW t \in Tasks, EnterStop(t)
  PROVE  StopsCounted' /\ PanicHasCause'
<1>1. stops \in Nat /\ stops' = stops + 1 /\ watch' = watch
  BY DEF TypeOK, EnterStop
<1>2. \A u \in Tasks : pc'[u] = IF u = t THEN "stop" ELSE pc[u]
  BY DEF TypeOK, EnterStop, Goto
<1> QED
  BY <1>1, <1>2 DEF StopsCounted, PanicHasCause, Notified

LEMMA NextStops ==
  TypeOK /\ StopsCounted /\ PanicHasCause /\ [Next]_vars => StopsCounted' /\ PanicHasCause'
<1> SUFFICES ASSUME TypeOK, StopsCounted, PanicHasCause, [Next]_vars
             PROVE  StopsCounted' /\ PanicHasCause'
  OBVIOUS
<1>1. ASSUME NEW t \in Tasks, EnterStop(t) PROVE StopsCounted' /\ PanicHasCause'
  BY <1>1, EnterStopCounts
<1>2. ASSUME NEW t \in Tasks, NotifyStop(t) \/ NotifyPanics(t)
      PROVE  StopsCounted' /\ PanicHasCause'
  <2>1. /\ pc[t] = "stop" /\ stops' = stops /\ stops \in Nat
        /\ \A u \in Tasks : pc'[u] # pc[u] => u = t /\ pc'[u] \in {"locking", "panicked"}
        /\ pc'[t] = "panicked" => Deserted # {}
        /\ pc'[t] # "stop"
    BY <1>2 DEF NotifyStop, NotifyPanics, Goto, TypeOK
  <2>2. \A w \in Watchers : watch[w] = "left" => watch'[w] = "left"
    <3>1. PICK W \in SUBSET Listening : Signal(W)
      BY <1>2 DEF NotifyStop, NotifyPanics
    <3> QED
      BY <3>1 DEF Signal, Listening
  <2>3. stops >= 1 /\ (Notified => stops >= 2)
    BY <2>1 DEF StopsCounted
  <2>4. StopsCounted'
    BY <2>1, <2>3 DEF StopsCounted
  <2>5. pc'[t] = "panicked" => stops >= 2 \/ \E w \in Watchers : watch[w] = "left"
    BY <2>1, <2>3 DEF Deserted, Notified
  <2> QED
    BY <2>1, <2>2, <2>4, <2>5 DEF PanicHasCause
<1>3. ASSUME NEW w \in Watchers, SubscribeStop(w) \/ ReceiveStop(w) \/ DropWatcher(w)
      PROVE  StopsCounted' /\ PanicHasCause'
  BY <1>3 DEF SubscribeStop, ReceiveStop, DropWatcher, TypeOK, StopsCounted, PanicHasCause, Notified
<1>4. ASSUME UNCHANGED <<stops, watch>>,
             UNCHANGED pc \/ \E t \in Tasks : \E l \in {"idle", "read", "deliver", "trigger",
               "handle", "handling", "done", "cancelled"} : Goto(t, l)
      PROVE  StopsCounted' /\ PanicHasCause'
  BY <1>4, StopsUnchanged DEF Goto, TypeOK
<1>5. CASE \/ Start \/ DeliverPacket \/ Interrupt \/ \E c \in Commands : ReadPacket(c)
           \/ \E t \in Tasks : BeginTrigger(t) \/ EndTrigger(t)
           \/ \E t \in Callers : Cancel(t)
  BY <1>4, <1>5 DEF Start, DeliverPacket, Interrupt, ReadPacket, BeginTrigger, EndTrigger, Cancel,
                    stopVars, Tasks, StopHandler
<1>6. CASE \/ \E t \in Tasks : TriggerError(t)
           \/ \E r \in Readers : Subscribe(r) \/ Receive(r) \/ DropReader(r) \/ Unsubscribe(r)
           \/ UNCHANGED vars
  BY <1>4, <1>6 DEF TriggerError, Subscribe, Receive, DropReader, Unsubscribe, stopVars, vars
<1>7. CASE ReadFails \/ \E t \in Callers : SendFails(t) \/ CallStop(t)
  BY <1>1, <1>7 DEF ReadFails, SendFails, CallStop, Tasks
<1> QED
  BY <1>2, <1>3, <1>5, <1>6, <1>7 DEF Next, StopStep

----------------------------------------------------------------------------

(* The inductive invariant of a channel.                                   *)
THEOREM InductiveInvariant == Spec => []IInv
<1>1. IInv /\ [Next]_vars => IInv'
  BY NextTypeOK, NextDelivery, NextStops DEF IInv
<1> QED
  BY <1>1, InitIInv, PTL DEF Spec

(* Subscriptions of the message subsystem lose, repeat and reorder nothing *)
(* (MessageDispatcher::trigger_all, MessageSubscription::receive).         *)
THEOREM DeliverySafety == Spec => []Delivery
<1>1. IInv => Delivery
  BY DEF IInv
<1> QED
  BY <1>1, InductiveInvariant, PTL

(* A message is received in the order of dispatch and right after its      *)
(* predecessor: the head of a queue is an error or the next message.       *)
THEOREM HeadIsNext ==
  ASSUME IInv, NEW r \in Readers, reg[r] = "live", queue[r] # <<>>, Head(queue[r]) # Err
  PROVE  Head(queue[r]) = next[r]
<1> DEFINE n == sent[CommandOf[r]]
<1>1. queue[r] \in Seq(Nat \cup {Err}) /\ next[r] \in Nat /\ n \in Nat
  BY DEF IInv, TypeOK
<1>2. DeliveryOf(r)
  BY DEF IInv, Delivery
<1>3. 1 \in DOMAIN queue[r] /\ Head(queue[r]) = queue[r][1]
  BY <1>1
<1>4. queue[r][1] \in next[r] .. n
  BY <1>2, <1>3 DEF DeliveryOf
<1>5. next[r] \in next[r] .. n
  BY <1>1, <1>4
<1>6. PICK i \in DOMAIN queue[r] : queue[r][i] = next[r]
  BY <1>2, <1>5 DEF DeliveryOf
<1>7. i \in Nat /\ (i = 1 \/ 1 < i)
  BY <1>1, <1>6
<1>8. 1 < i => queue[r][1] < next[r]
  BY <1>1, <1>2, <1>3, <1>6 DEF DeliveryOf
<1> QED
  BY <1>1, <1>3, <1>4, <1>6, <1>7, <1>8

(* notify panics only after an earlier stop or an early departure          *)
(* (Subscriber::notify, Channel::stop).                                    *)
THEOREM PanicSafety == Spec => []PanicHasCause
<1>1. IInv => PanicHasCause
  BY DEF IInv
<1> QED
  BY <1>1, InductiveInvariant, PTL

----------------------------------------------------------------------------
(* The managers of the protocols on a channel.                             *)

LEMMA JobsProperties ==
  /\ \A m \in Managers : JobsOf[m] \subseteq Jobs
  /\ \A m, n \in Managers : m # n => JobsOf[m] \cap JobsOf[n] = {}
<1>1. \A m \in Managers : JobsOf[m] \subseteq Jobs
  BY DEF Jobs
<1>2. \A m, n \in Managers : m # n => JobsOf[m] \cap JobsOf[n] = {}
  BY JobsAssumption
<1> QED BY <1>1, <1>2

LEMMA InitJobsInv == JobsInit => JobsInv
<1> SUFFICES ASSUME JobsInit PROVE JobsInv
  OBVIOUS
<1>1. JobsTypeOK
  BY DEF JobsInit, JobsTypeOK
<1>2. Accounted /\ CancelledWithCause
  BY JobsProperties DEF JobsInit, Accounted, CancelledWithCause, Live
<1>3. \A m \in Managers : manager[m] = "idle" /\ tasks[m] = {} /\ taken[m] = {}
  BY DEF JobsInit
<1>4. told = {}
  BY DEF JobsInit
<1> QED BY <1>1, <1>2, <1>3, <1>4 DEF JobsInv

LEMMA NotifyTold ==
  ASSUME JobsTypeOK, Notify
  PROVE  told' \subseteq Managers /\ told \subseteq told'
BY DEF Notify, Watching, JobsTypeOK

(* The steps of the channel and of the jobs.                               *)
LEMMA ChannelAndJobs ==
  ASSUME JobsInv, StopChannel \/ TriggerErrors \/ ErrorsLost \/ LinkBreaks \/ \E j \in Jobs : JobStep(j)
  PROVE  JobsInv'
<1> USE JobsProperties DEF JobsInv, JobsTypeOK, Live, Over
<1>1. CASE StopChannel
  BY <1>1, NotifyTold DEF StopChannel, Accounted, CancelledWithCause
<1>2. CASE TriggerErrors
  BY <1>2 DEF TriggerErrors, Subscribed, Accounted, CancelledWithCause
<1>3. CASE LinkBreaks
  BY <1>3 DEF LinkBreaks, Accounted, CancelledWithCause
<1>4. ASSUME NEW j \in Jobs, SubscribeMessage(j) PROVE JobsInv'
  BY <1>4 DEF SubscribeMessage, Accounted, CancelledWithCause
<1>5. ASSUME NEW j \in Jobs, GetMessage(j) PROVE JobsInv'
  BY <1>5 DEF GetMessage, Accounted, CancelledWithCause
<1>6. ASSUME NEW j \in Jobs, GetError(j) PROVE JobsInv'
  BY <1>6 DEF GetError, Accounted, CancelledWithCause
<1>7. ASSUME NEW j \in Jobs, Work(j) PROVE JobsInv'
  BY <1>7 DEF Work, Accounted, CancelledWithCause
<1>8. ASSUME NEW j \in Jobs, JobSendFails(j) PROVE JobsInv'
  <2>1. told' \subseteq Managers /\ told \subseteq told' /\ chan' \in {"notified", "closed", "mute"}
    BY <1>8, NotifyTold DEF JobSendFails
  <2> QED BY <1>8, <2>1 DEF JobSendFails, Accounted, CancelledWithCause
<1>9. CASE ErrorsLost
  BY <1>9 DEF ErrorsLost, Subscribed, Accounted, CancelledWithCause
<1> QED BY <1>1, <1>2, <1>3, <1>4, <1>5, <1>6, <1>7, <1>8, <1>9 DEF JobStep

(* The steps of the managers.                                              *)
LEMMA ManagerSteps ==
  ASSUME JobsInv, NEW m \in Managers, ManagerStep(m)
  PROVE  JobsInv'
<1> USE JobsProperties DEF JobsInv, JobsTypeOK, Live, Over
<1>1. CASE StartManager(m)
  BY <1>1 DEF StartManager, Accounted, CancelledWithCause
<1>2. CASE ManagerSubscribes(m)
  BY <1>2 DEF ManagerSubscribes, Accounted, CancelledWithCause
<1>3. CASE TakeTasks(m)
  BY <1>3 DEF TakeTasks, Accounted, CancelledWithCause
<1>4. CASE ManagerDone(m)
  BY <1>4 DEF ManagerDone, Accounted, CancelledWithCause
<1>5. ASSUME NEW j \in JobsOf[m], Spawn(m, j) PROVE JobsInv'
  BY <1>5 DEF Spawn, Accounted, CancelledWithCause
<1>6. ASSUME NEW j \in JobsOf[m], CancelTask(m, j) PROVE JobsInv'
  <2>1. chan # "open"
    BY <1>6 DEF CancelTask
  <2> QED BY <1>6, <2>1 DEF CancelTask, Accounted, CancelledWithCause
<1> QED BY <1>1, <1>2, <1>3, <1>4, <1>5, <1>6 DEF ManagerStep

(* The inductive invariant: no job is forgotten, and events, lists and     *)
(* cancellations agree with the state of the channel.                      *)
THEOREM JobsInductive == JobsSpec => []JobsInv
<1>1. JobsInv /\ [JobsNext]_jobsVars => JobsInv'
  <2> SUFFICES ASSUME JobsInv, [JobsNext]_jobsVars PROVE JobsInv'
    OBVIOUS
  <2>1. CASE JobsNext
    BY <2>1, ChannelAndJobs, ManagerSteps DEF JobsNext
  <2>2. CASE UNCHANGED jobsVars
    BY <2>2 DEF jobsVars, JobsInv, JobsTypeOK, Accounted, CancelledWithCause
  <2> QED BY <2>1, <2>2
<1> QED BY <1>1, InitJobsInv, PTL DEF JobsSpec

(* What becomes of a job that was in the list of a watching manager: it    *)
(* is taken with the list, cancelled, and does not run again.              *)
InHand(m, j) ==
  \/ manager[m] = "subscribed" /\ j \in tasks[m]
  \/ manager[m] = "cancelling" /\ (j \in taken[m] \/ job[j] \in Over)
  \/ manager[m] = "done" /\ job[j] \in Over

LEMMA InHandStays ==
  ASSUME JobsInv, [JobsNext]_jobsVars, NEW m \in Managers, NEW j \in JobsOf[m], InHand(m, j)
  PROVE  InHand(m, j)'
<1> USE JobsProperties DEF JobsInv, JobsTypeOK, InHand, Over
<1>j. j \in Jobs
  OBVIOUS
<1>1. CASE StopChannel \/ TriggerErrors \/ ErrorsLost \/ LinkBreaks \/ UNCHANGED jobsVars
  BY <1>1 DEF StopChannel, TriggerErrors, ErrorsLost, LinkBreaks, jobsVars
<1>2. ASSUME NEW i \in Jobs, JobStep(i) PROVE InHand(m, j)'
  <2>1. manager' = manager /\ tasks' = tasks /\ taken' = taken
    BY <1>2 DEF JobStep, SubscribeMessage, GetMessage, GetError, Work, JobSendFails
  <2>2. job[j] \in Over => job'[j] \in Over
    BY <1>2, <1>j DEF JobStep, SubscribeMessage, GetMessage, GetError, Work, JobSendFails
  <2> QED BY <2>1, <2>2
<1>3. ASSUME NEW n \in Managers, StartManager(n) \/ ManagerSubscribes(n) \/ ManagerDone(n)
      PROVE  InHand(m, j)'
  BY <1>3 DEF StartManager, ManagerSubscribes, ManagerDone
<1>4. ASSUME NEW n \in Managers, TakeTasks(n) PROVE InHand(m, j)'
  BY <1>4 DEF TakeTasks
<1>5. ASSUME NEW n \in Managers, NEW i \in JobsOf[n], Spawn(n, i) PROVE InHand(m, j)'
  <2>1. manager' = manager /\ taken' = taken
    BY <1>5 DEF Spawn
  <2>2. j \in tasks[m] => j \in tasks'[m]
    BY <1>5 DEF Spawn
  <2>3. job[j] \in Over => job'[j] \in Over
    BY <1>5, <1>j DEF Spawn
  <2> QED BY <2>1, <2>2, <2>3
<1>6. ASSUME NEW n \in Managers, NEW i \in JobsOf[n], CancelTask(n, i) PROVE InHand(m, j)'
  <2>1. manager' = manager /\ tasks' = tasks
    BY <1>6 DEF CancelTask
  <2>2. job[j] \in Over => job'[j] \in Over
    BY <1>6, <1>j DEF CancelTask
  <2>3. j \in taken[m] => j \in taken'[m] \/ job'[j] \in Over
    <3>1. CASE n = m /\ i = j
      BY <1>6, <1>j, <3>1 DEF CancelTask
    <3>2. CASE ~(n = m /\ i = j)
      BY <1>6, <3>2 DEF CancelTask
    <3> QED BY <3>1, <3>2
  <2> QED BY <2>1, <2>2, <2>3
<1> QED BY <1>1, <1>2, <1>3, <1>4, <1>5, <1>6 DEF JobsNext, ManagerStep

(* handle_stop and close_all_tasks keep the promise "all tasks are stopped"*)
(* for the tasks the manager had when it watched: once it has finished     *)
(* they are over and stay so, however the stop is raced by spawns, by jobs *)
(* that end or fail, and by further stops.                                 *)
THEOREM ListedJobsStop == JobsSpec => ListedJobsAreStopped
<1> SUFFICES ASSUME NEW m \in Managers, NEW j \in JobsOf[m]
             PROVE  JobsSpec => [](manager[m] = "subscribed" /\ j \in tasks[m]
                                     => [](manager[m] = "done" => job[j] \in Over))
  BY DEF ListedJobsAreStopped
<1>1. manager[m] = "subscribed" /\ j \in tasks[m] => InHand(m, j)
  BY DEF InHand
<1>2. InHand(m, j) => (manager[m] = "done" => job[j] \in Over)
  BY DEF InHand
<1>3. JobsInv /\ [JobsNext]_jobsVars /\ InHand(m, j) => InHand(m, j)'
  BY InHandStays
<1> QED BY <1>1, <1>2, <1>3, JobsInductive, PTL DEF JobsSpec
----------------------------------------------------------------------------
(* The ping-pong of KeepAlive.  A pinger whose peer runs this code never   *)
(* sees a wrong nonce, for any set of nonces and any number of stray pongs *)
(* in the other direction.  The invariant follows the only packet of a     *)
(* pinger through the five places it can be in; every action moves it to   *)
(* the next, loses it, or leaves it where it is.                           *)

LEMMA PeerProperties ==
  /\ \A x \in Ends : Peer(x) \in Ends /\ Peer(Peer(x)) = x /\ Peer(x) # x
  /\ \A x, y \in Ends : y = x \/ y = Peer(x)
BY DEF Peer, Ends

LEMMA EmptyWire ==
  /\ <<>> \in Seq(Packets) /\ <<>> \in Seq(Nonces)
  /\ \A k : ~Has(<<>>, k)
  /\ \A k, n : One(<<>>, k, n)
<1>1. DOMAIN <<>> = {}
  OBVIOUS
<1>2. <<>> \in Seq(Packets) /\ <<>> \in Seq(Nonces)
  OBVIOUS
<1> QED BY <1>1, <1>2 DEF Has, One

LEMMA NothingThere ==
  ASSUME NEW w, NEW k, NEW n, ~Has(w, k)
  PROVE  One(w, k, n)
BY DEF Has, One

(* A packet more on a wire.                                                *)
LEMMA WireAppend ==
  ASSUME NEW w \in Seq(Packets), NEW p \in Packets
  PROVE  /\ Append(w, p) \in Seq(Packets)
         /\ \A k : Has(Append(w, p), k) <=> (Has(w, k) \/ p.kind = k)
         /\ \A k, n : One(w, k, n) /\ p.kind # k => One(Append(w, p), k, n)
         /\ ~Has(w, p.kind) => One(Append(w, p), p.kind, p.nonce)
<1>1. Append(w, p) \in Seq(Packets) /\ Len(Append(w, p)) = Len(w) + 1 /\ Len(w) \in Nat
  OBVIOUS
<1>2. DOMAIN Append(w, p) = 1..(Len(w) + 1) /\ DOMAIN w = 1..Len(w)
  BY <1>1
<1>3. /\ \A i \in 1..Len(w) : Append(w, p)[i] = w[i]
      /\ Append(w, p)[Len(w) + 1] = p
  OBVIOUS
<1>4. DOMAIN Append(w, p) = DOMAIN w \cup {Len(w) + 1} /\ Len(w) + 1 \notin DOMAIN w
  BY <1>1, <1>2
<1>5. \A k : Has(Append(w, p), k) <=> (Has(w, k) \/ p.kind = k)
  BY <1>2, <1>3, <1>4 DEF Has
<1>6. \A k, n : One(w, k, n) /\ p.kind # k => One(Append(w, p), k, n)
  BY <1>2, <1>3, <1>4 DEF One
<1>7. ~Has(w, p.kind) => One(Append(w, p), p.kind, p.nonce)
  BY <1>2, <1>3, <1>4 DEF One, Has
<1> QED BY <1>1, <1>5, <1>6, <1>7

(* A packet less.                                                          *)
LEMMA WireTail ==
  ASSUME NEW w \in Seq(Packets), w # <<>>
  PROVE  /\ Tail(w) \in Seq(Packets) /\ Head(w) \in Packets
         /\ Has(w, Head(w).kind)
         /\ \A k : Has(Tail(w), k) => Has(w, k)
         /\ \A k, n : One(w, k, n) => One(Tail(w), k, n)
         /\ \A k, n : One(w, k, n) /\ Head(w).kind = k
                        => Head(w).nonce = n /\ ~Has(Tail(w), k)
<1>1. Len(w) \in Nat /\ Len(w) > 0 /\ DOMAIN w = 1..Len(w) /\ Head(w) = w[1]
  OBVIOUS
<1>2. Tail(w) \in Seq(Packets) /\ Len(Tail(w)) = Len(w) - 1 /\ Head(w) \in Packets
  BY <1>1
<1>3. DOMAIN Tail(w) = 1..(Len(w) - 1)
  BY <1>1, <1>2
<1>4. \A i \in 1..(Len(w) - 1) : Tail(w)[i] = w[i + 1] /\ i + 1 \in 1..Len(w) /\ i + 1 # 1 /\ i \in Nat
  BY <1>1
<1>5. \A i \in DOMAIN Tail(w) : i + 1 \in DOMAIN w /\ Tail(w)[i] = w[i + 1] /\ i + 1 # 1
  BY <1>1, <1>3, <1>4
<1>6. 1 \in DOMAIN w /\ \A i, j \in DOMAIN Tail(w) : i + 1 = j + 1 => i = j
  BY <1>1, <1>3, <1>4
<1>7. \A k : Has(Tail(w), k) => Has(w, k)
  BY <1>5 DEF Has
<1>8. \A k, n : One(w, k, n) => One(Tail(w), k, n)
  BY <1>5, <1>6 DEF One
<1>9. \A k, n : One(w, k, n) /\ Head(w).kind = k => Head(w).nonce = n /\ ~Has(Tail(w), k)
  BY <1>1, <1>5, <1>6 DEF One, Has
<1>10. Has(w, Head(w).kind)
  BY <1>1, <1>6 DEF Has
<1> QED BY <1>2, <1>7, <1>8, <1>9, <1>10

LEMMA QueueFacts ==
  ASSUME NEW n, NEW q \in Seq(Nonces)
  PROVE  /\ q # <<>> => Head(q) \in Nonces /\ Tail(q) \in Seq(Nonces)
         /\ Append(<<>>, n) = <<n>> /\ Head(<<n>>) = n /\ Tail(<<n>>) = <<>> /\ <<n>> # <<>>
         /\ \A m \in Nonces : Append(q, m) \in Seq(Nonces)
OBVIOUS

LEMMA InitPingInv == PingInit => PingInv
<1> SUFFICES ASSUME PingInit PROVE PingInv
  OBVIOUS
<1> USE PeerProperties, EmptyWire DEF PingInit
<1>1. PingTypeOK
  BY DEF PingTypeOK
<1>2. ASSUME NEW x \in Ends PROVE Conversation(x)
  BY DEF Conversation, Quiet, PingSent, PingQueued, PongOwed, PongSent, PongQueued, Kinds
<1> QED BY <1>1, <1>2 DEF PingInv

----------------------------------------------------------------------------
(* The conversation of a pinger x with a peer that runs this code, after   *)
(* every kind of step.                                                     *)

(* A step of neither task of this conversation that at most loses what is  *)
(* on its way.                                                             *)
Fades(x) ==
  /\ Has(wire[x], "pong")' => Has(wire[x], "pong")
  /\ Has(wire[Peer(x)], "ping")' => Has(wire[Peer(x)], "ping")
  /\ \A n : One(wire[x], "pong", n) => One(wire'[x], "pong", n)
  /\ \A n : One(wire[Peer(x)], "ping", n) => One(wire'[Peer(x)], "ping", n)
  /\ inbox'[x]["pong"] = inbox[x]["pong"]
  /\ inbox'[Peer(x)]["ping"] = inbox[Peer(x)]["ping"]
  /\ pinger'[x] = "wait" => pinger[x] = "wait" /\ nonce'[x] = nonce[x]
  /\ pinger'[x] \in {"new", "sleep"} => pinger[x] \in {"new", "sleep"}
  /\ replier'[Peer(x)] = "reply" => replier[Peer(x)] = "reply" /\ owed'[Peer(x)] = owed[Peer(x)]

LEMMA FadesPreserves ==
  ASSUME NEW x \in Ends, Conversation(x), Fades(x)
  PROVE  Conversation(x)'
BY DEF Conversation, Fades, Quiet, OnePlace, RightNonce,
       PingSent, PingQueued, PongOwed, PongSent, PongQueued

LEMMA Unwired ==
  ASSUME NEW x \in Ends, wire' = wire, inbox' = inbox,
         pinger'[x] = "wait" => pinger[x] = "wait" /\ nonce'[x] = nonce[x],
         pinger'[x] \in {"new", "sleep"} => pinger[x] \in {"new", "sleep"},
         replier'[Peer(x)] = "reply" => replier[Peer(x)] = "reply" /\ owed'[Peer(x)] = owed[Peer(x)]
  PROVE  Fades(x)
BY DEF Fades

(* The tasks that subscribe, end, or send nothing.                         *)
LEMMA QuietSteps ==
  ASSUME PingInv, NEW x \in Ends, NEW z \in Ends,
         \/ TcpBreaks \/ SubscribePong(z) \/ SubscribePing(z)
         \/ PingerEnds(z) \/ ReplierEnds(z)
  PROVE  Fades(x)
<1> USE PeerProperties, Unwired DEF PingInv, PingTypeOK
<1>1. CASE TcpBreaks
  BY <1>1 DEF TcpBreaks
<1>2. CASE SubscribePong(z)
  BY <1>2 DEF SubscribePong
<1>3. CASE SubscribePing(z)
  BY <1>3 DEF SubscribePing
<1>4. CASE PingerEnds(z)
  BY <1>4 DEF PingerEnds
<1>5. CASE ReplierEnds(z)
  BY <1>5 DEF ReplierEnds
<1> QED BY <1>1, <1>2, <1>3, <1>4, <1>5

(* What a sent packet does to the two wires.                               *)
LEMMA SentWires ==
  ASSUME PingInv, NEW z \in Ends, NEW p \in Packets, Sent(z, p)
  PROVE  /\ wire' \in [Ends -> Seq(Packets)] /\ halted' = halted
         /\ wire'[z] = wire[z]
         /\ \A k : Has(wire'[Peer(z)], k) <=> (Has(wire[Peer(z)], k) \/ p.kind = k)
         /\ \A k, n : One(wire[Peer(z)], k, n) /\ p.kind # k => One(wire'[Peer(z)], k, n)
         /\ ~Has(wire[Peer(z)], p.kind) => One(wire'[Peer(z)], p.kind, p.nonce)
<1> USE DEF PingInv, PingTypeOK
<1>1. Peer(z) \in Ends /\ wire[Peer(z)] \in Seq(Packets) /\ Peer(z) # z
  BY PeerProperties
<1>2. wire' = [wire EXCEPT ![Peer(z)] = Append(wire[Peer(z)], p)] /\ halted' = halted
  BY DEF Sent
<1>3. wire'[z] = wire[z] /\ wire'[Peer(z)] = Append(wire[Peer(z)], p)
  BY <1>1, <1>2
<1>4. wire' \in [Ends -> Seq(Packets)]
  BY <1>1, <1>2, WireAppend
<1> QED BY <1>1, <1>2, <1>3, <1>4, WireAppend

LEMMA FirstOfItsKind ==
  ASSUME PingInv, NEW z \in Ends, NEW p \in Packets, Sent(z, p), NEW k, NEW n,
         p.kind = k, p.nonce = n
  PROVE  /\ wire'[z] = wire[z]
         /\ Has(wire'[Peer(z)], k)
         /\ ~Has(wire[Peer(z)], k) => One(wire'[Peer(z)], k, n)
<1>1. /\ wire'[z] = wire[z]
      /\ Has(wire'[Peer(z)], k) <=> (Has(wire[Peer(z)], k) \/ p.kind = k)
      /\ ~Has(wire[Peer(z)], p.kind) => One(wire'[Peer(z)], p.kind, p.nonce)
  BY SentWires
<1> QED BY <1>1

(* A packet the other end of the conversation is not concerned with.       *)
LEMMA ForeignPacket ==
  ASSUME PingInv, NEW x \in Ends, NEW z \in Ends, NEW p \in Packets, Sent(z, p),
         \/ z = x /\ p.kind = "pong"
         \/ z = Peer(x) /\ p.kind = "ping",
         inbox' = inbox,
         pinger'[x] = "wait" => pinger[x] = "wait" /\ nonce'[x] = nonce[x],
         pinger'[x] \in {"new", "sleep"} => pinger[x] \in {"new", "sleep"},
         replier'[Peer(x)] = "reply" => replier[Peer(x)] = "reply" /\ owed'[Peer(x)] = owed[Peer(x)]
  PROVE  Fades(x)
<1>1. /\ wire'[z] = wire[z]
      /\ \A k : Has(wire'[Peer(z)], k) <=> (Has(wire[Peer(z)], k) \/ p.kind = k)
      /\ \A k, n : One(wire[Peer(z)], k, n) /\ p.kind # k => One(wire'[Peer(z)], k, n)
  BY SentWires
<1> QED BY <1>1, PeerProperties DEF Fades

LEMMA StraySteps ==
  ASSUME PingInv, NEW x \in Ends, Peer(x) \in ours, NEW z \in Ends, StrayPong(z)
  PROVE  Fades(x)
<1>1. z = x
  BY PeerProperties DEF StrayPong
<1>2. PICK n \in Nonces : Sent(z, Packet("pong", n))
  BY DEF StrayPong
<1>3. Packet("pong", n) \in Packets /\ Packet("pong", n).kind = "pong"
  BY DEF Packet, Packets, Kinds
<1>4. inbox' = inbox /\ pinger' = pinger /\ replier' = replier /\ nonce' = nonce /\ owed' = owed
  BY DEF StrayPong
<1> QED BY <1>1, <1>2, <1>3, <1>4, ForeignPacket

(* A ping starts a conversation.                                           *)
LEMMA SendPingSteps ==
  ASSUME PingInv, NEW x \in Ends, Conversation(x), NEW z \in Ends, SendPing(z)
  PROVE  Conversation(x)'
<1> USE PeerProperties DEF PingInv, PingTypeOK
<1>0. inbox' = inbox /\ replier' = replier /\ owed' = owed /\ pinger[z] = "sleep"
  BY DEF SendPing
<1>1. CASE NotSent(z) /\ pinger' = [pinger EXCEPT ![z] = "ended"] /\ UNCHANGED nonce
  <2>1. Fades(x)
    BY <1>0, <1>1, Unwired DEF NotSent
  <2> QED BY <2>1, FadesPreserves
<1>2. ASSUME NEW n \in Nonces, Sent(z, Packet("ping", n)),
             nonce' = [nonce EXCEPT ![z] = n], pinger' = [pinger EXCEPT ![z] = "wait"]
      PROVE  Conversation(x)'
  <2>1. Packet("ping", n) \in Packets /\ Packet("ping", n).kind = "ping" /\ Packet("ping", n).nonce = n
    BY DEF Packet, Packets, Kinds
  <2>2. CASE z = Peer(x)
    <3>1. Fades(x)
      BY <1>0, <1>2, <2>1, <2>2, ForeignPacket
    <3> QED BY <3>1, FadesPreserves
  <2>3. CASE z = x
    <3>1. Quiet(x) /\ pinger'[x] = "wait" /\ nonce'[x] = n
      BY <1>0, <1>2, <2>3 DEF Conversation
    <3>2. /\ wire'[x] = wire[x]
          /\ Has(wire'[Peer(x)], "ping")
          /\ ~Has(wire[Peer(x)], "ping") => One(wire'[Peer(x)], "ping", n)
      <4>1. ASSUME NEW p \in Packets, Sent(x, p), p.kind = "ping", p.nonce = n
            PROVE  /\ wire'[x] = wire[x]
                   /\ Has(wire'[Peer(x)], "ping")
                   /\ ~Has(wire[Peer(x)], "ping") => One(wire'[Peer(x)], "ping", n)
        <5> HIDE DEF PingInv, PingTypeOK
        <5> QED BY <4>1, FirstOfItsKind
      <4> QED BY <1>2, <2>1, <2>3, <4>1
    <3>3. One(wire'[Peer(x)], "ping", n) /\ ~Has(wire'[x], "pong")
      BY <3>1, <3>2 DEF Quiet, PingSent, PongSent
    <3>4. One(wire'[x], "pong", n)
      BY <3>3, NothingThere
    <3>5. OnePlace(x)'
      BY <1>0, <3>1, <3>3
      DEF Quiet, OnePlace, PingSent, PingQueued, PongOwed, PongSent, PongQueued
    <3>6. RightNonce(x)'
      BY <1>0, <3>1, <3>3, <3>4 DEF Quiet, RightNonce, PingQueued, PongOwed, PongQueued
    <3> QED BY <3>1, <3>5, <3>6 DEF Conversation
  <2> QED BY <2>2, <2>3
<1> QED BY <1>1, <1>2 DEF SendPing

(* The pong carries the nonce of the ping.                                 *)
LEMMA SendPongSteps ==
  ASSUME PingInv, NEW x \in Ends, Conversation(x), NEW z \in Ends, SendPong(z)
  PROVE  Conversation(x)'
<1> USE PeerProperties DEF PingInv, PingTypeOK
<1>0. inbox' = inbox /\ pinger' = pinger /\ nonce' = nonce /\ replier[z] = "reply"
  BY DEF SendPong
<1>1. CASE NotSent(z) /\ replier' = [replier EXCEPT ![z] = "ended"]
  <2>1. owed' = [owed EXCEPT ![z] = None] /\ wire' = wire
    BY <1>1 DEF SendPong, NotSent
  <2>2. Fades(x)
    BY <1>0, <1>1, <2>1, Unwired
  <2> QED BY <2>2, FadesPreserves
<1>2. CASE Sent(z, Packet("pong", owed[z])) /\ replier' = [replier EXCEPT ![z] = "wait"]
  <2>0. owed' = [owed EXCEPT ![z] = None]
    BY DEF SendPong
  <2>1. /\ Packet("pong", owed[z]) \in Packets
        /\ Packet("pong", owed[z]).kind = "pong" /\ Packet("pong", owed[z]).nonce = owed[z]
    BY <1>0 DEF Packet, Packets, Kinds
  <2>2. CASE z = x
    <3>1. Fades(x)
      BY <1>0, <1>2, <2>0, <2>1, <2>2, ForeignPacket
    <3> QED BY <3>1, FadesPreserves
  <2>3. CASE z = Peer(x)
    <3>1. PongOwed(x) /\ ~PongOwed(x)'
      BY <1>0, <1>2, <2>3 DEF PongOwed
    <3>2. pinger[x] \notin {"new", "sleep"}
      BY <3>1 DEF Conversation, Quiet
    <3>3. ASSUME pinger[x] = "wait"
          PROVE  OnePlace(x)' /\ RightNonce(x)'
      <4>1. /\ ~PingSent(x) /\ ~PingQueued(x) /\ ~PongSent(x) /\ ~PongQueued(x)
            /\ owed[z] = nonce[x]
        BY <2>3, <3>1, <3>3 DEF Conversation, OnePlace, RightNonce
      <4>2. ASSUME NEW p \in Packets, Sent(z, p), p.kind = "pong", p.nonce = nonce[x]
            PROVE  /\ wire'[Peer(x)] = wire[Peer(x)]
                   /\ Has(wire'[x], "pong")
                   /\ ~Has(wire[x], "pong") => One(wire'[x], "pong", nonce[x])
        <5> HIDE DEF PingInv, PingTypeOK
        <5> QED BY <2>3, <4>2, FirstOfItsKind
      <4>3. /\ wire'[Peer(x)] = wire[Peer(x)]
            /\ Has(wire'[x], "pong")
            /\ ~Has(wire[x], "pong") => One(wire'[x], "pong", nonce[x])
        BY <1>2, <2>1, <4>1, <4>2
      <4>4. /\ ~PingSent(x)' /\ ~PingQueued(x)' /\ ~PongQueued(x)'
            /\ One(wire'[x], "pong", nonce'[x])
        BY <1>0, <4>1, <4>3 DEF PingSent, PingQueued, PongQueued, PongSent
      <4>5. One(wire'[Peer(x)], "ping", nonce'[x])
        BY <4>4, NothingThere DEF PingSent
      <4>6. OnePlace(x)'
        BY <3>1, <4>4 DEF OnePlace
      <4>7. RightNonce(x)'
        BY <3>1, <4>4, <4>5 DEF RightNonce
      <4> QED BY <4>6, <4>7
    <3> QED BY <1>0, <3>2, <3>3 DEF Conversation
  <2> QED BY <2>2, <2>3
<1> QED BY <1>1, <1>2 DEF SendPong

(* The end of a conversation.                                              *)
LEMMA ReceivePongSteps ==
  ASSUME PingInv, NEW x \in Ends, Conversation(x), NEW z \in Ends, ReceivePong(z)
  PROVE  Conversation(x)'
<1> USE PeerProperties, QueueFacts DEF PingInv, PingTypeOK
<1>0. /\ wire' = wire /\ replier' = replier /\ owed' = owed /\ pinger[z] = "wait"
      /\ inbox' = [inbox EXCEPT ![z]["pong"] = Tail(@)] /\ inbox[z]["pong"] # <<>>
      /\ nonce' = [nonce EXCEPT ![z] = None]
      /\ pinger' = [pinger EXCEPT ![z] = "sleep"] \/ pinger' = [pinger EXCEPT ![z] = "ended"]
  BY DEF ReceivePong
<1>1. CASE z = Peer(x)
  <2>1. /\ inbox'[x] = inbox[x] /\ inbox'[Peer(x)]["ping"] = inbox[Peer(x)]["ping"]
        /\ pinger'[x] = pinger[x] /\ nonce'[x] = nonce[x]
    BY <1>0, <1>1 DEF Kinds
  <2>2. Fades(x)
    BY <1>0, <2>1 DEF Fades
  <2> QED BY <2>2, FadesPreserves
<1>2. CASE z = x
  <2>1. PongQueued(x) /\ OnePlace(x) /\ RightNonce(x)
    BY <1>0, <1>2 DEF PongQueued, Conversation
  <2>2. inbox[x]["pong"] = <<nonce[x]>> /\ ~PingSent(x) /\ ~PingQueued(x) /\ ~PongOwed(x) /\ ~PongSent(x)
    BY <2>1 DEF OnePlace, RightNonce
  <2>3. inbox'[x]["pong"] = <<>> /\ inbox'[Peer(x)] = inbox[Peer(x)]
    BY <1>0, <1>2, <2>2 DEF Kinds
  <2>4. Quiet(x)'
    BY <1>0, <2>2, <2>3 DEF Quiet, PingSent, PingQueued, PongOwed, PongSent, PongQueued
  <2>5. pinger'[x] # "wait"
    BY <1>0, <1>2
  <2> QED BY <2>4, <2>5 DEF Conversation
<1> QED BY <1>1, <1>2

(* The replier takes the ping.                                             *)
LEMMA ReceivePingSteps ==
  ASSUME PingInv, NEW x \in Ends, Conversation(x), NEW z \in Ends, ReceivePing(z)
  PROVE  Conversation(x)'
<1> USE PeerProperties, QueueFacts DEF PingInv, PingTypeOK
<1>0. /\ wire' = wire /\ pinger' = pinger /\ nonce' = nonce
      /\ inbox' = [inbox EXCEPT ![z]["ping"] = Tail(@)] /\ inbox[z]["ping"] # <<>>
      /\ replier' = [replier EXCEPT ![z] = "reply"]
      /\ owed' = [owed EXCEPT ![z] = Head(inbox[z]["ping"])]
  BY DEF ReceivePing
<1>1. CASE z = x
  <2>1. /\ inbox'[Peer(x)] = inbox[Peer(x)] /\ inbox'[x]["pong"] = inbox[x]["pong"]
        /\ replier'[Peer(x)] = replier[Peer(x)] /\ owed'[Peer(x)] = owed[Peer(x)]
    BY <1>0, <1>1 DEF Kinds
  <2>2. Fades(x)
    BY <1>0, <2>1 DEF Fades
  <2> QED BY <2>2, FadesPreserves
<1>2. CASE z = Peer(x)
  <2>1. PingQueued(x)
    BY <1>0, <1>2 DEF PingQueued
  <2>2. pinger[x] \notin {"new", "sleep"}
    BY <2>1 DEF Conversation, Quiet
  <2>3. ASSUME pinger[x] = "wait"
        PROVE  OnePlace(x)' /\ RightNonce(x)'
    <3>1. /\ OnePlace(x) /\ RightNonce(x)
          /\ inbox[Peer(x)]["ping"] = <<nonce[x]>>
          /\ ~PingSent(x) /\ ~PongOwed(x) /\ ~PongSent(x) /\ ~PongQueued(x)
      BY <2>1, <2>3 DEF Conversation, OnePlace, RightNonce
    <3>2. /\ inbox'[Peer(x)]["ping"] = <<>> /\ inbox'[x] = inbox[x]
          /\ owed'[Peer(x)] = nonce[x]
      BY <1>0, <1>2, <3>1 DEF Kinds
    <3>3. /\ ~PingSent(x)' /\ ~PingQueued(x)' /\ ~PongSent(x)' /\ ~PongQueued(x)'
          /\ One(wire'[Peer(x)], "ping", nonce'[x]) /\ One(wire'[x], "pong", nonce'[x])
      BY <1>0, <3>1, <3>2 DEF PingSent, PingQueued, PongSent, PongQueued, RightNonce
    <3>4. OnePlace(x)'
      BY <3>3 DEF OnePlace
    <3>5. RightNonce(x)'
      BY <1>0, <3>2, <3>3 DEF RightNonce
    <3> QED BY <3>4, <3>5
  <2> QED BY <1>0, <2>2, <2>3 DEF Conversation
<1> QED BY <1>1, <1>2

LEMMA QueueUpdate ==
  ASSUME NEW S, NEW q \in [Ends -> [Kinds -> S]], NEW z \in Ends, NEW j \in Kinds, NEW v \in S,
         NEW r, r = [q EXCEPT ![z][j] = v]
  PROVE  /\ r \in [Ends -> [Kinds -> S]]
         /\ \A y \in Ends : y # z => r[y] = q[y]
         /\ r[z][j] = v
         /\ \A k \in Kinds : k # j => r[z][k] = q[z][k]
OBVIOUS

(* The receive loop hands a packet over, or drops it.                      *)
LEMMA DispatchWires ==
  ASSUME PingInv, NEW z \in Ends, Dispatch(z)
  PROVE  LET h == Head(wire[z]) IN
         /\ wire' \in [Ends -> Seq(Packets)] /\ inbox' \in [Ends -> [Kinds -> Seq(Nonces)]]
         /\ wire'[Peer(z)] = wire[Peer(z)] /\ inbox'[Peer(z)] = inbox[Peer(z)]
         /\ h \in Packets /\ Has(wire[z], h.kind)
         /\ \A k : Has(wire'[z], k) => Has(wire[z], k)
         /\ \A k, n : One(wire[z], k, n) => One(wire'[z], k, n)
         /\ \A k, n : One(wire[z], k, n) /\ h.kind = k => h.nonce = n /\ ~Has(wire'[z], k)
         /\ \A k \in Kinds : \/ inbox'[z][k] = inbox[z][k]
                             \/ h.kind = k /\ inbox'[z][k] = Append(inbox[z][k], h.nonce)
<1> DEFINE w == wire[z]
           h == Head(w)
<1>1. w \in Seq(Packets) /\ w # <<>> /\ Peer(z) \in Ends /\ Peer(z) # z
  BY PeerProperties DEF Dispatch, PingInv, PingTypeOK
<1>2. /\ Tail(w) \in Seq(Packets) /\ Head(w) \in Packets
      /\ Has(w, Head(w).kind)
      /\ \A k : Has(Tail(w), k) => Has(w, k)
      /\ \A k, n : One(w, k, n) => One(Tail(w), k, n)
      /\ \A k, n : One(w, k, n) /\ Head(w).kind = k => Head(w).nonce = n /\ ~Has(Tail(w), k)
  BY <1>1, WireTail
<1>3. wire' = [wire EXCEPT ![z] = Tail(w)]
  BY DEF Dispatch
<1>4. wire' \in [Ends -> Seq(Packets)] /\ wire'[z] = Tail(w) /\ wire'[Peer(z)] = wire[Peer(z)]
  BY <1>1, <1>2, <1>3 DEF PingInv, PingTypeOK
<1>5. h.kind \in Kinds /\ h.nonce \in Nonces
  BY <1>2 DEF Packets
<1>6. inbox' = inbox \/ inbox' = [inbox EXCEPT ![z][h.kind] = Append(inbox[z][h.kind], h.nonce)]
  BY DEF Dispatch
<1>7. inbox[z][h.kind] \in Seq(Nonces)
  BY <1>5 DEF PingInv, PingTypeOK
<1>8. Append(inbox[z][h.kind], h.nonce) \in Seq(Nonces)
  BY <1>5, <1>7
<1> HIDE DEF h
<1>9. /\ inbox' \in [Ends -> [Kinds -> Seq(Nonces)]]
      /\ inbox'[Peer(z)] = inbox[Peer(z)]
      /\ \A k \in Kinds : \/ inbox'[z][k] = inbox[z][k]
                          \/ h.kind = k /\ inbox'[z][k] = Append(inbox[z][k], h.nonce)
  <2>1. inbox \in [Ends -> [Kinds -> Seq(Nonces)]] /\ h.kind \in Kinds
    BY <1>5 DEF PingInv, PingTypeOK
  <2>2. CASE inbox' = inbox
    BY <2>1, <2>2
  <2>3. CASE inbox' = [inbox EXCEPT ![z][h.kind] = Append(inbox[z][h.kind], h.nonce)]
    <3>1. /\ inbox' \in [Ends -> [Kinds -> Seq(Nonces)]]
          /\ \A y \in Ends : y # z => inbox'[y] = inbox[y]
          /\ inbox'[z][h.kind] = Append(inbox[z][h.kind], h.nonce)
          /\ \A k \in Kinds : k # h.kind => inbox'[z][k] = inbox[z][k]
      BY <1>8, <2>1, <2>3, QueueUpdate
    <3> QED BY <1>1, <3>1
  <2> QED BY <1>6, <2>2, <2>3
<1> QED BY <1>2, <1>4, <1>9 DEF h

LEMMA DispatchSteps ==
  ASSUME PingInv, NEW x \in Ends, Conversation(x), NEW z \in Ends, Dispatch(z)
  PROVE  Conversation(x)'
<1> USE PeerProperties
<1> DEFINE h == Head(wire[z])
<1>0. UNCHANGED <<pinger, replier, nonce, owed>>
  BY DEF Dispatch
<1>1. /\ wire'[Peer(z)] = wire[Peer(z)] /\ inbox'[Peer(z)] = inbox[Peer(z)]
      /\ h \in Packets /\ Has(wire[z], h.kind)
      /\ \A k : Has(wire'[z], k) => Has(wire[z], k)
      /\ \A k, n : One(wire[z], k, n) => One(wire'[z], k, n)
      /\ \A k, n : One(wire[z], k, n) /\ h.kind = k => h.nonce = n /\ ~Has(wire'[z], k)
      /\ \A k \in Kinds : \/ inbox'[z][k] = inbox[z][k]
                          \/ h.kind = k /\ inbox'[z][k] = Append(inbox[z][k], h.nonce)
  BY DispatchWires
<1> HIDE DEF h
<1>k. "ping" \in Kinds /\ "pong" \in Kinds
  BY DEF Kinds
<1>2. CASE z = x
  <2>1. CASE inbox'[x]["pong"] = inbox[x]["pong"]
    <3>1. Fades(x)
      BY <1>0, <1>1, <1>2, <2>1 DEF Fades
    <3> QED BY <3>1, FadesPreserves
  <2>2. CASE h.kind = "pong" /\ inbox'[x]["pong"] = Append(inbox[x]["pong"], h.nonce)
    <3>1. PongSent(x)
      BY <1>1, <1>2, <2>2 DEF PongSent
    <3>2. pinger[x] \notin {"new", "sleep"}
      BY <3>1 DEF Conversation, Quiet
    <3>3. ASSUME pinger[x] = "wait"
          PROVE  OnePlace(x)' /\ RightNonce(x)'
      <4>1. /\ OnePlace(x) /\ RightNonce(x) /\ inbox[x]["pong"] = <<>>
            /\ ~PingSent(x) /\ ~PingQueued(x) /\ ~PongOwed(x)
        BY <3>1, <3>3 DEF Conversation, OnePlace, PongQueued
      <4>2. One(wire[x], "pong", nonce[x])
        BY <4>1 DEF RightNonce
      <4>3. h.nonce = nonce[x] /\ ~Has(wire'[x], "pong")
        BY <1>1, <1>2, <2>2, <4>2
      <4>4. inbox'[x]["pong"] = <<nonce[x]>>
        BY <2>2, <4>1, <4>3
      <4>5. One(wire'[x], "pong", nonce[x])
        BY <4>3, NothingThere
      <4>6. ~PingSent(x)' /\ ~PingQueued(x)' /\ ~PongOwed(x)' /\ ~PongSent(x)'
        BY <1>0, <1>1, <1>2, <4>1, <4>3 DEF PingSent, PingQueued, PongOwed, PongSent
      <4>7. One(wire'[Peer(x)], "ping", nonce[x])
        BY <4>6, NothingThere DEF PingSent
      <4>8. OnePlace(x)'
        BY <4>6 DEF OnePlace
      <4>9. RightNonce(x)'
        BY <1>0, <4>4, <4>5, <4>6, <4>7 DEF RightNonce
      <4> QED BY <4>8, <4>9
    <3> QED BY <1>0, <3>2, <3>3 DEF Conversation
  <2> QED BY <1>1, <1>2, <1>k, <2>1, <2>2
<1>3. CASE z = Peer(x)
  <2>0. wire'[x] = wire[x] /\ inbox'[x] = inbox[x]
    BY <1>1, <1>3
  <2>1. CASE inbox'[Peer(x)]["ping"] = inbox[Peer(x)]["ping"]
    <3>1. Fades(x)
      BY <1>0, <1>1, <1>3, <2>0, <2>1 DEF Fades
    <3> QED BY <3>1, FadesPreserves
  <2>2. CASE h.kind = "ping" /\ inbox'[Peer(x)]["ping"] = Append(inbox[Peer(x)]["ping"], h.nonce)
    <3>1. PingSent(x)
      BY <1>1, <1>3, <2>2 DEF PingSent
    <3>2. pinger[x] \notin {"new", "sleep"}
      BY <3>1 DEF Conversation, Quiet
    <3>3. ASSUME pinger[x] = "wait"
          PROVE  OnePlace(x)' /\ RightNonce(x)'
      <4>1. /\ OnePlace(x) /\ RightNonce(x) /\ inbox[Peer(x)]["ping"] = <<>>
            /\ ~PongQueued(x) /\ ~PongSent(x) /\ ~PongOwed(x)
        BY <3>1, <3>3 DEF Conversation, OnePlace, PingQueued
      <4>2. One(wire[Peer(x)], "ping", nonce[x])
        BY <4>1 DEF RightNonce
      <4>3. h.nonce = nonce[x] /\ ~Has(wire'[Peer(x)], "ping")
        BY <1>1, <1>3, <2>2, <4>2
      <4>4. inbox'[Peer(x)]["ping"] = <<nonce[x]>>
        BY <2>2, <4>1, <4>3
      <4>5. One(wire'[Peer(x)], "ping", nonce[x])
        BY <4>3, NothingThere
      <4>6. ~PingSent(x)' /\ ~PongQueued(x)' /\ ~PongOwed(x)' /\ ~PongSent(x)'
        BY <1>0, <2>0, <4>1, <4>3 DEF PingSent, PongQueued, PongOwed, PongSent
      <4>7. One(wire'[x], "pong", nonce[x])
        BY <4>6, NothingThere DEF PongSent
      <4>8. OnePlace(x)'
        BY <4>6 DEF OnePlace
      <4>9. RightNonce(x)'
        BY <1>0, <4>4, <4>5, <4>6, <4>7 DEF RightNonce
      <4> QED BY <4>8, <4>9
    <3> QED BY <1>0, <3>2, <3>3 DEF Conversation
  <2> QED BY <1>1, <1>3, <1>k, <2>1, <2>2
<1> QED BY <1>2, <1>3

(* A reader of the broken link may lose what was on the wire.              *)
LEMMA ReadBreaksSteps ==
  ASSUME PingInv, NEW x \in Ends, NEW z \in Ends, ReadBreaks(z)
  PROVE  Fades(x) /\ wire' \in [Ends -> Seq(Packets)]
<1> USE PeerProperties, EmptyWire
<1>1. wire' = [wire EXCEPT ![z] = <<>>] /\ UNCHANGED <<inbox, pinger, replier, nonce, owed>>
  BY DEF ReadBreaks
<1>2. wire' \in [Ends -> Seq(Packets)] /\ \A y \in Ends : wire'[y] = wire[y] \/ wire'[y] = <<>>
  BY <1>1 DEF PingInv, PingTypeOK
<1>3. \A y \in Ends : /\ \A k : Has(wire'[y], k) => Has(wire[y], k)
                      /\ \A k, n : One(wire[y], k, n) => One(wire'[y], k, n)
  BY <1>2
<1>4. Fades(x)
  BY <1>1, <1>3 DEF Fades
<1> QED BY <1>2, <1>4

----------------------------------------------------------------------------

LEMMA NextConversation ==
  ASSUME PingInv, PingNext, NEW x \in Ends, Peer(x) \in ours'
  PROVE  Conversation(x)'
<1>0. ours' = ours
  BY DEF PingNext, TaskStep, TcpBreaks, SubscribePong, SendPing, ReceivePong, SubscribePing,
         ReceivePing, SendPong, PingerEnds, ReplierEnds, Dispatch, ReadBreaks, StrayPong
<1>1. Peer(x) \in ours /\ Conversation(x)
  BY <1>0 DEF PingInv
<1>2. CASE TcpBreaks
  <2>1. PICK z \in Ends : TRUE
    OBVIOUS
  <2> QED BY <1>1, <1>2, QuietSteps, FadesPreserves
<1>3. ASSUME NEW z \in Ends,
             SubscribePong(z) \/ SubscribePing(z) \/ PingerEnds(z) \/ ReplierEnds(z)
      PROVE  Conversation(x)'
  BY <1>1, <1>3, QuietSteps, FadesPreserves
<1>4. ASSUME NEW z \in Ends, SendPing(z) PROVE Conversation(x)'
  BY <1>1, <1>4, SendPingSteps
<1>5. ASSUME NEW z \in Ends, ReceivePong(z) PROVE Conversation(x)'
  BY <1>1, <1>5, ReceivePongSteps
<1>6. ASSUME NEW z \in Ends, ReceivePing(z) PROVE Conversation(x)'
  BY <1>1, <1>6, ReceivePingSteps
<1>7. ASSUME NEW z \in Ends, SendPong(z) PROVE Conversation(x)'
  BY <1>1, <1>7, SendPongSteps
<1>8. ASSUME NEW z \in Ends, Dispatch(z) PROVE Conversation(x)'
  BY <1>1, <1>8, DispatchSteps
<1>9. ASSUME NEW z \in Ends, ReadBreaks(z) PROVE Conversation(x)'
  BY <1>1, <1>9, ReadBreaksSteps, FadesPreserves
<1>10. ASSUME NEW z \in Ends, StrayPong(z) PROVE Conversation(x)'
  BY <1>1, <1>10, StraySteps, FadesPreserves
<1> QED
  BY <1>2, <1>3, <1>4, <1>5, <1>6, <1>7, <1>8, <1>9, <1>10 DEF PingNext, TaskStep

LEMMA NextPingTypeOK ==
  ASSUME PingTypeOK, PingInv, PingNext
  PROVE  PingTypeOK'
<1> USE PeerProperties DEF PingTypeOK
<1>k. "ping" \in Kinds /\ "pong" \in Kinds
  BY DEF Kinds
<1>s. ASSUME NEW z \in Ends, NEW p \in Packets, Sent(z, p)
      PROVE  wire' \in [Ends -> Seq(Packets)] /\ halted' = halted
  BY <1>s, SentWires
<1>1. CASE TcpBreaks
  BY <1>1 DEF TcpBreaks
<1>2. ASSUME NEW z \in Ends, SubscribePong(z) \/ SubscribePing(z) PROVE PingTypeOK'
  <2>1. \E k \in Kinds : subs' = [subs EXCEPT ![z] = subs[z] \cup {k}]
    BY <1>2, <1>k DEF SubscribePong, SubscribePing
  <2>2. \A k \in Kinds : subs[z] \cup {k} \in SUBSET Kinds
    OBVIOUS
  <2>3. subs' \in [Ends -> SUBSET Kinds]
    BY <2>1, <2>2
  <2>4. CASE SubscribePong(z)
    BY <2>3, <2>4 DEF SubscribePong
  <2>5. CASE SubscribePing(z)
    BY <2>3, <2>5 DEF SubscribePing
  <2> QED BY <1>2, <2>4, <2>5
<1>3. ASSUME NEW z \in Ends, SendPing(z) PROVE PingTypeOK'
  <2>0. UNCHANGED <<ours, tcp, inbox, subs, replier, owed>>
    BY <1>3 DEF SendPing
  <2>1. ASSUME NEW n \in Nonces, Sent(z, Packet("ping", n)),
               nonce' = [nonce EXCEPT ![z] = n], pinger' = [pinger EXCEPT ![z] = "wait"]
        PROVE  PingTypeOK'
    <3>1. Packet("ping", n) \in Packets
      BY <1>k DEF Packet, Packets
    <3>2. wire' \in [Ends -> Seq(Packets)] /\ halted' = halted
      BY <1>s, <2>1, <3>1
    <3> QED BY <2>0, <2>1, <3>2
  <2>2. CASE NotSent(z) /\ pinger' = [pinger EXCEPT ![z] = "ended"] /\ UNCHANGED nonce
    BY <2>0, <2>2 DEF NotSent
  <2> QED BY <1>3, <2>1, <2>2 DEF SendPing
<1>4. ASSUME NEW z \in Ends, SendPong(z) PROVE PingTypeOK'
  <2>0. /\ UNCHANGED <<ours, tcp, inbox, subs, pinger, nonce>>
        /\ replier[z] = "reply" /\ owed' = [owed EXCEPT ![z] = None]
    BY <1>4 DEF SendPong
  <2>1. CASE Sent(z, Packet("pong", owed[z])) /\ replier' = [replier EXCEPT ![z] = "wait"]
    <3>1. Packet("pong", owed[z]) \in Packets
      BY <1>k, <2>0 DEF Packet, Packets
    <3>2. wire' \in [Ends -> Seq(Packets)] /\ halted' = halted
      BY <1>s, <2>1, <3>1
    <3> QED BY <2>0, <2>1, <3>2
  <2>2. CASE NotSent(z) /\ replier' = [replier EXCEPT ![z] = "ended"]
    BY <2>0, <2>2 DEF NotSent
  <2> QED BY <1>4, <2>1, <2>2 DEF SendPong
<1>5. ASSUME NEW z \in Ends, ReceivePong(z) PROVE PingTypeOK'
  <2>0. /\ UNCHANGED <<ours, tcp, wire, subs, replier, owed>>
        /\ inbox' = [inbox EXCEPT ![z]["pong"] = Tail(inbox[z]["pong"])]
        /\ nonce' = [nonce EXCEPT ![z] = None]
        /\ pinger' = [pinger EXCEPT ![z] = "sleep"] \/ pinger' = [pinger EXCEPT ![z] = "ended"]
        /\ inbox[z]["pong"] # <<>>
    BY <1>5 DEF ReceivePong
  <2>1. halted' = halted \/ halted' = [halted EXCEPT ![z] = TRUE]
    BY <1>5, Zenon DEF ReceivePong
  <2>2. halted' \in [Ends -> BOOLEAN]
    BY <2>1
  <2>3. Tail(inbox[z]["pong"]) \in Seq(Nonces)
    BY <1>k, <2>0, QueueFacts
  <2>4. inbox' \in [Ends -> [Kinds -> Seq(Nonces)]]
    BY <1>k, <2>0, <2>3, QueueUpdate
  <2> QED BY <2>0, <2>2, <2>4
<1>6. ASSUME NEW z \in Ends, ReceivePing(z) PROVE PingTypeOK'
  <2>0. /\ UNCHANGED <<ours, tcp, wire, halted, subs, pinger, nonce>>
        /\ inbox' = [inbox EXCEPT ![z]["ping"] = Tail(inbox[z]["ping"])]
        /\ owed' = [owed EXCEPT ![z] = Head(inbox[z]["ping"])]
        /\ replier' = [replier EXCEPT ![z] = "reply"]
        /\ inbox[z]["ping"] # <<>>
    BY <1>6 DEF ReceivePing
  <2>3. Tail(inbox[z]["ping"]) \in Seq(Nonces) /\ Head(inbox[z]["ping"]) \in Nonces
    BY <1>k, <2>0, QueueFacts
  <2>4. inbox' \in [Ends -> [Kinds -> Seq(Nonces)]]
    BY <1>k, <2>0, <2>3, QueueUpdate
  <2> QED BY <2>0, <2>3, <2>4
<1>7. ASSUME NEW z \in Ends, PingerEnds(z) PROVE PingTypeOK'
  BY <1>7 DEF PingerEnds
<1>8. ASSUME NEW z \in Ends, ReplierEnds(z) PROVE PingTypeOK'
  BY <1>8 DEF ReplierEnds
<1>9. ASSUME NEW z \in Ends, Dispatch(z) PROVE PingTypeOK'
  <2>1. wire' \in [Ends -> Seq(Packets)] /\ inbox' \in [Ends -> [Kinds -> Seq(Nonces)]]
    BY <1>9, DispatchWires
  <2> QED BY <1>9, <2>1 DEF Dispatch
<1>10. ASSUME NEW z \in Ends, ReadBreaks(z) PROVE PingTypeOK'
  <2>1. wire' \in [Ends -> Seq(Packets)]
    BY <1>10, ReadBreaksSteps
  <2> QED BY <1>10, <2>1 DEF ReadBreaks
<1>11. ASSUME NEW z \in Ends, StrayPong(z) PROVE PingTypeOK'
  <2>1. PICK n \in Nonces : Sent(z, Packet("pong", n))
    BY <1>11 DEF StrayPong
  <2>2. Packet("pong", n) \in Packets
    BY <1>k DEF Packet, Packets
  <2>3. wire' \in [Ends -> Seq(Packets)] /\ halted' = halted
    BY <1>s, <2>1, <2>2
  <2> QED BY <1>11, <2>3 DEF StrayPong
<1> QED
  BY <1>1, <1>2, <1>3, <1>4, <1>5, <1>6, <1>7, <1>8, <1>9, <1>10, <1>11 DEF PingNext, TaskStep

(* The inductive invariant: types, and the conversation of every pinger    *)
(* whose peer runs this code (protocol_ping.rs).                           *)
THEOREM PingInductive == PingSpec => []PingInv
<1>1. PingInit => PingInv
  BY InitPingInv
<1>2. PingInv /\ [PingNext]_pingVars => PingInv'
  <2> SUFFICES ASSUME PingInv, [PingNext]_pingVars PROVE PingInv'
    OBVIOUS
  <2>1. CASE PingNext
    <3>1. PingTypeOK'
      BY <2>1, NextPingTypeOK DEF PingInv
    <3> QED BY <2>1, <3>1, NextConversation DEF PingInv
  <2>2. CASE UNCHANGED pingVars
    BY <2>2 DEF pingVars, PingInv, PingTypeOK, Conversation, Quiet, OnePlace, RightNonce,
                PingSent, PingQueued, PongOwed, PongSent, PongQueued
  <2> QED BY <2>1, <2>2
<1> QED BY <1>1, <1>2, PTL DEF PingSpec

(* run_ping_pong compares the nonce of the pong with the one it sent and   *)
(* disconnects if they differ: an end that runs this code is never         *)
(* disconnected for that.                                                  *)
THEOREM NoFalseAlarmAlways == PingSpec => []NoFalseAlarm
<1>1. PingInv => NoFalseAlarm
  <2> SUFFICES ASSUME PingInv, NEW x \in Ends, Peer(x) \in ours, pinger[x] = "wait",
                      inbox[x]["pong"] # <<>>
               PROVE  Head(inbox[x]["pong"]) = nonce[x]
    BY DEF NoFalseAlarm
  <2>1. inbox[x]["pong"] = <<nonce[x]>>
    BY DEF PingInv, Conversation, RightNonce, PongQueued
  <2> QED BY <2>1, QueueFacts
<1> QED BY <1>1, PingInductive, PTL
=============================================================================
