---------------------------- MODULE StartupProofs ----------------------------
(***************************************************************************)
(* The start of a node and the channels it accepts, for any number of      *)
(* seeds, any answers, and any number of connections and stop requests.    *)
(* The first part is about Node and its accepted channels.  The second     *)
(* shows that the start with its seed session implements Node, so that the *)
(* first part holds of it, and that it goes on only after an answer.       *)
(***************************************************************************)
EXTENDS Startup, TLAPS

----------------------------------------------------------------------------
(* The accepted channels.                                                  *)

LEMMA EmptyQueue == <<>> \in Seq({StopError} \cup Channels)
OBVIOUS

LEMMA InitIInv == Init => IInv
BY NodeAssumption, EmptyQueue
   DEF Init, IInv, TypeOK, NoPanic, QueueInOrder, SetUpAreTaken, ErrorIsLast, ListenersAgree,
       Published, Closed, Waiting, Taken, InSetup, Subscribed, Channels, StopError

(* What a message does to the queue it is appended to.                     *)
LEMMA AppendFacts ==
  ASSUME NEW S, NEW q \in Seq(S), NEW e \in S
  PROVE  /\ Append(q, e) \in Seq(S)
         /\ Len(Append(q, e)) = Len(q) + 1
         /\ \A i \in 1..Len(q) : Append(q, e)[i] = q[i]
         /\ Append(q, e)[Len(q) + 1] = e
         /\ Append(q, e) # <<>>
OBVIOUS

LEMMA TailFacts ==
  ASSUME NEW S, NEW q \in Seq(S), q # <<>>
  PROVE  /\ Tail(q) \in Seq(S)
         /\ Len(q) \in Nat \ {0}
         /\ Len(Tail(q)) = Len(q) - 1
         /\ \A i \in 1..(Len(q) - 1) : Tail(q)[i] = q[i + 1]
         /\ Head(q) = q[1]
         /\ q[1] \in S
         /\ Tail(q) # <<>> <=> Len(q) > 1
<1>1. Len(q) \in Nat \ {0}
  OBVIOUS
<1>2. Tail(q) \in Seq(S) /\ Len(Tail(q)) = Len(q) - 1
  BY <1>1
<1>3. \A i \in 1..(Len(q) - 1) : Tail(q)[i] = q[i + 1]
  BY <1>1
<1>4. Head(q) = q[1] /\ q[1] \in S
  BY <1>1
<1>5. \A t \in Seq(S) : t = <<>> <=> Len(t) = 0
  OBVIOUS
<1>6. Tail(q) = <<>> <=> Len(Tail(q)) = 0
  BY <1>2, <1>5, Zenon
<1>7. Tail(q) # <<>> <=> Len(q) > 1
  <2> HIDE <1>5
  <2>1. Len(Tail(q)) = 0 <=> ~(Len(q) > 1)
    BY <1>1, <1>2
  <2> QED BY <1>6, <2>1, Zenon
<1> QED BY <1>1, <1>2, <1>3, <1>4, <1>7

(* The numbers behind the invariant.                                       *)
LEMMA Numbers ==
  ASSUME IInv
  PROVE  /\ Len(queue) \in Nat /\ accepted \in Nat /\ missed \in Nat
         /\ Waiting \in Nat /\ Published \in Int /\ Taken \in Int
         /\ accepted <= MaxChannels
         /\ Published <= accepted
         /\ MaxChannels \in Nat
<1>1. queue \in Seq({StopError} \cup Channels) /\ accepted \in 0..MaxChannels
      /\ missed \in 0..MaxChannels /\ MaxChannels \in Nat
  BY NodeAssumption DEF IInv, TypeOK
<1>2. Len(queue) \in Nat
  BY <1>1
<1>3. queue # <<>> => Len(queue) >= 1
  BY <1>1
<1>4. Waiting \in Nat
  BY <1>2, <1>3 DEF Waiting, Closed
<1>5. Published \in Int /\ Published <= accepted
  BY <1>1 DEF Published
<1>6. Taken \in Int
  BY <1>4, <1>5 DEF Taken
<1>7. accepted \in Nat /\ missed \in Nat /\ accepted <= MaxChannels
  BY <1>1
<1> QED BY <1>1, <1>2, <1>4, <1>5, <1>6, <1>7

LEMMA Frame ==
  ASSUME IInv, main' \in {"seeding", "inbound", "outbound", "running", "failed"},
         main' \in {"seeding", "inbound"} => main \in {"seeding", "inbound"},
         stopQueue' \in 0..MaxStops, UNCHANGED inbound
  PROVE  IInv'
BY DEF inbound, IInv, TypeOK, NoPanic, QueueInOrder, SetUpAreTaken, ErrorIsLast, ListenersAgree,
       Published, Closed, Waiting, Taken, InSetup, Subscribed

LEMMA MainSteps ==
  ASSUME IInv, \/ SeedingOk \/ SeedingFails \/ InboundNotConfigured
               \/ BindFails \/ OutboundOk \/ StopRequested
  PROVE  IInv'
<1>1. stopQueue \in 0..MaxStops /\ MaxStops \in Nat
  BY NodeAssumption DEF IInv, TypeOK
<1>2. stopQueue' \in 0..MaxStops
  BY <1>1 DEF SeedingOk, SeedingFails, InboundNotConfigured, BindFails, OutboundOk, StopRequested
<1>3. main' \in {"seeding", "inbound", "outbound", "running", "failed"} /\ UNCHANGED inbound
  BY DEF IInv, TypeOK, SeedingOk, SeedingFails, InboundNotConfigured, BindFails, OutboundOk, StopRequested
<1>4. main' \in {"seeding", "inbound"} => main \in {"seeding", "inbound"}
  BY DEF SeedingOk, SeedingFails, InboundNotConfigured, BindFails, OutboundOk, StopRequested
<1> QED BY <1>2, <1>3, <1>4, Frame

LEMMA StartInbound ==
  ASSUME IInv, InboundOk
  PROVE  IInv'
<1> USE Numbers DEF InboundOk
<1>1. acceptor = "off" /\ subLoop = "off" /\ queue = <<>> /\ accepted = 0
  BY DEF IInv, ListenersAgree
<1>2. Published' = Published /\ Waiting' = Waiting /\ Taken' = Taken /\ ~Closed'
  BY <1>1 DEF Published, Waiting, Taken, Closed
<1>3. TypeOK' /\ NoPanic'
  BY DEF IInv, TypeOK, NoPanic
<1>4. QueueInOrder' /\ SetUpAreTaken'
  BY <1>2 DEF IInv, QueueInOrder, SetUpAreTaken, InSetup
<1>5. ErrorIsLast' /\ ListenersAgree'
  BY <1>1, <1>2 DEF IInv, ErrorIsLast, ListenersAgree, Subscribed
<1> QED BY <1>3, <1>4, <1>5 DEF IInv

(* The acceptor.                                                           *)
LEMMA AcceptStep ==
  ASSUME IInv, Accept
  PROVE  IInv'
<1> USE Numbers, NodeAssumption DEF Accept
<1>1. /\ Published' = Published /\ Waiting' = Waiting /\ Taken' = Taken
      /\ Closed' <=> Closed
  <2>1. Published' = Published
    BY DEF Published
  <2> QED BY <2>1 DEF Waiting, Taken, Closed
<1>2. TypeOK' /\ NoPanic'
  BY DEF IInv, TypeOK, NoPanic
<1>3. QueueInOrder' /\ SetUpAreTaken'
  BY <1>1 DEF IInv, QueueInOrder, SetUpAreTaken, InSetup
<1>4. ~Closed /\ subLoop # "ended"
  BY DEF IInv, ErrorIsLast
<1>5. ErrorIsLast' /\ ListenersAgree'
  BY <1>1, <1>4 DEF IInv, ErrorIsLast, ListenersAgree, Subscribed
<1> QED BY <1>2, <1>3, <1>5 DEF IInv

LEMMA AcceptErrorStep ==
  ASSUME IInv, AcceptError
  PROVE  IInv'
BY Numbers DEF IInv, TypeOK, NoPanic, QueueInOrder, SetUpAreTaken, ErrorIsLast, ListenersAgree,
       Published, Closed, Waiting, Taken, InSetup, Subscribed, AcceptError

LEMMA NotifyChannelStep ==
  ASSUME IInv, NotifyChannel
  PROVE  IInv'
<1> USE Numbers DEF NotifyChannel
<1>1. subLoop # "ended" /\ ~Closed /\ Waiting = Len(queue) /\ acceptor' = "accepting"
  BY DEF IInv, ErrorIsLast, Waiting
<1>2. Published' = Published + 1
  BY <1>1 DEF Published
<1>3. subLoop \in {"off", "subscribing", "receiving"} /\ subLoop' = subLoop
  BY <1>1 DEF IInv, TypeOK
<1>4. CASE subLoop = "receiving"
  <2>1. queue' = Append(queue, accepted) /\ missed' = missed
    BY <1>4 DEF Publish, Subscribed
  <2>2. accepted \in {StopError} \cup Channels /\ queue \in Seq({StopError} \cup Channels)
    BY DEF IInv, TypeOK, StopError, Channels
  <2>3. accepted # StopError
    BY <1>4, <2>1 DEF IInv, ListenersAgree, StopError, NoPanic, Published, Taken, QueueInOrder
  <2>4. ~Closed'
    BY <2>1, <2>2, <2>3, AppendFacts DEF Closed
  <2>5. Waiting' = Waiting + 1 /\ Taken' = Taken
    BY <1>1, <1>2, <2>1, <2>2, <2>4, AppendFacts DEF Waiting, Taken
  <2>6. TypeOK' /\ NoPanic'
    BY <1>1, <2>1, <2>2, AppendFacts DEF IInv, TypeOK, NoPanic
  <2>7. QueueInOrder'
    <3>1. \A i \in 1..Waiting : queue'[i] = Taken + i
      BY <1>1, <2>1, <2>2, AppendFacts DEF IInv, QueueInOrder
    <3>2. queue'[Waiting + 1] = Taken + (Waiting + 1)
      BY <1>1, <2>1, <2>2, AppendFacts DEF Taken, Published
    <3>3. \A i \in 1..(Waiting + 1) : i \in 1..Waiting \/ i = Waiting + 1
      OBVIOUS
    <3>4. \A i \in 1..(Waiting + 1) : queue'[i] = Taken + i
      BY <3>1, <3>2, <3>3
    <3> QED BY <2>1, <2>5, <3>4 DEF IInv, QueueInOrder
  <2>8. SetUpAreTaken'
    BY <2>1, <2>5 DEF IInv, SetUpAreTaken, InSetup
  <2>9. ErrorIsLast' /\ ListenersAgree'
    BY <1>1, <1>3, <1>4, <2>4 DEF IInv, ErrorIsLast, ListenersAgree, Subscribed
  <2> QED BY <2>6, <2>7, <2>8, <2>9 DEF IInv
<1>5. CASE subLoop \in {"off", "subscribing"}
  <2>1. queue' = <<>> /\ queue = <<>> /\ missed' = accepted /\ missed = Published
    BY <1>5 DEF Publish, Subscribed, IInv, ListenersAgree
  <2>2. Waiting' = 0 /\ Waiting = 0 /\ ~Closed' /\ Taken' = Taken + 1 /\ Taken' = accepted
    BY <1>1, <1>2, <2>1 DEF Waiting, Closed, Taken, Published
  <2>3. TypeOK' /\ NoPanic'
    BY <1>1, <2>1 DEF IInv, TypeOK, NoPanic
  <2>4. QueueInOrder' /\ SetUpAreTaken'
    BY <2>1, <2>2 DEF IInv, QueueInOrder, SetUpAreTaken, InSetup, TypeOK, Channels, Taken
  <2>5. ErrorIsLast' /\ ListenersAgree'
    BY <1>1, <1>2, <1>3, <1>5, <2>1, <2>2 DEF IInv, ErrorIsLast, ListenersAgree, Subscribed, Taken
  <2> QED BY <2>3, <2>4, <2>5 DEF IInv
<1> QED BY <1>3, <1>4, <1>5

LEMMA NotifyErrorStep ==
  ASSUME IInv, NotifyError
  PROVE  IInv'
<1> USE Numbers DEF NotifyError
<1>1. subLoop # "ended" /\ ~Closed /\ Waiting = Len(queue) /\ acceptor' = "ended"
  BY DEF IInv, ErrorIsLast, Waiting
<1>2. Published' = Published
  BY <1>1 DEF Published
<1>3. subLoop \in {"off", "subscribing", "receiving"} /\ subLoop' = subLoop
  BY <1>1 DEF IInv, TypeOK
<1>4. CASE subLoop = "receiving"
  <2>1. queue' = Append(queue, StopError) /\ queue \in Seq({StopError} \cup Channels)
    BY <1>4 DEF Publish, IInv, TypeOK
  <2>2. Closed'
    BY <2>1, AppendFacts DEF Closed
  <2>3. Waiting' = Waiting /\ Taken' = Taken
    BY <1>1, <1>2, <2>1, <2>2, AppendFacts DEF Waiting, Taken
  <2>4. TypeOK' /\ NoPanic'
    BY <1>1, <2>1, AppendFacts DEF IInv, TypeOK, NoPanic
  <2>5. QueueInOrder' /\ SetUpAreTaken'
    BY <1>1, <2>1, <2>3, AppendFacts DEF IInv, QueueInOrder, SetUpAreTaken, InSetup
  <2>6. ErrorIsLast' /\ ListenersAgree'
    BY <1>1, <1>3, <1>4 DEF IInv, ErrorIsLast, ListenersAgree, Subscribed
  <2> QED BY <2>4, <2>5, <2>6 DEF IInv
<1>5. CASE subLoop \in {"off", "subscribing"}
  BY <1>1, <1>2, <1>5
     DEF IInv, TypeOK, NoPanic, QueueInOrder, SetUpAreTaken, ErrorIsLast, ListenersAgree,
         Closed, Waiting, Taken, InSetup, Subscribed, Publish
<1> QED BY <1>3, <1>4, <1>5

(* The session.                                                            *)
LEMMA SubscribeStep ==
  ASSUME IInv, Subscribe
  PROVE  IInv'
BY EmptyQueue, Numbers
   DEF IInv, TypeOK, NoPanic, QueueInOrder, SetUpAreTaken, ErrorIsLast, ListenersAgree,
       Published, Closed, Waiting, Taken, InSetup, Subscribed, Subscribe

LEMMA ReceiveChannelStep ==
  ASSUME IInv, ReceiveChannel
  PROVE  IInv'
<1> USE Numbers DEF ReceiveChannel
<1>1. queue \in Seq({StopError} \cup Channels) /\ queue # <<>> /\ queue' = Tail(queue)
  BY DEF IInv, TypeOK
<1>2. Published' = Published
  BY DEF Published
<1>3. /\ Waiting >= 1 /\ Waiting' = Waiting - 1
      /\ Closed' <=> Closed
  <2>1. Closed' <=> Closed
    BY <1>1, TailFacts DEF Closed
  <2>2. Closed => Len(queue) > 1
    BY <1>1, TailFacts DEF Closed
  <2> QED BY <1>1, <2>1, <2>2, TailFacts DEF Waiting
<1>4. Taken' = Taken + 1
  BY <1>2, <1>3 DEF Taken
<1>5. Head(queue) = Taken + 1
  BY <1>1, <1>3, TailFacts DEF IInv, QueueInOrder
<1>6. Head(queue) \in Channels
  BY <1>1, TailFacts
<1>7. TypeOK' /\ NoPanic'
  BY <1>1, <1>6, TailFacts DEF IInv, TypeOK, NoPanic
<1>8. QueueInOrder'
  <2>1. \A i \in 1..(Waiting - 1) : queue'[i] = Taken + (i + 1)
    BY <1>1, <1>3, TailFacts DEF IInv, QueueInOrder, Waiting
  <2>2. missed' = missed /\ missed <= Taken
    BY DEF IInv, QueueInOrder
  <2> HIDE DEF ReceiveChannel
  <2>3. missed' <= Taken'
    BY <1>4, <2>2
  <2>4. \A i \in 1..Waiting' : queue'[i] = Taken' + i
    BY <1>3, <1>4, <2>1
  <2> QED BY <2>3, <2>4 DEF QueueInOrder
<1>9. SetUpAreTaken'
  <2>1. \A c \in Channels : InSetup(c)' <=> InSetup(c) \/ c = Taken + 1
    BY <1>5, <1>6 DEF IInv, TypeOK, InSetup
  <2> QED BY <1>4, <2>1 DEF IInv, SetUpAreTaken, QueueInOrder, Channels
<1>10. ErrorIsLast' /\ ListenersAgree'
  BY <1>3 DEF IInv, ErrorIsLast, ListenersAgree, Subscribed
<1> QED BY <1>7, <1>8, <1>9, <1>10 DEF IInv

LEMMA ReceiveErrorStep ==
  ASSUME IInv, ReceiveError
  PROVE  IInv'
<1> USE Numbers DEF ReceiveError
<1>1. queue \in Seq({StopError} \cup Channels) /\ queue # <<>> /\ queue[1] = StopError
  BY TailFacts DEF IInv, TypeOK
<1>2. Waiting = 0
  <2>1. Taken >= 0
    BY DEF IInv, QueueInOrder
  <2> QED BY <1>1, <2>1 DEF IInv, QueueInOrder, StopError
<1>3. Closed
  BY <1>1, <1>2, TailFacts DEF Waiting
<1>4. acceptor = "ended"
  BY <1>3 DEF IInv, ErrorIsLast
<1>5. Waiting' = 0 /\ Published' = Published /\ Taken' = Taken
  BY <1>2 DEF Waiting, Closed, Published, Taken
<1>6. TypeOK' /\ NoPanic'
  BY EmptyQueue DEF IInv, TypeOK, NoPanic
<1>7. QueueInOrder' /\ SetUpAreTaken'
  BY <1>5 DEF IInv, QueueInOrder, SetUpAreTaken, InSetup
<1>8. ErrorIsLast' /\ ListenersAgree'
  BY <1>4 DEF IInv, ErrorIsLast, ListenersAgree, Subscribed
<1> QED BY <1>6, <1>7, <1>8 DEF IInv

(* The setup tasks.                                                        *)
LEMMA SetupSteps ==
  ASSUME IInv, NEW c \in Channels, RegisterOk(c) \/ RegisterFails(c) \/ Attach(c)
  PROVE  IInv'
<1> USE DEF RegisterOk, RegisterFails, Attach, SetupStep
<1>1. \A d \in Channels : InSetup(d)' <=> InSetup(d)
  BY DEF IInv, TypeOK, InSetup
<1>2. Published' = Published /\ Waiting' = Waiting /\ Taken' = Taken /\ Closed' = Closed
  BY DEF Published, Waiting, Taken, Closed
<1>3. TypeOK' /\ NoPanic'
  BY DEF IInv, TypeOK, NoPanic
<1>4. QueueInOrder' /\ SetUpAreTaken'
  BY <1>1, <1>2 DEF IInv, QueueInOrder, SetUpAreTaken
<1>5. ErrorIsLast' /\ ListenersAgree'
  BY <1>2 DEF IInv, ErrorIsLast, ListenersAgree, Subscribed
<1> QED BY <1>3, <1>4, <1>5 DEF IInv

(* The inductive invariant: the queue holds the last channels published,   *)
(* those before them are in setup, and the error of the acceptor is last.  *)
THEOREM InductiveInvariant == Spec => []IInv
<1>1. IInv /\ [Next]_vars => IInv'
  <2> SUFFICES ASSUME IInv, [Next]_vars PROVE IInv'
    OBVIOUS
  <2>1. CASE Next
    BY <2>1, MainSteps, StartInbound, AcceptStep, AcceptErrorStep, NotifyChannelStep,
       NotifyErrorStep, SubscribeStep, ReceiveChannelStep, ReceiveErrorStep, SetupSteps DEF Next, Run
  <2>2. CASE UNCHANGED vars
    <3>1. main' \in {"seeding", "inbound", "outbound", "running", "failed"}
          /\ stopQueue' \in 0..MaxStops /\ UNCHANGED inbound /\ main' = main
      BY <2>2 DEF vars, inbound, IInv, TypeOK
    <3> QED BY <3>1, Frame
  <2> QED BY <2>1, <2>2
<1> QED BY <1>1, InitIInv, PTL DEF Spec

(* An accepted channel is in one place only and the places are in order of *)
(* age: missed before set up before queued before in hand.                 *)
THEOREM OrderSafety == Spec => []EachOnceInOrder
<1>1. IInv => EachOnceInOrder
  <2> SUFFICES ASSUME IInv PROVE EachOnceInOrder
    OBVIOUS
  <2> USE Numbers
  <2>1. Queued = (Taken + 1)..Published
    <3>1. \A i \in 1..Waiting : queue[i] = Taken + i
      BY DEF IInv, QueueInOrder
    <3>2. Taken >= 0
      BY DEF IInv, QueueInOrder
    <3>3. DOMAIN queue = 1..Len(queue)
      BY DEF IInv, TypeOK
    <3>4. \A i \in DOMAIN queue : i \in 1..Waiting \/ queue[i] = StopError
      BY <3>3 DEF Closed, Waiting
    <3>5. \A i \in 1..Waiting : i \in DOMAIN queue /\ queue[i] # StopError
      BY <3>1, <3>2, <3>3 DEF Waiting, StopError
    <3>6. Queued = {Taken + i : i \in 1..Waiting}
      BY <3>1, <3>4, <3>5 DEF Queued
    <3>7. ASSUME NEW c \in (Taken + 1)..Published PROVE c \in Queued
      <4>1. Published = Taken + Waiting
        BY DEF Taken
      <4>2. c - Taken \in 1..Waiting /\ c = Taken + (c - Taken)
        BY <4>1
      <4> QED BY <3>6, <4>2
    <3> QED BY <3>6, <3>7 DEF Taken
  <2>2. ASSUME NEW c \in 1..accepted
        PROVE  c \in Channels /\ (InSetup(c) <=> missed < c /\ c <= Taken)
               /\ (c \in Queued <=> Taken < c /\ c <= Published)
               /\ (c \in InHand <=> c > Published)
               /\ missed <= Taken
    BY <2>1, <2>2 DEF IInv, TypeOK, Channels, SetUpAreTaken, InHand, Published, QueueInOrder
  <2> QED BY <2>2 DEF EachOnceInOrder
<1> QED BY <1>1, InductiveInvariant, PTL

(* Subscriber::notify of the acceptor never meets a dropped subscription.  *)
THEOREM PanicSafety == Spec => []NoPanic
<1>1. IInv => NoPanic
  BY DEF IInv
<1> QED BY <1>1, InductiveInvariant, PTL

----------------------------------------------------------------------------
(* Every step is a step of Node or leaves its variables alone.             *)

LEMMA NextImplementsNode == [StartNext]_startVars => [Next]_vars
<1> SUFFICES ASSUME [StartNext]_startVars PROVE [Next]_vars
  OBVIOUS
<1>1. CASE UNCHANGED startVars
  BY <1>1 DEF startVars
<1>2. CASE Query \/ SeedBreaks
  BY <1>2 DEF Query, SeedBreaks
<1>3. CASE QueriesEnd \/ QueriesTimeOut \/ NoSeeds
  BY <1>3 DEF QueriesEnd, QueriesTimeOut, NoSeeds, Return, Next
<1>4. CASE NodeStep
  BY <1>4 DEF NodeStep, Next
<1> QED BY <1>1, <1>2, <1>3, <1>4 DEF StartNext

(* The safety part of Node is implemented (ImplementsNode without its      *)
(* fairness, which stays with the model checker).                          *)
THEOREM StartImplementsNode == Start => Spec
<1>1. StartInit => Init
  BY DEF StartInit
<1> QED BY <1>1, NextImplementsNode, PTL DEF Start, Spec

(* So a node that really seeds sets its channels up once each and in order *)
(* (acceptor.rs run_accept_loop, inbound_session.rs channel_sub_loop).     *)
THEOREM StartOrder == Start => []EachOnceInOrder
  BY StartImplementsNode, OrderSafety, PTL

----------------------------------------------------------------------------
(* A list that is not empty got there from a query that ends well, and a   *)
(* query that ends well with addresses found some in the list or put them  *)
(* there.  An answer is in the list before its task ends.                  *)

Addresses == UNION {{list[i] : i \in DOMAIN list} : list \in Answers}
Places == {"connect", "handshake", "ask", "store", "extend", "stop", "ok", "err", "dropped"}

SeedTypes ==
  /\ hosts \in Seq(Addresses)
  /\ task \in [Seeds -> Places]
  /\ answer \in [Seeds -> Seq(Addresses)]
  /\ session \in {"waiting", "ok", "empty", "timeout"}

Brought(s) == task[s] \in {"stop", "ok"} /\ answer[s] # <<>>

SeedInv ==
  /\ SeedTypes
  /\ hosts = <<>> => \A s \in Seeds : ~Brought(s)
  /\ hosts # <<>> /\ session # "timeout" => \E s \in Seeds : Brought(s)
  /\ session \in {"ok", "empty"} => \A s \in Seeds : task[s] \in {"ok", "err"}
  /\ session = "ok" => hosts # <<>>
  /\ session = "empty" => hosts = <<>>
  /\ main = "seeding" => session = "waiting"
  /\ main \in {"inbound", "outbound", "running"} => session \in {"ok", "waiting"}

LEMMA AnswerTypes == <<>> \in Seq(Addresses) /\ Answers \subseteq Seq(Addresses)
<1>1. ASSUME NEW list \in Answers PROVE list \in Seq(Addresses)
  <2>1. list \in Seq({list[i] : i \in DOMAIN list}) /\ {list[i] : i \in DOMAIN list} \subseteq Addresses
    BY SeedsAssumption DEF Addresses
  <2> QED BY <2>1
<1> QED BY <1>1

LEMMA SeedInvInit == StartInit => SeedInv
  BY AnswerTypes DEF StartInit, Init, Seed!Init, SeedInv, SeedTypes, Places, Brought

(* Only the end of a check, an extension and the last step of a task matter*)
(* to the list; the others keep the task out of "stop" and "ok".           *)
LEMMA QueryKeepsSeedInv == ASSUME SeedInv, Query PROVE SeedInv'
<1> PICK s \in Seeds : Seed!SeedStep(s)
  BY DEF Query
<1> USE DEF SeedInv, SeedTypes, Places, Brought, Seed!Goto
<1>1. main = "seeding" /\ main' = main /\ session = "waiting"
  BY DEF Query, vars
<1>2. CASE \/ Seed!ConnectOk(s) \/ Seed!ConnectFails(s) \/ Seed!HandshakeOk(s)
           \/ Seed!HandshakeTimeout(s) \/ Seed!AskFails(s)
  BY <1>1, <1>2 DEF Seed!ConnectOk, Seed!ConnectFails, Seed!HandshakeOk, Seed!HandshakeTimeout, Seed!AskFails
<1>3. CASE Seed!ReceiveAddrs(s)
  BY <1>1, <1>3, AnswerTypes DEF Seed!ReceiveAddrs
<1>4. CASE Seed!CheckContains(s)
  <2>1. task'[s] = "stop" => hosts # <<>>
    BY <1>4 DEF Seed!CheckContains, Seed!Known, Seed!ToSet
  <2> QED BY <1>1, <1>4, <2>1 DEF Seed!CheckContains
<1>5. CASE Seed!Extend(s)
  <2>1. hosts' = hosts \o answer[s] /\ answer[s] \in Seq(Addresses) /\ hosts \in Seq(Addresses)
    BY <1>5 DEF Seed!Extend
  <2>2. hosts' \in Seq(Addresses) /\ (hosts' = <<>> <=> hosts = <<>> /\ answer[s] = <<>>)
    BY <2>1
  <2> QED BY <1>1, <1>5, <2>1, <2>2 DEF Seed!Extend
<1>6. CASE Seed!StopChannel(s)
  BY <1>1, <1>6 DEF Seed!StopChannel
<1> QED BY <1>2, <1>3, <1>4, <1>5, <1>6 DEF Seed!SeedStep

LEMMA EndKeepsSeedInv == ASSUME SeedInv, QueriesEnd \/ QueriesTimeOut \/ NoSeeds PROVE SeedInv'
<1> USE DEF SeedInv, SeedTypes, Places, Brought, SeedingOk, SeedingFails
<1>1. CASE QueriesEnd
  BY <1>1 DEF QueriesEnd, Return, Seed!AllDone
<1>2. CASE QueriesTimeOut
  BY <1>2 DEF QueriesTimeOut, Return, Seed!Timeout
<1>3. CASE NoSeeds
  BY <1>3 DEF NoSeeds, seedVars
<1> QED BY <1>1, <1>2, <1>3

(* After the seeding the node never seeds again.                           *)
LEMMA NodeKeepsSeedInv == ASSUME SeedInv, NodeStep PROVE SeedInv'
<1>1. UNCHANGED seedVars
  BY DEF NodeStep
<1>2. \/ main' = main
      \/ main \in {"inbound", "outbound"} /\ main' \in {"outbound", "running", "failed"}
  BY DEF NodeStep, Run, StopRequested, InboundNotConfigured, InboundOk, BindFails, OutboundOk, Accept,
         AcceptError, NotifyChannel, NotifyError, Subscribe, ReceiveChannel, ReceiveError, RegisterOk,
         RegisterFails, Attach, SetupStep
<1> QED BY <1>1, <1>2 DEF SeedInv, SeedTypes, Brought, seedVars

LEMMA OthersKeepSeedInv == ASSUME SeedInv, SeedBreaks \/ UNCHANGED startVars PROVE SeedInv'
<1>1. UNCHANGED <<hosts, task, answer, session, main>>
  BY DEF SeedBreaks, Seed!ChannelBreaks, startVars, seedVars, vars
<1> QED BY <1>1 DEF SeedInv, SeedTypes, Brought

(* What is in the list, what the queries brought and where main is fit     *)
(* together at every moment (hosts.rs:30-40, seed_session.rs:39-73).       *)
THEOREM SeedInvariant == Start => []SeedInv
<1>1. SeedInv /\ [StartNext]_startVars => SeedInv'
  BY QueryKeepsSeedInv, EndKeepsSeedInv, NodeKeepsSeedInv, OthersKeepSeedInv DEF StartNext
<1> QED BY <1>1, SeedInvInit, PTL DEF Start

(* For any seeds, a start fails for want of addresses only if no query that*)
(* came to its end brought one, and goes on only if one did or there are   *)
(* no seeds (seed_session.rs:66-70, p2p.rs:54).                            *)
THEOREM StartsSafety == Start => []StartsIfAnswered
<1>1. SeedInv => StartsIfAnswered
  BY DEF SeedInv, SeedTypes, Brought, StartsIfAnswered
<1> QED BY <1>1, SeedInvariant, PTL

----------------------------------------------------------------------------
(* As long as no two stores overlapped, a store that passed its check has  *)
(* addresses that neither the list nor another such store has.             *)

Shares(a, b) == Seed!ToSet(a) \cap Seed!ToSet(b) # {}
Distinct(list) == Seed!IsInjective(list)

NoOverlap ==
  /\ Distinct(hosts)
  /\ \A s \in Seeds : task[s] = "extend" => ~Shares(hosts, answer[s])
  /\ \A s, t \in Seeds : s # t /\ task[s] = "extend" /\ task[t] = "extend" => ~Shares(answer[s], answer[t])

RaceInv ==
  (\A a \in Answers : Distinct(a)) => (\A s \in Seeds : Distinct(answer[s])) /\ (raced \/ NoOverlap)

\* Appending a list that shares nothing keeps the elements distinct.
LEMMA AppendDistinct ==
  ASSUME NEW S, NEW a \in Seq(S), NEW b \in Seq(S), Distinct(a), Distinct(b), ~Shares(a, b)
  PROVE  Distinct(a \o b)
<1> SUFFICES ASSUME NEW i \in 1..(Len(a) + Len(b)), NEW j \in 1..(Len(a) + Len(b)), (a \o b)[i] = (a \o b)[j]
             PROVE  i = j
  BY DEF Distinct, Seed!IsInjective
<1>1. \A k \in 1..(Len(a) + Len(b)) :
        IF k <= Len(a) THEN k \in DOMAIN a /\ (a \o b)[k] = a[k]
        ELSE k - Len(a) \in DOMAIN b /\ (a \o b)[k] = b[k - Len(a)]
  OBVIOUS
<1>2. \A k \in DOMAIN a, l \in DOMAIN b : a[k] # b[l]
  BY DEF Shares, Seed!ToSet
<1>3. /\ \A k, l \in DOMAIN a : a[k] = a[l] => k = l
      /\ \A k, l \in DOMAIN b : b[k] = b[l] => k = l
  BY DEF Distinct, Seed!IsInjective
<1>4. CASE i <= Len(a) /\ j <= Len(a)
  BY <1>1, <1>3, <1>4
<1>5. CASE i > Len(a) /\ j > Len(a)
  <2>1. i - Len(a) = j - Len(a)
    BY <1>1, <1>3, <1>5
  <2> QED BY <2>1
<1>6. CASE i <= Len(a) /\ j > Len(a)
  BY <1>1, <1>2, <1>6
<1>7. CASE i > Len(a) /\ j <= Len(a)
  BY <1>1, <1>2, <1>7
<1> QED BY <1>4, <1>5, <1>6, <1>7

\* What is shared with a concatenation is shared with one of its parts.
LEMMA SharesEither ==
  ASSUME NEW S, NEW a \in Seq(S), NEW b \in Seq(S), NEW c, Shares(a \o b, c)
  PROVE  Shares(a, c) \/ Shares(b, c)
<1>1. PICK i \in DOMAIN (a \o b) : (a \o b)[i] \in Seed!ToSet(c)
  BY DEF Shares, Seed!ToSet
<1>2. \/ i \in DOMAIN a /\ (a \o b)[i] = a[i]
      \/ i - Len(a) \in DOMAIN b /\ (a \o b)[i] = b[i - Len(a)]
  BY <1>1
<1> QED BY <1>1, <1>2 DEF Shares, Seed!ToSet

\* Nothing is stored at the start.
LEMMA RaceInvInit == StartInit => RaceInv
  BY DEF StartInit, Seed!Init, RaceInv, NoOverlap, Distinct, Shares, Seed!IsInjective, Seed!ToSet

\* A check that overlaps another one with a common address sets raced.
LEMMA CheckKeepsRaceInv ==
  ASSUME SeedTypes, RaceInv, NEW s \in Seeds, Seed!CheckContains(s) PROVE RaceInv'
<1> SUFFICES ASSUME \A a \in Answers : Distinct(a) PROVE RaceInv'
  BY DEF RaceInv
<1>1. /\ hosts' = hosts /\ answer' = answer /\ \A t \in Seeds : Distinct(answer[t])
      /\ \A t \in Seeds : task'[t] = "extend" => t = s \/ task[t] = "extend"
      /\ task'[s] = "extend" => ~Shares(hosts, answer[s])
  BY DEF Seed!CheckContains, Seed!Goto, Seed!Known, SeedTypes, RaceInv, Shares
<1>2. raced' \/ \A t \in Seeds \ {s} : task[t] = "extend" => ~Shares(answer[t], answer[s]) /\ ~Shares(answer[s], answer[t])
  BY DEF Seed!CheckContains, Shares
<1>3. raced => raced'
  BY DEF Seed!CheckContains
<1>4. ASSUME ~raced' PROVE NoOverlap'
  <2>1. NoOverlap
    BY <1>3, <1>4 DEF RaceInv
  <2>2. Distinct(hosts)'
    BY <1>1, <2>1 DEF NoOverlap, Distinct
  <2>3. \A t \in Seeds : task'[t] = "extend" => ~Shares(hosts', answer'[t])
    BY <1>1, <2>1 DEF NoOverlap
  <2>4. \A u, t \in Seeds : u # t /\ task'[u] = "extend" /\ task'[t] = "extend"
                              => ~Shares(answer'[u], answer'[t])
    BY <1>1, <1>2, <1>4, <2>1 DEF NoOverlap
  <2> QED BY <2>2, <2>3, <2>4 DEF NoOverlap, Shares
<1> QED BY <1>1, <1>4 DEF RaceInv, Distinct

\* An extension adds addresses that nobody else has, and ends the store.
LEMMA ExtendKeepsRaceInv ==
  ASSUME SeedTypes, RaceInv, NEW s \in Seeds, Seed!Extend(s) PROVE RaceInv'
<1> SUFFICES ASSUME \A a \in Answers : Distinct(a) PROVE RaceInv'
  BY DEF RaceInv
<1>1. /\ hosts' = hosts \o answer[s] /\ answer' = answer /\ raced' = raced /\ task[s] = "extend"
      /\ \A t \in Seeds : task'[t] = "extend" => t # s /\ task[t] = "extend"
      /\ \A t \in Seeds : Distinct(answer[t])
  BY DEF Seed!Extend, Seed!Goto, SeedTypes, RaceInv
<1>2. hosts \in Seq(Addresses) /\ answer[s] \in Seq(Addresses)
  BY DEF SeedTypes
<1>3. ASSUME NoOverlap PROVE NoOverlap'
  <2>1. Distinct(hosts) /\ ~Shares(hosts, answer[s])
    BY <1>1, <1>3 DEF NoOverlap
  <2>2. Distinct(hosts \o answer[s])
    BY <1>1, <1>2, <2>1, AppendDistinct
  <2>3. ASSUME NEW t \in Seeds, task'[t] = "extend" PROVE ~Shares(hosts \o answer[s], answer[t])
    <3>1. ~Shares(hosts, answer[t]) /\ ~Shares(answer[s], answer[t])
      BY <1>1, <1>3, <2>3 DEF NoOverlap
    <3> QED BY <1>2, <3>1, SharesEither
  <2>4. \A u, t \in Seeds : u # t /\ task'[u] = "extend" /\ task'[t] = "extend"
                              => ~Shares(answer'[u], answer'[t])
    BY <1>1, <1>3 DEF NoOverlap
  <2> QED BY <1>1, <2>2, <2>3, <2>4 DEF NoOverlap, Distinct, Shares
<1> QED BY <1>1, <1>3 DEF RaceInv, Distinct

\* No other step adds to the list or lets a store pass its check.
LEMMA OthersKeepRaceInv ==
  ASSUME RaceInv, hosts' = hosts, raced' = raced,
         \A s \in Seeds : task'[s] = "extend" => task[s] = "extend" /\ answer'[s] = answer[s],
         \A s \in Seeds : answer'[s] = answer[s] \/ answer'[s] \in Answers
  PROVE  RaceInv'
<1> SUFFICES ASSUME \A a \in Answers : Distinct(a) PROVE RaceInv'
  BY DEF RaceInv
<1>1. \A s \in Seeds : Distinct(answer'[s])
  BY DEF RaceInv
<1>2. NoOverlap => NoOverlap'
  <2>1. ASSUME NoOverlap PROVE /\ Distinct(hosts')
                               /\ \A s \in Seeds : task'[s] = "extend" => ~Shares(hosts', answer'[s])
                               /\ \A s, t \in Seeds : s # t /\ task'[s] = "extend" /\ task'[t] = "extend"
                                                        => ~Shares(answer'[s], answer'[t])
    BY <2>1 DEF NoOverlap
  <2> QED BY <2>1 DEF NoOverlap, Distinct, Shares
<1> QED BY <1>1, <1>2 DEF RaceInv, Distinct

LEMMA NextKeepsRaceInv == ASSUME SeedInv, RaceInv, [StartNext]_startVars PROVE RaceInv'
<1>1. SeedTypes
  BY DEF SeedInv
<1>2. CASE Query
  <2> PICK s \in Seeds : Seed!SeedStep(s)
    BY <1>2 DEF Query
  <2>1. CASE Seed!CheckContains(s)
    BY <1>1, <2>1, CheckKeepsRaceInv
  <2>2. CASE Seed!Extend(s)
    BY <1>1, <2>2, ExtendKeepsRaceInv
  <2>3. CASE \/ Seed!ConnectOk(s) \/ Seed!ConnectFails(s) \/ Seed!HandshakeOk(s)
             \/ Seed!HandshakeTimeout(s) \/ Seed!AskFails(s) \/ Seed!StopChannel(s)
    BY <1>1, <2>3, OthersKeepRaceInv DEF SeedTypes, Seed!Goto, Seed!ConnectOk, Seed!ConnectFails, Seed!HandshakeOk,
       Seed!HandshakeTimeout, Seed!AskFails, Seed!StopChannel
  <2>4. CASE Seed!ReceiveAddrs(s)
    BY <1>1, <2>4, OthersKeepRaceInv DEF SeedTypes, Seed!Goto, Seed!ReceiveAddrs
  <2> QED BY <2>1, <2>2, <2>3, <2>4 DEF Seed!SeedStep
<1>3. CASE QueriesEnd \/ NoSeeds \/ SeedBreaks \/ NodeStep \/ UNCHANGED startVars
  <2>1. UNCHANGED <<hosts, task, answer, raced>>
    BY <1>3 DEF QueriesEnd, Seed!AllDone, NoSeeds, SeedBreaks, Seed!ChannelBreaks, NodeStep, startVars, seedVars
  <2> QED BY <2>1, OthersKeepRaceInv
<1>4. CASE QueriesTimeOut
  BY <1>1, <1>4, OthersKeepRaceInv DEF QueriesTimeOut, Seed!Timeout, SeedTypes
<1> QED BY <1>2, <1>3, <1>4 DEF StartNext

(* For any number of seeds that send no address twice, a repeated address  *)
(* in the list of hosts has one cause: two stores overlapped between check *)
(* and extension (hosts.rs:34-38).                                         *)
THEOREM StoresSafety == Start => []DuplicatesNeedARace
<1>1. RaceInv => DuplicatesNeedARace
  BY DEF RaceInv, NoOverlap, Distinct, DuplicatesNeedARace, Seed!DuplicatesNeedARace
<1>2. SeedInv /\ RaceInv /\ [StartNext]_startVars => RaceInv'
  BY NextKeepsRaceInv
<1> QED BY <1>1, <1>2, SeedInvariant, RaceInvInit, PTL DEF Start
=============================================================================
