-------------------------------- MODULE Node ---------------------------------
(***************************************************************************)
(* A node from its start to its end (src/bin/dfi.rs, src/net/p2p.rs), with *)
(* the stop request of its RPC server (src/rpc/jsonserver.rs) and with its *)
(* inbound side (src/net/acceptor.rs, src/net/sessions/inbound_session.rs).*)
(*                                                                         *)
(* InboundSession::start starts the accept loop first and then the loop    *)
(* that subscribes to the accepted channels: both are tasks, and what the  *)
(* acceptor publishes before the subscription reaches nobody.  The channels*)
(* are numbered in the order in which they are accepted.                   *)
(*                                                                         *)
(* P2p::run waits on a subscription to P2p.stop_subscriber, which nothing  *)
(* in the program notifies, so what follows that wait (the stop of the     *)
(* sessions, RpcInterface::wait_for_quit and the cancellation of the HTTP  *)
(* task) is no step of the program and has no action here.                 *)
(***************************************************************************)
EXTENDS Integers, Sequences

CONSTANTS
  MaxChannels,   \* bound: connections made to the node
  MaxStops       \* bound: stop requests

ASSUME NodeAssumption == MaxChannels \in Nat /\ MaxStops \in Nat

VARIABLES
  main,          \* where bin/dfi.rs start() is
  stopQueue,     \* messages in RpcInterface.stop_send
  acceptor,      \* the accept loop
  accepted,      \* number of channels made by tick_accept
  subLoop,       \* InboundSession::channel_sub_loop
  queue,         \* its subscription: channels, then perhaps StopError
  missed,        \* number of channels published before the subscription
  setup          \* the setup_channel task of each channel

vars == <<main, stopQueue, acceptor, accepted, subLoop, queue, missed, setup>>

Channels == 1..MaxChannels
StopError == 0                      \* NetError::ServiceStopped

Subscribed == subLoop \in {"receiving", "ended"}
InSetup(c) == setup[c] # "none"

TypeOK ==
  /\ main \in {"seeding", "inbound", "outbound", "running", "failed"}
  /\ stopQueue \in 0..MaxStops
  /\ acceptor \in {"off", "accepting", "notifying", "failing", "ended", "panicked"}
  /\ accepted \in 0..MaxChannels
  /\ subLoop \in {"off", "subscribing", "receiving", "ended"}
  /\ queue \in Seq({StopError} \cup Channels)
  /\ missed \in 0..MaxChannels
  /\ setup \in [Channels -> {"none", "handshake", "stored", "ready", "failed"}]

Init ==
  /\ main = "seeding" /\ stopQueue = 0
  /\ acceptor = "off" /\ accepted = 0
  /\ subLoop = "off" /\ queue = <<>> /\ missed = 0
  /\ setup = [c \in Channels |-> "none"]

\* main() drops the sender of the shutdown channel when start() returns, which
\* ends the executor threads and with them every task.
Alive == main # "failed"

inbound == <<acceptor, accepted, subLoop, queue, missed, setup>>

----------------------------------------------------------------------------
(* start() of bin/dfi.rs: P2p::start, then P2p::run                        *)

SeedingOk ==
  /\ main = "seeding" /\ main' = "inbound"
  /\ UNCHANGED <<stopQueue, inbound>>

SeedingFails ==
  /\ main = "seeding" /\ main' = "failed"
  /\ UNCHANGED <<stopQueue, inbound>>

InboundNotConfigured ==
  /\ main = "inbound" /\ main' = "outbound"
  /\ UNCHANGED <<stopQueue, inbound>>

\* The two tasks are spawned; neither has run yet.
InboundOk ==
  /\ main = "inbound" /\ main' = "outbound"
  /\ acceptor' = "accepting" /\ subLoop' = "subscribing"
  /\ UNCHANGED <<stopQueue, accepted, queue, missed, setup>>

\* Acceptor::setup fails, and so do InboundSession::start and P2p::run.
BindFails ==
  /\ main = "inbound" /\ main' = "failed"
  /\ UNCHANGED <<stopQueue, inbound>>

\* OutboundSession::start spawns the slots; then run() subscribes and waits.
OutboundOk ==
  /\ main = "outbound" /\ main' = "running"
  /\ UNCHANGED <<stopQueue, inbound>>

\* The RPC method "stop".
StopRequested ==
  /\ Alive /\ stopQueue < MaxStops
  /\ stopQueue' = stopQueue + 1
  /\ UNCHANGED <<main, inbound>>

----------------------------------------------------------------------------
(* The accept loop.  Subscriber::notify panics when a subscription is gone.*)

Accept ==
  /\ Alive /\ acceptor = "accepting" /\ accepted < MaxChannels
  /\ accepted' = accepted + 1 /\ acceptor' = "notifying"
  /\ UNCHANGED <<main, stopQueue, subLoop, queue, missed, setup>>

\* The error ends the loop; StoppableTask hands it to handle_stop.
AcceptError ==
  /\ Alive /\ acceptor = "accepting"
  /\ acceptor' = "failing"
  /\ UNCHANGED <<main, stopQueue, accepted, subLoop, queue, missed, setup>>

Publish(message) ==
  queue' = IF subLoop = "receiving" THEN Append(queue, message) ELSE queue

NotifyChannel ==
  /\ Alive /\ acceptor = "notifying"
  /\ acceptor' = IF subLoop = "ended" THEN "panicked" ELSE "accepting"
  /\ Publish(accepted)
  /\ missed' = IF Subscribed THEN missed ELSE accepted
  /\ UNCHANGED <<main, stopQueue, accepted, subLoop, setup>>

\* Mutants: the loop goes on after an error; the error is published to nobody.
AcceptAgain ==
  /\ Alive /\ acceptor = "failing"
  /\ acceptor' = IF subLoop = "ended" THEN "panicked" ELSE "accepting"
  /\ Publish(StopError)
  /\ UNCHANGED <<main, stopQueue, accepted, subLoop, missed, setup>>
EndSilently ==
  /\ Alive /\ acceptor = "failing" /\ acceptor' = "ended"
  /\ UNCHANGED <<main, stopQueue, accepted, subLoop, queue, missed, setup>>

NotifyError ==
  /\ Alive /\ acceptor = "failing"
  /\ acceptor' = IF subLoop = "ended" THEN "panicked" ELSE "ended"
  /\ Publish(StopError)
  /\ UNCHANGED <<main, stopQueue, accepted, subLoop, missed, setup>>

----------------------------------------------------------------------------
(* channel_sub_loop                                                        *)

Subscribe ==
  /\ Alive /\ subLoop = "subscribing"
  /\ subLoop' = "receiving" /\ queue' = <<>>
  /\ UNCHANGED <<main, stopQueue, acceptor, accepted, missed, setup>>

\* Mutant: the subscription is made anew in every turn of the loop.
ReceiveOnce ==
  /\ Alive /\ subLoop = "receiving"
  /\ queue # <<>> /\ Head(queue) # StopError
  /\ queue' = <<>> /\ subLoop' = "subscribing"
  /\ setup' = [setup EXCEPT ![Head(queue)] = "handshake"]
  /\ UNCHANGED <<main, stopQueue, acceptor, accepted, missed>>

ReceiveChannel ==
  /\ Alive /\ subLoop = "receiving"
  /\ queue # <<>> /\ Head(queue) # StopError
  /\ queue' = Tail(queue)
  /\ setup' = [setup EXCEPT ![Head(queue)] = "handshake"]
  /\ UNCHANGED <<main, stopQueue, acceptor, accepted, subLoop, missed>>

\* The `?` ends the loop and drops the subscription.
ReceiveError ==
  /\ Alive /\ subLoop = "receiving"
  /\ queue # <<>> /\ Head(queue) = StopError
  /\ subLoop' = "ended" /\ queue' = <<>>
  /\ UNCHANGED <<main, stopQueue, acceptor, accepted, missed, setup>>

----------------------------------------------------------------------------
(* setup_channel, one detached task per channel                            *)

SetupStep(c, from, to) ==
  /\ Alive /\ setup[c] = from
  /\ setup' = [setup EXCEPT ![c] = to]
  /\ UNCHANGED <<main, stopQueue, acceptor, accepted, subLoop, queue, missed>>

\* register_channel: the handshake, then P2p::store and the remover.
RegisterOk(c) == SetupStep(c, "handshake", "stored")
\* Mutant: the failure ends channel_sub_loop.
FailureEndsLoop(c) ==
  /\ Alive /\ setup[c] = "handshake"
  /\ setup' = [setup EXCEPT ![c] = "failed"]
  /\ subLoop' = "ended" /\ queue' = <<>>
  /\ UNCHANGED <<main, stopQueue, acceptor, accepted, missed>>
RegisterFails(c) == SetupStep(c, "handshake", "failed")
\* attach_protocols
Attach(c) == SetupStep(c, "stored", "ready")

----------------------------------------------------------------------------

\* What follows the seeding.
Run ==
  \/ InboundNotConfigured \/ InboundOk \/ BindFails \/ OutboundOk
  \/ Accept \/ AcceptError \/ NotifyChannel \/ NotifyError
  \/ Subscribe \/ ReceiveChannel \/ ReceiveError
  \/ \E c \in Channels : RegisterOk(c) \/ RegisterFails(c) \/ Attach(c)

Next == SeedingOk \/ SeedingFails \/ StopRequested \/ Run

Spec == Init /\ [][Next]_vars

\* Every task that can go on is polled again.  Nobody has to connect, no accept
\* has to fail and nobody has to ask for a stop.
RunFairness ==
  /\ WF_vars(InboundNotConfigured \/ InboundOk \/ BindFails)
  /\ WF_vars(OutboundOk)
  /\ WF_vars(NotifyChannel \/ NotifyError)
  /\ WF_vars(Subscribe \/ ReceiveChannel \/ ReceiveError)
  /\ \A c \in Channels : WF_vars(RegisterOk(c) \/ RegisterFails(c) \/ Attach(c))

\* The seeding ends (see Startup).
Fairness == WF_vars(SeedingOk \/ SeedingFails) /\ RunFairness

FairSpec == Spec /\ Fairness

----------------------------------------------------------------------------
(* Properties                                                              *)

\* The channel the acceptor has in hand and has not published yet.
InHand == IF acceptor = "notifying" THEN {accepted} ELSE {}
Queued == {queue[i] : i \in DOMAIN queue} \ {StopError}

\* Of the channels accepted so far each is in one place only: missed, waiting in
\* the queue, in setup, or in hand - and in that order of age: all that was
\* missed is older than all that was set up, which is older than what waits
\* (acceptor.rs run_accept_loop, inbound_session.rs channel_sub_loop).
EachOnceInOrder ==
  \A c \in 1..accepted :
    /\ c <= missed => ~InSetup(c) /\ c \notin Queued
    /\ c > missed /\ c \notin InHand => (InSetup(c) <=> c \notin Queued)
    /\ c > missed /\ InSetup(c) => \A d \in (missed + 1)..c : InSetup(d)

\* The acceptor never publishes to a subscription that is gone, which would
\* panic (subscriber.rs:75): the error that ends channel_sub_loop is the last
\* thing it publishes.
NoPanic == acceptor # "panicked"

\* What the acceptor publishes once the session listens is set up, whether that
\* succeeds or not, unless the node ends (inbound_session.rs:77-87).
PublishedIsSetUp ==
  \A c \in Channels :
    (c > missed /\ c <= accepted /\ Subscribed) ~> (setup[c] \in {"ready", "failed"} \/ ~Alive)

\* An accept error ends the loop that listens, if it listened in time
\* (acceptor.rs:101-104).
ErrorReachesSession ==
  (acceptor = "failing" /\ Subscribed) ~> (subLoop = "ended" \/ ~Alive)

\* The number of channels published; of those that wait; of the last one taken.
Published == IF acceptor = "notifying" THEN accepted - 1 ELSE accepted
Closed == queue # <<>> /\ queue[Len(queue)] = StopError
Waiting == IF Closed THEN Len(queue) - 1 ELSE Len(queue)
Taken == Published - Waiting

QueueInOrder ==
  /\ missed <= Taken
  /\ \A i \in 1..Waiting : queue[i] = Taken + i

SetUpAreTaken == \A c \in Channels : InSetup(c) <=> missed < c /\ c <= Taken

ErrorIsLast == Closed \/ subLoop = "ended" => acceptor = "ended"

ListenersAgree ==
  /\ subLoop # "receiving" => queue = <<>>
  /\ ~Subscribed => missed = Published
  /\ acceptor = "off" <=> subLoop = "off"
  /\ main \in {"seeding", "inbound"} => acceptor = "off"
  /\ acceptor = "off" => accepted = 0

\* The inductive invariant: the channels that wait are the last ones published,
\* those taken before them are in setup, and the error comes last.
IInv == TypeOK /\ NoPanic /\ QueueInOrder /\ SetUpAreTaken /\ ErrorIsLast /\ ListenersAgree

\* "Wait for all new channels created by the acceptor and call setup_channel()
\* on them." (inbound_session.rs:75-76)
AllChannelsSetUp ==
  \A c \in Channels : (c <= accepted) ~> (InSetup(c) \/ ~Alive)

\* P2p::run ends when it is told to: "Wait for stop signal", "Stop the sessions"
\* (p2p.rs:72-75), where the signal of the RPC interface is its stop message.
StopIsHeeded == (stopQueue > 0) ~> ~Alive
=============================================================================
