----------------------------- MODULE Connection -----------------------------
(***************************************************************************)
(* The two ends of one connection, from the version handshake              *)
(* (src/net/protocols/protocol_version.rs) to the first exchange of        *)
(* addresses (protocol_address.rs, protocol_seed.rs).  Both ends run the   *)
(* same code over a FIFO link that may break; "out" dialled, "in" accepted.*)
(*                                                                         *)
(* exchange_versions runs two tasks at each end: the sender sends a        *)
(* version and waits for a verack, the receiver waits for a version and    *)
(* sends a verack.  A packet that arrives before its protocol has          *)
(* subscribed is dropped by the message subsystem.                         *)
(***************************************************************************)
EXTENDS Naturals, Sequences

VARIABLES
  link,      \* "up" or "down"
  wire,      \* the packets on their way to each end
  inbox,     \* how many messages of each kind an end has queued
  subs,      \* the kinds an end has subscribed to
  stopped,   \* has the channel of this end been stopped?
  sender, receiver,  \* the two tasks of exchange_versions
  stage,     \* what the session task of this end is doing
  learned,   \* has this end stored addresses it was sent?
  seeding    \* does "out" run ProtocolSeed, or ProtocolAddress?

vars == <<link, wire, inbox, subs, stopped, sender, receiver, stage, learned, seeding>>

Ends == {"out", "in"}
Peer(x) == IF x = "out" THEN "in" ELSE "out"

Handshake == {"version", "verack"}
Kinds == Handshake \cup {"getaddrs", "addrs"}

TypeOK ==
  /\ link \in {"up", "down"}
  /\ wire \in [Ends -> Seq(Kinds)]
  /\ inbox \in [Ends -> [Kinds -> Nat]]
  /\ subs \in [Ends -> SUBSET Kinds]
  /\ stopped \in [Ends -> BOOLEAN]
  /\ sender \in [Ends -> {"send", "wait", "ok", "err", "cancelled"}]
  /\ receiver \in [Ends -> {"wait", "ack", "ok", "err", "cancelled"}]
  /\ stage \in [Ends -> {"handshake", "registered", "listening", "subscribed",
                         "introduced", "serving", "finishing", "closed", "dropped"}]
  /\ learned \in [Ends -> BOOLEAN]
  /\ seeding \in BOOLEAN

\* ProtocolVersion::new subscribes before the channel is started.  The dialler
\* belongs to an outbound session or to the seed session.
Init ==
  /\ link = "up"
  /\ wire = [x \in Ends |-> <<>>]
  /\ inbox = [x \in Ends |-> [k \in Kinds |-> 0]]
  /\ subs = [x \in Ends |-> Handshake]
  /\ stopped = [x \in Ends |-> FALSE]
  /\ sender = [x \in Ends |-> "send"]
  /\ receiver = [x \in Ends |-> "wait"]
  /\ stage = [x \in Ends |-> "handshake"]
  /\ learned = [x \in Ends |-> FALSE]
  /\ seeding \in BOOLEAN

----------------------------------------------------------------------------
(* The channel of an end.                                                  *)

\* Channel::send: a failed write stops the channel.
Sent(x, k) ==
  /\ link = "up"
  /\ wire' = [wire EXCEPT ![Peer(x)] = Append(@, k)]
  /\ UNCHANGED stopped
NotSent(x) ==
  /\ link = "down"
  /\ stopped' = [stopped EXCEPT ![x] = TRUE]
  /\ UNCHANGED wire

Take(x, k) ==
  /\ inbox[x][k] > 0
  /\ inbox' = [inbox EXCEPT ![x][k] = @ - 1]

\* A protocol waiting for a message gets an error once the channel stopped.
Interrupted(x, k) == stopped[x] /\ inbox[x][k] = 0

\* The receive loop hands one packet to whoever has subscribed.
Dispatch(x) ==
  /\ ~stopped[x] /\ wire[x] # <<>>
  /\ wire' = [wire EXCEPT ![x] = Tail(@)]
  /\ inbox' = [inbox EXCEPT ![x][Head(wire[x])] = IF Head(wire[x]) \in subs[x] THEN @ + 1 ELSE @]
  /\ UNCHANGED <<link, subs, stopped, sender, receiver, stage, learned, seeding>>

\* The receive loop sees the broken link, with or without reading the rest.
ReadFails(x) ==
  /\ ~stopped[x] /\ link = "down"
  /\ stopped' = [stopped EXCEPT ![x] = TRUE]
  /\ wire' = [wire EXCEPT ![x] = <<>>]
  /\ UNCHANGED <<link, inbox, subs, sender, receiver, stage, learned, seeding>>

LinkBreaks ==
  /\ link = "up" /\ link' = "down"
  /\ UNCHANGED <<wire, inbox, subs, stopped, sender, receiver, stage, learned, seeding>>

----------------------------------------------------------------------------
(* ProtocolVersion                                                         *)

SendVersion(x) ==
  /\ sender[x] = "send"
  /\ \/ Sent(x, "version") /\ sender' = [sender EXCEPT ![x] = "wait"]
     \/ NotSent(x) /\ sender' = [sender EXCEPT ![x] = "err"]
  /\ UNCHANGED <<link, inbox, subs, receiver, stage, learned, seeding>>

RecvVerack(x) ==
  /\ sender[x] = "wait"
  /\ \/ Take(x, "verack") /\ sender' = [sender EXCEPT ![x] = "ok"]
     \/ Interrupted(x, "verack") /\ sender' = [sender EXCEPT ![x] = "err"] /\ UNCHANGED inbox
  /\ UNCHANGED <<link, wire, subs, stopped, receiver, stage, learned, seeding>>

\* A receiver that acknowledges without having seen the peer's version.
AckAtOnce(x) ==
  /\ receiver[x] = "wait"
  /\ receiver' = [receiver EXCEPT ![x] = "ack"]
  /\ UNCHANGED <<link, wire, inbox, subs, stopped, sender, stage, learned, seeding>>
\* A receiver that is only run once the sender is through.
ReceiveAfterSend(x) ==
  /\ receiver[x] = "wait" /\ sender[x] \in {"ok", "err"}
  /\ \/ Take(x, "version") /\ receiver' = [receiver EXCEPT ![x] = "ack"]
     \/ Interrupted(x, "version") /\ receiver' = [receiver EXCEPT ![x] = "err"] /\ UNCHANGED inbox
  /\ UNCHANGED <<link, wire, subs, stopped, sender, stage, learned, seeding>>
RecvVersion(x) ==
  /\ receiver[x] = "wait"
  /\ \/ Take(x, "version") /\ receiver' = [receiver EXCEPT ![x] = "ack"]
     \/ Interrupted(x, "version") /\ receiver' = [receiver EXCEPT ![x] = "err"] /\ UNCHANGED inbox
  /\ UNCHANGED <<link, wire, subs, stopped, sender, stage, learned, seeding>>

SendVerack(x) ==
  /\ receiver[x] = "ack"
  /\ \/ Sent(x, "verack") /\ receiver' = [receiver EXCEPT ![x] = "ok"]
     \/ NotSent(x) /\ receiver' = [receiver EXCEPT ![x] = "err"]
  /\ UNCHANGED <<link, inbox, subs, sender, stage, learned, seeding>>

\* Both tasks have ended; run() succeeds whatever they returned.
ExchangeDone(x) ==
  /\ stage[x] = "handshake"
  /\ sender[x] \in {"ok", "err"} /\ receiver[x] \in {"ok", "err"}
  /\ stage' = [stage EXCEPT ![x] = "registered"]
  /\ UNCHANGED <<link, wire, inbox, subs, stopped, sender, receiver, learned, seeding>>

\* The select drops exchange_versions, which cancels the tasks it spawned.
CancelExchange(x) ==
  /\ sender' = [sender EXCEPT ![x] = IF @ \in {"send", "wait"} THEN "cancelled" ELSE @]
  /\ receiver' = [receiver EXCEPT ![x] = IF @ \in {"wait", "ack"} THEN "cancelled" ELSE @]

\* The session gives up; the channel and its receive loop stay.
Timeout(x) ==
  /\ stage[x] = "handshake"
  /\ stage' = [stage EXCEPT ![x] = "closed"]
  /\ CancelExchange(x)
  /\ UNCHANGED <<link, wire, inbox, subs, stopped, learned, seeding>>

----------------------------------------------------------------------------
(* ProtocolAddress, and ProtocolSeed at the dialling end.                  *)

Seeds(x) == seeding /\ x = "out"

\* An address protocol nobody can ask.
SubscribeAddrsOnly(x) ==
  /\ stage[x] \in {"registered", "listening"}
  /\ subs' = [subs EXCEPT ![x] = @ \cup {"addrs"}]
  /\ stage' = [stage EXCEPT ![x] = "subscribed"]
  /\ UNCHANGED <<link, wire, inbox, stopped, sender, receiver, learned, seeding>>
\* Both protocols first subscribe to addresses, ProtocolAddress then to
\* requests for them.
Subscribe(x) ==
  /\ \/ /\ stage[x] = "registered"
        /\ subs' = [subs EXCEPT ![x] = @ \cup {"addrs"}]
        /\ stage' = [stage EXCEPT ![x] = IF Seeds(x) THEN "subscribed" ELSE "listening"]
     \/ /\ stage[x] = "listening"
        /\ subs' = [subs EXCEPT ![x] = @ \cup {"getaddrs"}]
        /\ stage' = [stage EXCEPT ![x] = "subscribed"]
  /\ UNCHANGED <<link, wire, inbox, stopped, sender, receiver, learned, seeding>>

\* send_self_address, if an external address is configured.
SendSelf(x) ==
  /\ Seeds(x) /\ stage[x] = "subscribed"
  /\ \/ Sent(x, "addrs") /\ stage' = [stage EXCEPT ![x] = "introduced"]
     \/ NotSent(x) /\ stage' = [stage EXCEPT ![x] = "closed"]
     \/ UNCHANGED <<wire, stopped>> /\ stage' = [stage EXCEPT ![x] = "introduced"]
  /\ UNCHANGED <<link, inbox, subs, sender, receiver, learned, seeding>>

\* The address protocol ignores a failed send, the seed protocol returns.
Ask(x) ==
  /\ stage[x] = IF Seeds(x) THEN "introduced" ELSE "subscribed"
  /\ \/ Sent(x, "getaddrs") /\ stage' = [stage EXCEPT ![x] = "serving"]
     \/ NotSent(x) /\ stage' = [stage EXCEPT ![x] = IF Seeds(x) THEN "closed" ELSE "serving"]
  /\ UNCHANGED <<link, inbox, subs, sender, receiver, learned, seeding>>

\* handle_receive_get_addrs, which start() spawns before it asks.
Answer(x) ==
  /\ ~Seeds(x) /\ stage[x] \in {"subscribed", "serving"}
  /\ Take(x, "getaddrs")
  /\ Sent(x, "addrs") \/ NotSent(x)
  /\ UNCHANGED <<link, subs, sender, receiver, stage, learned, seeding>>

\* handle_receive_addrs stores and goes on, the seed protocol stores and
\* returns.
Learn(x) ==
  /\ stage[x] = "serving" \/ (~Seeds(x) /\ stage[x] = "subscribed")
  /\ Take(x, "addrs")
  /\ learned' = [learned EXCEPT ![x] = TRUE]
  /\ stage' = [stage EXCEPT ![x] = IF Seeds(x) THEN "finishing" ELSE @]
  /\ UNCHANGED <<link, wire, subs, stopped, sender, receiver, seeding>>

\* channel.stop() when the seed protocol has returned.
Finish(x) ==
  /\ stage[x] = "finishing"
  /\ stopped' = [stopped EXCEPT ![x] = TRUE]
  /\ stage' = [stage EXCEPT ![x] = "closed"]
  /\ UNCHANGED <<link, wire, inbox, subs, sender, receiver, learned, seeding>>

\* The seed protocol waits on a channel that is stopped under it.
SeedFails(x) ==
  /\ Seeds(x) /\ stage[x] = "serving" /\ Interrupted(x, "addrs")
  /\ stage' = [stage EXCEPT ![x] = "closed"]
  /\ UNCHANGED <<link, wire, inbox, subs, stopped, sender, receiver, learned, seeding>>

\* The timer over all seed queries drops the tasks that are still running,
\* at whatever await; nobody stops their channels.
QueryTimeout(x) ==
  /\ Seeds(x) /\ stage[x] \notin {"closed", "dropped"}
  /\ stage' = [stage EXCEPT ![x] = "dropped"]
  /\ CancelExchange(x)
  /\ UNCHANGED <<link, wire, inbox, subs, stopped, learned, seeding>>

TaskStep(x) ==
  \/ SendVersion(x) \/ RecvVerack(x) \/ RecvVersion(x) \/ SendVerack(x) \/ ExchangeDone(x)
  \/ Subscribe(x) \/ SendSelf(x) \/ Ask(x) \/ Answer(x) \/ Learn(x) \/ Finish(x)
  \/ SeedFails(x)

Next ==
  \/ LinkBreaks
  \/ \E x \in Ends : TaskStep(x) \/ Timeout(x) \/ QueryTimeout(x) \/ Dispatch(x) \/ ReadFails(x)

Spec == Init /\ [][Next]_vars

\* Tasks and receive loops are scheduled; timers need not fire.
Fairness ==
  \A x \in Ends :
    /\ WF_vars(SendVersion(x)) /\ WF_vars(RecvVerack(x))
    /\ WF_vars(RecvVersion(x)) /\ WF_vars(SendVerack(x)) /\ WF_vars(ExchangeDone(x))
    /\ WF_vars(Subscribe(x)) /\ WF_vars(SendSelf(x)) /\ WF_vars(Ask(x)) /\ WF_vars(Answer(x))
    /\ WF_vars(Learn(x)) /\ WF_vars(Finish(x)) /\ WF_vars(SeedFails(x))
    /\ WF_vars(Dispatch(x)) /\ WF_vars(ReadFails(x))

FairSpec == Spec /\ Fairness

----------------------------------------------------------------------------
(* What holds.                                                             *)

(* An end whose version was acknowledged knows that the other end took it  *)
(* and completed its receiving half, whatever was cancelled, timed out or  *)
(* lost since; and a completed receiving half proves the peer's version.   *)
Agreement ==
  \A x \in Ends :
    /\ sender[x] = "ok" => receiver[Peer(x)] = "ok"
    /\ receiver[x] \in {"ack", "ok"} => sender[Peer(x)] # "send"

(* Behind it: an acknowledgement in flight, queued or consumed was sent by *)
(* a receiver that completed, and a version by a sender that sent it.      *)
InFlight(x, k) == inbox[x][k] > 0 \/ \E i \in DOMAIN wire[x] : wire[x][i] = k
Evidence ==
  \A x \in Ends :
    /\ InFlight(x, "verack") => receiver[Peer(x)] = "ok"
    /\ InFlight(x, "version") => sender[Peer(x)] # "send"
IInv == TypeOK /\ Agreement /\ Evidence

Undisturbed == link = "up" /\ \A x \in Ends : stage[x] \notin {"closed", "dropped"}

(* Without a break or a timer both halves complete at both ends: neither   *)
(* end waits for the other to speak first.                                 *)
HandshakeCompletes ==
  <>(~Undisturbed \/ \A x \in Ends : sender[x] = "ok" /\ receiver[x] = "ok")

(* Of two ends that run the address protocol at least one learns the       *)
(* other's addresses: the later to subscribe asks an end that listens.     *)
SomeoneLearns == <>(seeding \/ ~Undisturbed \/ \E x \in Ends : learned[x])

(* A seed query that starts when the server already listens is answered,  *)
(* unless the link breaks or the timer over the queries drops it first     *)
(* (protocol_seed.rs:29-53, seed_session.rs:57).                           *)
EarlyServerAnswers ==
  (seeding /\ stage["in"] \in {"subscribed", "serving"} /\ stage["out"] = "registered")
    ~> (learned["out"] \/ link = "down" \/ stage["out"] = "dropped")

----------------------------------------------------------------------------
(* What the docs say and the code does not do.                             *)

(* protocols/mod.rs: the seed protocol: "Then we send a get-address        *)
(* message and receive an address message."                                *)
SeedAnswered ==
  <>(~seeding \/ link = "down" \/ stage["in"] = "closed"
       \/ stage["out"] \in {"closed", "dropped"})
=============================================================================
