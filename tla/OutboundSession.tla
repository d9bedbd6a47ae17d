-------------------------- MODULE OutboundSession --------------------------
(***************************************************************************)
(* The outbound side of a node (src/net/sessions/outbound_session.rs) and  *)
(* the shared P2p tables its connect slots work on (src/net/p2p.rs):       *)
(*   pending   the addresses locked by a slot that is connecting to them,  *)
(*   channels  the connected channels, a map keyed by address.             *)
(*                                                                         *)
(* Every slot is a task running channel_connect_loop.  A label of pc is a  *)
(* point where the task may be descheduled (an await on a lock or on I/O), *)
(* so the checks of load_address are separate steps.  Every stored channel *)
(* has a detached remove_sub_on_stop task, the "remover".                  *)
(*                                                                         *)
(* A channel is reduced to what the slots see of it: whether it runs or    *)
(* has been stopped and who subscribed to its stop event.  Channel::stop   *)
(* may run more than once, because it never sets the flag it tests; the    *)
(* module Channel has the detail.                                          *)
(***************************************************************************)
EXTENDS Naturals, FiniteSets

CONSTANTS
  Slots,       \* settings.outbound_connections connect slots
  Addrs,       \* socket addresses
  Chans,       \* identities of channel objects, each used once
  OwnAddr,     \* settings.inbound, or NoAddr when not listening
  SeedHosts,   \* addresses the seed session may leave in the pool
  NoAddr, NoChan

ASSUME SentinelAssumption == NoAddr \notin Addrs /\ NoChan \notin Chans
ASSUME ConfigAssumption == SeedHosts \subseteq Addrs /\ OwnAddr \in Addrs \cup {NoAddr}

VARIABLES
  hosts,     \* Hosts.addrs as a set
  pending,   \* P2p.pending
  channels,  \* P2p.channels, NoChan where the map has no key
  pc,        \* where each slot is in channel_connect_loop
  addr,      \* the local variable addr of each slot
  chan,      \* the local variable channel of each slot
  caddr,     \* Channel.address
  phase,     \* "unused", "new", "running" (started) or "stopped"
  agreed,    \* did the version exchange on this channel succeed?
  sub,       \* the stop subscriptions of a channel
  remover    \* where the remove_sub_on_stop task of a channel is

outboundVars == <<hosts, pending, channels, pc, addr, chan, caddr, phase, agreed, sub, remover>>

p2pVars   == <<hosts, pending, channels>>
slotVars  == <<pc, addr, chan>>
chanVars  == <<caddr, phase, agreed, sub, remover>>

Labels == {"load", "exists", "lock", "connect", "start", "handshake", "store",
           "announce", "unlock", "attach", "wait", "closed", "panicked"}

\* A slot between add_pending and remove_pending holds the lock on its address.
Holding == {"connect", "start", "handshake", "store", "announce", "unlock"}

\* A slot that has a channel object in its hands.
WithChannel == {"start", "handshake", "store", "announce", "unlock", "attach", "wait"}

\* A slot that has not yet spawned the remover of its channel.
BeforeRemover == {"start", "handshake", "store", "announce"}

\* The two subscribers to the stop event of an outbound channel.  A receiver
\* that was dropped without unsubscribe() leaves its sender in the map.
Watchers  == {"slot", "remover"}
SubStates == {"none", "live", "signalled", "dropped"}

(* One type invariant: the tables hold addresses and channels of the model. *)
OutboundTypeOK ==
  /\ hosts \subseteq Addrs
  /\ pending \subseteq Addrs
  /\ channels \in [Addrs -> Chans \cup {NoChan}]
  /\ pc \in [Slots -> Labels]
  /\ addr \in [Slots -> Addrs \cup {NoAddr}]
  /\ chan \in [Slots -> Chans \cup {NoChan}]
  /\ caddr \in [Chans -> Addrs \cup {NoAddr}]
  /\ phase \in [Chans -> {"unused", "new", "running", "stopped"}]
  /\ agreed \in [Chans -> BOOLEAN]
  /\ sub \in [Chans -> [Watchers -> SubStates]]
  /\ remover \in [Chans -> {"none", "spawned", "waiting", "done"}]

OutboundInit ==
  /\ hosts \in SUBSET SeedHosts
  /\ pending = {}
  /\ channels = [a \in Addrs |-> NoChan]
  /\ pc = [s \in Slots |-> "load"]
  /\ addr = [s \in Slots |-> NoAddr]
  /\ chan = [s \in Slots |-> NoChan]
  /\ caddr = [c \in Chans |-> NoAddr]
  /\ phase = [c \in Chans |-> "unused"]
  /\ agreed = [c \in Chans |-> FALSE]
  /\ sub = [c \in Chans |-> [w \in Watchers |-> "none"]]
  /\ remover = [c \in Chans |-> "none"]

Goto(s, l) == pc' = [pc EXCEPT ![s] = l]

----------------------------------------------------------------------------
(* Stop subscriptions of a channel: Subscriber<NetError>.                  *)

SetSub(c, w, st) == sub' = [sub EXCEPT ![c][w] = st]

Listening(c) == {w \in Watchers : sub[c][w] \in {"live", "signalled"}}
NotifyPanics(c) == \E w \in Watchers : sub[c][w] = "dropped"

\* Subscriber::notify sends to every registered sender in hash order.  A send
\* to a dropped receiver panics, which leaves the later ones without the event.
Reached(c) == IF NotifyPanics(c) THEN SUBSET Listening(c) ELSE {Listening(c)}
Signal(c, N) == [w \in Watchers |-> IF w \in N THEN "signalled" ELSE sub[c][w]]
Notify(c) == \E N \in Reached(c) : sub' = [sub EXCEPT ![c] = Signal(c, N)]

\* Channel::stop as seen by the slots: mark the channel, notify the watchers.
SilentStop(c) == phase' = [phase EXCEPT ![c] = "stopped"] /\ UNCHANGED sub
StopChannel(c) == phase' = [phase EXCEPT ![c] = "stopped"] /\ Notify(c)

----------------------------------------------------------------------------
(* load_address                                                            *)

IsSelfInbound(a) == OwnAddr # NoAddr /\ OwnAddr = a

\* hosts.load_single(): a random host; an empty pool closes the slot for good.
LoadSingle(s) ==
  /\ pc[s] = "load"
  /\ \/ /\ hosts = {}
        /\ Goto(s, "closed")
        /\ UNCHANGED addr
     \/ \E a \in hosts :
          /\ ~IsSelfInbound(a)
          /\ addr' = [addr EXCEPT ![s] = a]
          /\ Goto(s, "exists")
  /\ UNCHANGED <<p2pVars, chan, chanVars>>

\* if p2p.exists(&addr).await { continue; }
CheckExists(s) ==
  /\ pc[s] = "exists"
  /\ Goto(s, IF channels[addr[s]] # NoChan THEN "load" ELSE "lock")
  /\ UNCHANGED <<p2pVars, addr, chan, chanVars>>

\* HashSet::insert tells whether the address was new.
BlindInsert(a) == TRUE
PendingInsert(a) == a \notin pending

\* if !p2p.add_pending(addr).await { continue; }
AddPending(s) ==
  /\ pc[s] = "lock"
  /\ pending' = pending \cup {addr[s]}
  /\ Goto(s, IF PendingInsert(addr[s]) THEN "connect" ELSE "load")
  /\ UNCHANGED <<hosts, channels, addr, chan, chanVars>>

----------------------------------------------------------------------------
(* channel_connect_loop, register_channel, perform_handshake_protocols     *)

\* connector.connect(addr) succeeds; the new channel is known to this slot
\* alone, which subscribes to its stop event before anything else happens.
ConnectOk(s, c) ==
  /\ pc[s] = "connect"
  /\ phase[c] = "unused"
  /\ phase' = [phase EXCEPT ![c] = "new"]
  /\ caddr' = [caddr EXCEPT ![c] = addr[s]]
  /\ chan' = [chan EXCEPT ![s] = c]
  /\ SetSub(c, "slot", "live")
  /\ Goto(s, "start")
  /\ UNCHANGED <<p2pVars, addr, agreed, remover>>

\* The Err arm only logs: the address stays in pending.
ConnectFail(s) ==
  /\ pc[s] = "connect"
  /\ Goto(s, "load")
  /\ UNCHANGED <<p2pVars, addr, chan, chanVars>>

\* register_channel: channel.start(executor) spawns the receive loop.
SpawnRemoverFirst(s) ==
  /\ pc[s] = "start"
  /\ phase' = [phase EXCEPT ![chan[s]] = "running"]
  /\ remover' = [remover EXCEPT ![chan[s]] = "spawned"]
  /\ Goto(s, "handshake")
  /\ UNCHANGED <<p2pVars, addr, chan, caddr, agreed, sub>>
StartChannel(s) ==
  /\ pc[s] = "start"
  /\ phase' = [phase EXCEPT ![chan[s]] = "running"]
  /\ Goto(s, "handshake")
  /\ UNCHANGED <<p2pVars, addr, chan, caddr, agreed, sub, remover>>

\* ProtocolVersion::run: versions and veracks were exchanged.
HandshakeOk(s) ==
  /\ pc[s] = "handshake"
  /\ agreed' = [agreed EXCEPT ![chan[s]] = TRUE]
  /\ Goto(s, "store")
  /\ UNCHANGED <<p2pVars, addr, chan, caddr, phase, sub, remover>>

\* The exchange ends with an error because the channel was stopped under it,
\* and the select arm `_ = exchange_versions => Ok(())` discards that error.
HandshakeError(s) ==
  /\ pc[s] = "handshake"
  /\ phase[chan[s]] = "stopped"
  /\ Goto(s, "store")
  /\ UNCHANGED <<p2pVars, addr, chan, chanVars>>

\* ChannelTimeout propagates through `?`: the slot task ends, its stop_sub is
\* dropped, and the channel is neither stopped nor unlocked.
HandshakeTimeout(s) ==
  /\ pc[s] = "handshake"
  /\ SetSub(chan[s], "slot", "dropped")
  /\ Goto(s, "closed")
  /\ UNCHANGED <<p2pVars, addr, chan, caddr, phase, agreed, remover>>

\* p2p.store(channel): the entry is made under the lock, which is released
\* before the awaited channel_subscriber.notify.
Store(s) ==
  /\ pc[s] = "store"
  /\ channels' = [channels EXCEPT ![addr[s]] = chan[s]]
  /\ Goto(s, "announce")
  /\ UNCHANGED <<hosts, pending, addr, chan, chanVars>>

\* Nobody subscribes to new channels, so notify sends nothing; when it is
\* through, the remover is spawned.
SpawnRemover(s) ==
  /\ pc[s] = "announce"
  /\ remover' = [remover EXCEPT ![chan[s]] = "spawned"]
  /\ Goto(s, "unlock")
  /\ UNCHANGED <<p2pVars, addr, chan, caddr, phase, agreed, sub>>

\* p2p.remove_pending(&addr)
RemovePending(s) ==
  /\ pc[s] = "unlock"
  /\ pending' = pending \ {addr[s]}
  /\ Goto(s, "attach")
  /\ UNCHANGED <<hosts, channels, addr, chan, chanVars>>

\* attach_protocols: both protocols start and GetAddrs is sent.
AttachProtocols(s) ==
  /\ pc[s] = "attach"
  /\ Goto(s, "wait")
  /\ UNCHANGED <<p2pVars, addr, chan, chanVars>>

\* ProtocolAddress::start sends GetAddrs from the slot's own task: a failed
\* send stops the channel there, and the error is ignored.
AttachSendFails(s) ==
  /\ pc[s] = "attach"
  /\ ~NotifyPanics(chan[s])
  /\ StopChannel(chan[s])
  /\ Goto(s, "wait")
  /\ UNCHANGED <<p2pVars, addr, chan, caddr, agreed, remover>>

\* The same when the remover has come and gone: notify panics in the slot's
\* task, which unwinds and drops its own subscription too.
AttachPanics(s) ==
  /\ pc[s] = "attach"
  /\ NotifyPanics(chan[s])
  /\ \E N \in Reached(chan[s]) :
       sub' = [sub EXCEPT ![chan[s]] = [Signal(chan[s], N) EXCEPT !["slot"] = "dropped"]]
  /\ phase' = [phase EXCEPT ![chan[s]] = "stopped"]
  /\ Goto(s, "panicked")
  /\ UNCHANGED <<p2pVars, addr, chan, caddr, agreed, remover>>

\* stop_sub.receive(), then the loop body ends and stop_sub is dropped.
WaitStop(s) ==
  /\ pc[s] = "wait"
  /\ sub[chan[s]]["slot"] = "signalled"
  /\ SetSub(chan[s], "slot", "dropped")
  /\ chan' = [chan EXCEPT ![s] = NoChan]
  /\ Goto(s, "load")
  /\ UNCHANGED <<p2pVars, addr, caddr, phase, agreed, remover>>

----------------------------------------------------------------------------
(* The remover, and what the rest of the node does to channels and hosts.  *)

\* remove_sub_on_stop: subscribe_stop() runs when the detached task is first
\* scheduled, and does not look at the stopped status.
RemoverSubscribe(c) ==
  /\ remover[c] = "spawned"
  /\ remover' = [remover EXCEPT ![c] = "waiting"]
  /\ SetSub(c, "remover", "live")
  /\ UNCHANGED <<p2pVars, slotVars, caddr, phase, agreed>>

\* P2p::remove: the key is the channel's address, whoever is stored there.
P2pRemoveNothing(c) == UNCHANGED channels
P2pRemove(c) == channels' = [channels EXCEPT ![caddr[c]] = NoChan]

\* stop_sub.receive(), then p2p.remove(channel), then stop_sub is dropped.
RemoverRemove(c) ==
  /\ remover[c] = "waiting"
  /\ sub[c]["remover"] = "signalled"
  /\ P2pRemove(c)
  /\ remover' = [remover EXCEPT ![c] = "done"]
  /\ SetSub(c, "remover", "dropped")
  /\ UNCHANGED <<hosts, pending, slotVars, caddr, phase, agreed>>

\* The receive loop or a protocol task of the channel calls Channel::stop.
ChannelStop(c) ==
  /\ phase[c] \in {"running", "stopped"}
  /\ StopChannel(c)
  /\ UNCHANGED <<p2pVars, slotVars, caddr, agreed, remover>>

\* Hosts::store from an address protocol of some channel.
LearnHost(a) ==
  /\ hosts' = hosts \cup {a}
  /\ UNCHANGED <<pending, channels, slotVars, chanVars>>

\* Steps the node takes by itself, and steps that need the remote peer.
LocalStep(s) ==
  \/ LoadSingle(s) \/ CheckExists(s) \/ AddPending(s)
  \/ ConnectFail(s) \/ StartChannel(s) \/ HandshakeError(s) \/ HandshakeTimeout(s)
  \/ Store(s) \/ SpawnRemover(s) \/ RemovePending(s)
  \/ AttachProtocols(s) \/ AttachSendFails(s) \/ AttachPanics(s) \/ WaitStop(s)

PeerStep(s) == HandshakeOk(s) \/ \E c \in Chans : ConnectOk(s, c)

RemoverStep(c) == RemoverSubscribe(c) \/ RemoverRemove(c)

OutboundNext ==
  \/ \E s \in Slots : LocalStep(s) \/ PeerStep(s)
  \/ \E c \in Chans : RemoverStep(c) \/ ChannelStop(c)
  \/ \E a \in Addrs : LearnHost(a)

OutboundSpec == OutboundInit /\ [][OutboundNext]_outboundVars

\* The executor runs every task that can make progress.  The peer owes us
\* nothing, but connecting and the handshake are bounded by timeouts.
OutboundFairness ==
  /\ \A s \in Slots : WF_outboundVars(LocalStep(s))
  /\ \A c \in Chans : WF_outboundVars(RemoverStep(c))

OutboundFairSpec == OutboundSpec /\ OutboundFairness

----------------------------------------------------------------------------
(* What holds.                                                             *)

(* What a slot knows of the channel it has in its hands: nobody else has   *)
(* it, it is connected to the slot's address, its stop subscription is     *)
(* listening, and if the channel was stopped the event is in its queue.    *)
SlotOwnsChannel ==
  \A s \in Slots : pc[s] \in WithChannel =>
    /\ chan[s] \in Chans
    /\ caddr[chan[s]] = addr[s]
    /\ phase[chan[s]] # "unused"
    /\ pc[s] = "start" => phase[chan[s]] = "new"
    /\ sub[chan[s]]["slot"] =
         IF phase[chan[s]] = "stopped" THEN "signalled" ELSE "live"
    /\ \A t \in Slots : pc[t] \in WithChannel /\ chan[t] = chan[s] => t = s

(* A remover exists only for a channel in use, subscribes once it runs,    *)
(* and leaves its subscription behind only after the channel was stopped.  *)
RemoverFollowsStop ==
  \A c \in Chans :
    /\ remover[c] # "none" => phase[c] # "unused" /\ caddr[c] \in Addrs
    /\ remover[c] \in {"none", "spawned"} => sub[c]["remover"] = "none"
    /\ sub[c]["remover"] \in {"signalled", "dropped"} => phase[c] = "stopped"

(* The slot has its remover spawned only once the handshake is over, so a  *)
(* slot that timed out and dropped its subscription leaves no remover.     *)
RemoverFollowsHandshake ==
  /\ \A s \in Slots : pc[s] \in BeforeRemover => remover[chan[s]] = "none"
  /\ \A c \in Chans :
       phase[c] # "stopped" /\ sub[c]["slot"] = "dropped" => remover[c] = "none"

(* The lock taken by add_pending is a lock: a slot that is connecting,     *)
(* shaking hands or storing a channel has its address in pending, and no   *)
(* two slots are doing so for the same address at the same time.           *)
AddressLocked ==
  \A s \in Slots : pc[s] \in Holding =>
    /\ addr[s] \in pending
    /\ \A t \in Slots : pc[t] \in Holding /\ addr[t] = addr[s] => t = s

(* A slot waiting for its channel to close never misses the stop event:    *)
(* stop_sub is taken before the receive loop is started, so by the time    *)
(* the slot waits on a stopped channel its queue holds the event.          *)
NoLostWakeup ==
  \A s \in Slots :
    pc[s] = "wait" /\ phase[chan[s]] = "stopped" => sub[chan[s]]["slot"] = "signalled"

(* The first stop of a channel reaches everyone who subscribed to it, the  *)
(* slot and the remover, although a slot whose handshake timed out leaves  *)
(* a dropped subscription on the running channel, on which notify panics   *)
(* before the subscribers behind it: no remover is among them, because it  *)
(* is spawned after the handshake (session.rs:62-73, subscriber.rs:69).    *)
FirstStopReachesAll ==
  [][\A c \in Chans : phase[c] # "stopped" /\ phase'[c] = "stopped" =>
       \A w \in Watchers : sub[c][w] = "live" => sub'[c][w] = "signalled"]_outboundVars

(* An entry of P2p.channels is keyed by its channel's address, and its     *)
(* remover has not run yet or is still to be spawned by the slot that      *)
(* stored it: store() overwriting an entry, remove() by another channel    *)
(* and a second stop leave no entry that nobody is going to remove, unless *)
(* the remover subscribed too late.                                        *)
EntryInCharge ==
  \A a \in Addrs : channels[a] # NoChan =>
    /\ caddr[channels[a]] = a
    /\ \/ remover[channels[a]] \in {"spawned", "waiting"}
       \/ \E s \in Slots : pc[s] = "announce" /\ chan[s] = channels[a]

(* From load_single on, a slot has an address in its hands.                *)
AddrKnown ==
  \A s \in Slots : pc[s] \in {"exists", "lock"} \cup Holding \cup WithChannel => addr[s] \in Addrs

(* The inductive invariant behind the properties above.                    *)
OutboundInv ==
  /\ OutboundTypeOK
  /\ AddrKnown
  /\ AddressLocked
  /\ SlotOwnsChannel
  /\ RemoverFollowsStop
  /\ RemoverFollowsHandshake
  /\ EntryInCharge

(* A slot blocked on a channel that has been stopped goes back to dialling.*)
SlotRecovers ==
  \A s \in Slots :
    pc[s] = "wait" /\ phase[chan[s]] = "stopped" ~> pc[s] = "load"

(* A remover that subscribed while its channel was running does its work:  *)
(* once that channel is stopped, by whomever and however often, no entry   *)
(* of P2p.channels has it any more (session.rs:13-26, p2p.rs:101).         *)
ListeningRemoverRemoves ==
  \A c \in Chans :
    [](phase[c] = "running" /\ remover[c] = "waiting" =>
         (phase[c] = "stopped" ~> \A a \in Addrs : channels[a] # c))

(* pending implements a lock per address: what a slot holds and what       *)
(* nobody holds although it is locked follow the steps of AddressLock.     *)
Held == [s \in Slots |-> IF pc[s] \in Holding THEN addr[s] ELSE NoAddr]
Lost == {a \in pending : \A s \in Slots : Held[s] # a}
Lock == INSTANCE AddressLock WITH
          Clients <- Slots, Resources <- Addrs, Nothing <- NoAddr,
          held <- Held, lost <- Lost
ImplementsLock == Lock!Spec

----------------------------------------------------------------------------
(* What the comments say and the code does not do.                         *)

(* outbound_session.rs:137: the address lock is there "to prevent          *)
(* duplicate connections".                                                 *)
NoDuplicateConnection ==
  \A s, t \in Slots :
    /\ pc[s] \in WithChannel /\ phase[chan[s]] = "running"
    /\ pc[t] \in WithChannel /\ phase[chan[t]] = "running"
    /\ addr[s] = addr[t]
    => s = t

(* p2p.rs:14: pending is the "List of channels that are awaiting           *)
(* connection": some slot is working on every address in it.               *)
PendingIsAwaited == \A a \in pending : \E s \in Slots : addr[s] = a /\ pc[s] \in Holding

(* session.rs:11: remove_sub_on_stop "Removes channel from the list of     *)
(* connected channels when a stop signal is received": an entry whose      *)
(* channel was stopped goes away.                                          *)
StoppedIsRemoved ==
  \A c \in Chans :
    (phase[c] = "stopped" /\ \E a \in Addrs : channels[a] = c)
      ~> (\A a \in Addrs : channels[a] # c)

(* session.rs:65: "Channel is now initialized" when it is added to p2p.    *)
StoredIsInitialized ==
  \A a \in Addrs : channels[a] # NoChan => agreed[channels[a]]

(* subscriber.rs:28: unsubscribe "Must be called manually": a running      *)
(* channel has no subscription whose receiver was dropped, on which the    *)
(* next notify() would panic.                                              *)
NoDroppedSubscription == \A c \in Chans : phase[c] = "running" => ~NotifyPanics(c)

(* p2p.rs:100: remove(channel) removes "a channel", that one: an entry     *)
(* that disappears belonged to a channel that was stopped.                 *)
RemovesOnlyStopped ==
  [][\A a \in Addrs : channels[a] # NoChan /\ channels'[a] = NoChan
        => phase[channels[a]] = "stopped"]_outboundVars
============================================================================
