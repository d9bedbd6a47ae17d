------------------------------ MODULE KeepAlive ------------------------------
(***************************************************************************)
(* The ping-pong keep-alive of the two ends of one connection              *)
(* (src/net/protocols/protocol_ping.rs).  Each end runs run_ping_pong (the *)
(* pinger) and reply_to_ping (the replier) over a FIFO link, tcp.  An end  *)
(* that is not "ours" runs other software: it may also send pongs of its   *)
(* own.                                                                    *)
(***************************************************************************)
EXTENDS Naturals, Sequences

CONSTANTS
  Nonces,     \* the 32-bit nonces, drawn at random: they may repeat
  MaxStray    \* bound: a foreign end adds a pong only to fewer unread packets than this

None == "none"
ASSUME NoncesAssumption == None \notin Nonces
ASSUME StrayAssumption == MaxStray \in Nat

VARIABLES
  ours,      \* the ends that run this code
  tcp,       \* "up" or "down"
  wire,      \* the packets on their way to each end
  halted,    \* has the channel of this end been stopped?
  inbox,     \* an end's subscriptions: per kind the nonces queued, if subscribed
  subs,      \* the kinds an end has subscribed to
  pinger, replier,  \* the two tasks of an end
  nonce,     \* the nonce the pinger waits for
  owed       \* the nonce the replier is about to return

pingVars == <<ours, tcp, wire, halted, inbox, subs, pinger, replier, nonce, owed>>

Ends == {"out", "in"}
Peer(x) == IF x = "out" THEN "in" ELSE "out"
Kinds == {"ping", "pong"}
Packets == [kind : Kinds, nonce : Nonces]
Packet(k, n) == [kind |-> k, nonce |-> n]

PingTypeOK ==
  /\ ours \subseteq Ends
  /\ tcp \in {"up", "down"}
  /\ wire \in [Ends -> Seq(Packets)]
  /\ halted \in [Ends -> BOOLEAN]
  /\ inbox \in [Ends -> [Kinds -> Seq(Nonces)]]
  /\ subs \in [Ends -> SUBSET Kinds]
  /\ pinger \in [Ends -> {"new", "sleep", "wait", "ended"}]
  /\ replier \in [Ends -> {"new", "wait", "reply", "ended"}]
  /\ nonce \in [Ends -> Nonces \cup {None}]
  /\ owed \in [Ends -> Nonces \cup {None}]
  /\ \A x \in Ends : replier[x] = "reply" => owed[x] \in Nonces

PingInit ==
  /\ ours \in SUBSET Ends \ {{}}
  /\ tcp = "up"
  /\ wire = [x \in Ends |-> <<>>]
  /\ halted = [x \in Ends |-> FALSE]
  /\ inbox = [x \in Ends |-> [k \in Kinds |-> <<>>]]
  /\ subs = [x \in Ends |-> {}]
  /\ pinger = [x \in Ends |-> "new"]
  /\ replier = [x \in Ends |-> "new"]
  /\ nonce = [x \in Ends |-> None]
  /\ owed = [x \in Ends |-> None]

----------------------------------------------------------------------------
(* The channel of an end.                                                  *)

Sent(x, p) ==
  /\ tcp = "up"
  /\ wire' = [wire EXCEPT ![Peer(x)] = Append(@, p)]
  /\ UNCHANGED halted
NotSent(x) ==
  /\ tcp = "down"
  /\ halted' = [halted EXCEPT ![x] = TRUE]
  /\ UNCHANGED wire

Interrupted(x, k) == halted[x] /\ inbox[x][k] = <<>>

\* The receive loop hands one packet to the task that has subscribed.
Dispatch(x) ==
  /\ ~halted[x] /\ wire[x] # <<>>
  /\ wire' = [wire EXCEPT ![x] = Tail(@)]
  /\ inbox' = IF Head(wire[x]).kind \in subs[x]
                THEN [inbox EXCEPT ![x][Head(wire[x]).kind] = Append(@, Head(wire[x]).nonce)]
                ELSE inbox
  /\ UNCHANGED <<ours, tcp, halted, subs, pinger, replier, nonce, owed>>

ReadBreaks(x) ==
  /\ ~halted[x] /\ tcp = "down"
  /\ halted' = [halted EXCEPT ![x] = TRUE]
  /\ wire' = [wire EXCEPT ![x] = <<>>]
  /\ UNCHANGED <<ours, tcp, inbox, subs, pinger, replier, nonce, owed>>

TcpBreaks ==
  /\ tcp = "up" /\ tcp' = "down"
  /\ UNCHANGED <<ours, wire, halted, inbox, subs, pinger, replier, nonce, owed>>

\* Other software may send a pong that answers nothing.
StrayPong(x) ==
  /\ x \notin ours
  /\ \A y \in Ends : Len(wire[y]) + Len(inbox[y]["pong"]) + Len(inbox[y]["ping"]) < MaxStray
  /\ \E n \in Nonces : Sent(x, Packet("pong", n))
  /\ UNCHANGED <<ours, tcp, inbox, subs, pinger, replier, nonce, owed>>

----------------------------------------------------------------------------
(* run_ping_pong                                                           *)

SubscribePong(x) ==
  /\ pinger[x] = "new"
  /\ subs' = [subs EXCEPT ![x] = @ \cup {"pong"}]
  /\ pinger' = [pinger EXCEPT ![x] = "sleep"]
  /\ UNCHANGED <<ours, tcp, wire, halted, inbox, replier, nonce, owed>>

\* The heartbeat has elapsed.
SendPing(x) ==
  /\ pinger[x] = "sleep"
  /\ \/ \E n \in Nonces :
          /\ Sent(x, Packet("ping", n))
          /\ nonce' = [nonce EXCEPT ![x] = n]
          /\ pinger' = [pinger EXCEPT ![x] = "wait"]
     \/ NotSent(x) /\ pinger' = [pinger EXCEPT ![x] = "ended"] /\ UNCHANGED nonce
  /\ UNCHANGED <<ours, tcp, inbox, subs, replier, owed>>

\* The nonces are compared, and a wrong one stops the channel.
ReceivePong(x) ==
  /\ pinger[x] = "wait" /\ inbox[x]["pong"] # <<>>
  /\ inbox' = [inbox EXCEPT ![x]["pong"] = Tail(@)]
  /\ \/ /\ Head(inbox[x]["pong"]) = nonce[x]
        /\ pinger' = [pinger EXCEPT ![x] = "sleep"]
        /\ UNCHANGED halted
     \/ /\ Head(inbox[x]["pong"]) # nonce[x]
        /\ pinger' = [pinger EXCEPT ![x] = "ended"]
        /\ halted' = [halted EXCEPT ![x] = TRUE]
  /\ nonce' = [nonce EXCEPT ![x] = None]
  /\ UNCHANGED <<ours, tcp, wire, subs, replier, owed>>

----------------------------------------------------------------------------
(* reply_to_ping                                                           *)

SubscribePing(x) ==
  /\ replier[x] = "new"
  /\ subs' = [subs EXCEPT ![x] = @ \cup {"ping"}]
  /\ replier' = [replier EXCEPT ![x] = "wait"]
  /\ UNCHANGED <<ours, tcp, wire, halted, inbox, pinger, nonce, owed>>

ReceivePing(x) ==
  /\ replier[x] = "wait" /\ inbox[x]["ping"] # <<>>
  /\ owed' = [owed EXCEPT ![x] = Head(inbox[x]["ping"])]
  /\ inbox' = [inbox EXCEPT ![x]["ping"] = Tail(@)]
  /\ replier' = [replier EXCEPT ![x] = "reply"]
  /\ UNCHANGED <<ours, tcp, wire, halted, subs, pinger, nonce>>

\* A replier that answers with a nonce of its own choice.
SendFreshPong(x) ==
  /\ replier[x] = "reply"
  /\ \/ \E n \in Nonces : Sent(x, Packet("pong", n)) /\ replier' = [replier EXCEPT ![x] = "wait"]
     \/ NotSent(x) /\ replier' = [replier EXCEPT ![x] = "ended"]
  /\ owed' = [owed EXCEPT ![x] = None]
  /\ UNCHANGED <<ours, tcp, inbox, subs, pinger, nonce>>
\* A replier that does not go back to waiting.
SendLastPong(x) ==
  /\ replier[x] = "reply"
  /\ Sent(x, Packet("pong", owed[x])) \/ NotSent(x)
  /\ replier' = [replier EXCEPT ![x] = "ended"]
  /\ owed' = [owed EXCEPT ![x] = None]
  /\ UNCHANGED <<ours, tcp, inbox, subs, pinger, nonce>>
SendPong(x) ==
  /\ replier[x] = "reply"
  /\ \/ Sent(x, Packet("pong", owed[x])) /\ replier' = [replier EXCEPT ![x] = "wait"]
     \/ NotSent(x) /\ replier' = [replier EXCEPT ![x] = "ended"]
  /\ owed' = [owed EXCEPT ![x] = None]
  /\ UNCHANGED <<ours, tcp, inbox, subs, pinger, nonce>>

\* Errors of a stopped channel, and the jobs manager that cancels both tasks.
PingerEnds(x) ==
  /\ halted[x] /\ pinger[x] # "ended"
  /\ pinger' = [pinger EXCEPT ![x] = "ended"]
  /\ nonce' = [nonce EXCEPT ![x] = None]
  /\ UNCHANGED <<ours, tcp, wire, halted, inbox, subs, replier, owed>>
ReplierEnds(x) ==
  /\ halted[x] /\ replier[x] # "ended"
  /\ replier' = [replier EXCEPT ![x] = "ended"]
  /\ owed' = [owed EXCEPT ![x] = None]
  /\ UNCHANGED <<ours, tcp, wire, halted, inbox, subs, pinger, nonce>>

TaskStep(x) ==
  \/ SubscribePong(x) \/ SendPing(x) \/ ReceivePong(x)
  \/ SubscribePing(x) \/ ReceivePing(x) \/ SendPong(x)

PingNext ==
  \/ TcpBreaks
  \/ \E x \in Ends :
       \/ TaskStep(x) \/ PingerEnds(x) \/ ReplierEnds(x)
       \/ Dispatch(x) \/ ReadBreaks(x) \/ StrayPong(x)

PingSpec == PingInit /\ [][PingNext]_pingVars

\* The tasks are scheduled, the heartbeat elapses, the receive loop reads.
PingFairness ==
  \A x \in Ends :
    /\ WF_pingVars(SubscribePong(x)) /\ WF_pingVars(SendPing(x)) /\ WF_pingVars(ReceivePong(x))
    /\ WF_pingVars(SubscribePing(x)) /\ WF_pingVars(ReceivePing(x)) /\ WF_pingVars(SendPong(x))
    /\ WF_pingVars(Dispatch(x)) /\ WF_pingVars(ReadBreaks(x))

PingFairSpec == PingSpec /\ PingFairness

----------------------------------------------------------------------------
(* What holds.                                                             *)

(* "Wrong nonce for ping reply. Disconnecting": an end that runs this code *)
(* is never disconnected for that reason, however often nonces repeat,     *)
(* tasks subscribe late and packets wait.                                  *)
NoFalseAlarm ==
  \A x \in Ends :
    (pinger[x] = "wait" /\ inbox[x]["pong"] # <<>> /\ Head(inbox[x]["pong"]) # nonce[x])
      => Peer(x) \notin ours

(* Behind it: a ping and the pong that answers it are the only ones of     *)
(* their pinger, in one of five places, with the nonce it waits for.       *)
Has(w, k) == \E i \in DOMAIN w : w[i].kind = k
One(w, k, n) ==
  \A i \in DOMAIN w : w[i].kind = k =>
    w[i].nonce = n /\ \A j \in DOMAIN w : w[j].kind = k => j = i

PingSent(x) == Has(wire[Peer(x)], "ping")
PingQueued(x) == inbox[Peer(x)]["ping"] # <<>>
PongOwed(x) == replier[Peer(x)] = "reply"
PongSent(x) == Has(wire[x], "pong")
PongQueued(x) == inbox[x]["pong"] # <<>>

Quiet(x) == ~PingSent(x) /\ ~PingQueued(x) /\ ~PongOwed(x) /\ ~PongSent(x) /\ ~PongQueued(x)
OnePlace(x) ==
  /\ PingSent(x) => ~PingQueued(x) /\ ~PongOwed(x) /\ ~PongSent(x) /\ ~PongQueued(x)
  /\ PingQueued(x) => ~PongOwed(x) /\ ~PongSent(x) /\ ~PongQueued(x)
  /\ PongOwed(x) => ~PongSent(x) /\ ~PongQueued(x)
  /\ PongSent(x) => ~PongQueued(x)
RightNonce(x) ==
  /\ One(wire[Peer(x)], "ping", nonce[x]) /\ One(wire[x], "pong", nonce[x])
  /\ PingQueued(x) => inbox[Peer(x)]["ping"] = <<nonce[x]>>
  /\ PongQueued(x) => inbox[x]["pong"] = <<nonce[x]>>
  /\ PongOwed(x) => owed[Peer(x)] = nonce[x]

Conversation(x) ==
  /\ pinger[x] \in {"new", "sleep"} => Quiet(x)
  /\ pinger[x] = "wait" => OnePlace(x) /\ RightNonce(x)

PingInv == PingTypeOK /\ \A x \in Ends : Peer(x) \in ours => Conversation(x)

(* A heartbeat that starts when the other end listens goes on: every ping  *)
(* is answered and followed by another, until an end is stopped.           *)
HeartbeatGoesOn ==
  \A x \in Ends :
    []((ours = Ends /\ pinger[x] = "sleep" /\ "ping" \in subs[Peer(x)])
         => ([]<>(pinger[x] = "sleep") \/ <>(tcp = "down")))

----------------------------------------------------------------------------
(* What the docs say and the code does not do.                             *)

(* protocols/mod.rs: pings and pongs "are sent continually between nodes,  *)
(* to ensure each node is still alive and active".                         *)
SentContinually ==
  \A x \in Ends : (ours = Ends) => ([]<>(pinger[x] # "wait") \/ <>(tcp = "down"))
=============================================================================
