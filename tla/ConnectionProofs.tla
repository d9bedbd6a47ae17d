-------------------------- MODULE ConnectionProofs --------------------------
(***************************************************************************)
(* What the ends of a connection know of each other, for both protocols    *)
(* the dialling end may run and for messages of any number; and the slots  *)
(* of an outbound session that dial, for any number of slots, addresses    *)
(* and channels.                                                           *)
(*                                                                         *)
(* Agreement alone is not inductive: it breaks if a packet on the wire or  *)
(* in a queue came from nowhere.  Evidence says where packets come from.   *)
(***************************************************************************)
EXTENDS Connection, OutboundSession, TLAPS

LEMMA PeerProperties ==
  /\ \A x \in Ends : Peer(x) \in Ends /\ Peer(Peer(x)) = x /\ Peer(x) # x
  /\ \A x, y \in Ends : y = x \/ y = Peer(x)
BY DEF Peer, Ends

(* The empty wire is a sequence.                                           *)
LEMMA EmptyWire == <<>> \in Seq(Kinds) /\ DOMAIN <<>> = {}
OBVIOUS

LEMMA InitIInv == Init => IInv
<1> SUFFICES ASSUME Init PROVE IInv
  OBVIOUS
<1>1. TypeOK
  BY EmptyWire, SMT DEF Init, TypeOK, Kinds, Handshake
<1>2. Agreement
  BY PeerProperties DEF Init, Agreement
<1>3. Evidence
  BY PeerProperties, EmptyWire DEF Init, Evidence, InFlight, Kinds, Handshake
<1> QED BY <1>1, <1>2, <1>3 DEF IInv

(* What one packet more on a wire changes.                                 *)
LEMMA Appended ==
  ASSUME NEW w \in Seq(Kinds), NEW k \in Kinds
  PROVE  /\ Append(w, k) \in Seq(Kinds)
         /\ \A j \in Kinds : (\E i \in DOMAIN Append(w, k) : Append(w, k)[i] = j)
                               => (j = k \/ \E i \in DOMAIN w : w[i] = j)
<1>1. Append(w, k) \in Seq(Kinds) /\ Len(Append(w, k)) = Len(w) + 1
  OBVIOUS
<1>2. DOMAIN Append(w, k) = 1..(Len(w) + 1) /\ DOMAIN w = 1..Len(w) /\ Len(w) \in Nat
  BY <1>1
<1>3. \A i \in 1..(Len(w) + 1) : Append(w, k)[i] = IF i <= Len(w) THEN w[i] ELSE k
  OBVIOUS
<1> QED BY <1>1, <1>2, <1>3

(* What taking the first packet off a wire changes.                        *)
LEMMA Removed ==
  ASSUME NEW w \in Seq(Kinds), w # <<>>
  PROVE  /\ Tail(w) \in Seq(Kinds) /\ Head(w) \in Kinds
         /\ \E i \in DOMAIN w : w[i] = Head(w)
         /\ \A j \in Kinds : (\E i \in DOMAIN Tail(w) : Tail(w)[i] = j)
                               => \E i \in DOMAIN w : w[i] = j
<1>1. Len(w) \in Nat /\ Len(w) > 0 /\ DOMAIN w = 1..Len(w) /\ Head(w) = w[1]
  OBVIOUS
<1>2. Tail(w) \in Seq(Kinds) /\ Len(Tail(w)) = Len(w) - 1 /\ Head(w) \in Kinds
  BY <1>1
<1>3. DOMAIN Tail(w) = 1..(Len(w) - 1)
  BY <1>1, <1>2
<1>4. \A i \in 1..(Len(w) - 1) : Tail(w)[i] = w[i + 1] /\ i + 1 \in 1..Len(w)
  BY <1>1
<1>5. \A i \in DOMAIN Tail(w) : i + 1 \in DOMAIN w /\ Tail(w)[i] = w[i + 1]
  BY <1>1, <1>3, <1>4
<1>6. 1 \in DOMAIN w
  BY <1>1
<1> QED BY <1>1, <1>2, <1>5, <1>6

----------------------------------------------------------------------------
(* Sending and taking, as the actions use them.                            *)

LEMMA SentEvidence ==
  ASSUME IInv, NEW x \in Ends, NEW k \in Kinds, Sent(x, k), inbox' = inbox
  PROVE  /\ wire' \in [Ends -> Seq(Kinds)]
         /\ \A y \in Ends, j \in Kinds :
              InFlight(y, j)' => InFlight(y, j) \/ (y = Peer(x) /\ j = k)
<1> USE DEF IInv
<1>1. Peer(x) \in Ends /\ wire[Peer(x)] \in Seq(Kinds)
  BY PeerProperties DEF TypeOK
<1>2. wire' = [wire EXCEPT ![Peer(x)] = Append(wire[Peer(x)], k)]
  BY DEF Sent
<1>3. /\ Append(wire[Peer(x)], k) \in Seq(Kinds)
      /\ \A j \in Kinds : (\E i \in DOMAIN Append(wire[Peer(x)], k) : Append(wire[Peer(x)], k)[i] = j)
                            => (j = k \/ \E i \in DOMAIN wire[Peer(x)] : wire[Peer(x)][i] = j)
  BY <1>1, Appended
<1>4. wire' \in [Ends -> Seq(Kinds)]
  BY <1>1, <1>2, <1>3 DEF TypeOK
<1>5. ASSUME NEW y \in Ends, NEW j \in Kinds, InFlight(y, j)'
      PROVE  InFlight(y, j) \/ (y = Peer(x) /\ j = k)
  <2>1. CASE y = Peer(x)
    <3>1. wire'[y] = Append(wire[Peer(x)], k)
      BY <1>1, <1>2, <2>1 DEF TypeOK
    <3> QED BY <1>3, <1>5, <2>1, <3>1 DEF InFlight
  <2>2. CASE y # Peer(x)
    <3>1. wire'[y] = wire[y]
      BY <1>2, <2>2 DEF TypeOK
    <3> QED BY <1>5, <3>1 DEF InFlight
  <2> QED BY <2>1, <2>2
<1> QED BY <1>4, <1>5

LEMMA TakeEvidence ==
  ASSUME IInv, NEW x \in Ends, NEW k \in Kinds, Take(x, k)
  PROVE  /\ inbox' \in [Ends -> [Kinds -> Nat]]
         /\ InFlight(x, k)
         /\ \A y \in Ends, j \in Kinds : inbox'[y][j] > 0 => inbox[y][j] > 0
BY DEF IInv, TypeOK, Take, InFlight

----------------------------------------------------------------------------
(* What every step does to the knowledge of the ends: it takes no sent     *)
(* version and no completed half back, concludes only from what was in     *)
(* flight, and puts in flight only what the sending task has reached.      *)

Honest ==
  \A x \in Ends :
    /\ sender[x] # "send" => sender'[x] # "send"
    /\ receiver[x] = "ok" => receiver'[x] = "ok"
    /\ sender'[x] = "ok" => sender[x] = "ok" \/ InFlight(x, "verack")
    /\ receiver'[x] \in {"ack", "ok"} => receiver[x] \in {"ack", "ok"} \/ InFlight(x, "version")
    /\ InFlight(x, "verack")' => InFlight(x, "verack") \/ receiver'[Peer(x)] = "ok"
    /\ InFlight(x, "version")' => InFlight(x, "version") \/ sender'[Peer(x)] # "send"

LEMMA HonestPreserves ==
  ASSUME IInv, Honest
  PROVE  Agreement' /\ Evidence'
<1> USE PeerProperties DEF IInv, Honest, Agreement, Evidence
<1>1. ASSUME NEW x \in Ends
      PROVE  /\ (sender[x] = "ok" => receiver[Peer(x)] = "ok")'
             /\ (receiver[x] \in {"ack", "ok"} => sender[Peer(x)] # "send")'
  OBVIOUS
<1>2. ASSUME NEW x \in Ends
      PROVE  /\ (InFlight(x, "verack") => receiver[Peer(x)] = "ok")'
             /\ (InFlight(x, "version") => sender[Peer(x)] # "send")'
  OBVIOUS
<1> QED BY <1>1, <1>2

(* A step that leaves wires and queues alone keeps what is in flight.      *)
LEMMA SameFlight ==
  ASSUME wire' = wire, inbox' = inbox
  PROVE  \A y, j : InFlight(y, j)' => InFlight(y, j)
BY DEF InFlight

(* Handing the head of a wire to a queue, or dropping it, adds nothing.    *)
LEMMA DispatchHonest ==
  ASSUME IInv, NEW x \in Ends, Dispatch(x)
  PROVE  /\ Honest
         /\ wire' \in [Ends -> Seq(Kinds)] /\ inbox' \in [Ends -> [Kinds -> Nat]]
<1> USE DEF IInv, TypeOK
<1>1. wire[x] \in Seq(Kinds) /\ wire[x] # <<>>
  BY DEF Dispatch
<1>2. /\ Tail(wire[x]) \in Seq(Kinds) /\ Head(wire[x]) \in Kinds
      /\ \E i \in DOMAIN wire[x] : wire[x][i] = Head(wire[x])
      /\ \A j \in Kinds : (\E i \in DOMAIN Tail(wire[x]) : Tail(wire[x])[i] = j)
                            => \E i \in DOMAIN wire[x] : wire[x][i] = j
  BY <1>1, Removed
<1>3. wire' = [wire EXCEPT ![x] = Tail(wire[x])]
  BY DEF Dispatch
<1>4. /\ inbox' \in [Ends -> [Kinds -> Nat]]
      /\ \A y \in Ends, j \in Kinds :
           inbox'[y][j] > 0 => inbox[y][j] > 0 \/ (y = x /\ j = Head(wire[x]))
  BY <1>2 DEF Dispatch
<1>5. ASSUME NEW y \in Ends, NEW j \in Kinds, InFlight(y, j)'
      PROVE  InFlight(y, j)
  <2>1. CASE y = x
    <3>1. wire'[y] = Tail(wire[x])
      BY <1>3, <2>1
    <3> QED BY <1>2, <1>4, <1>5, <2>1, <3>1 DEF InFlight
  <2>2. CASE y # x
    <3>1. wire'[y] = wire[y]
      BY <1>3, <2>2
    <3> QED BY <1>4, <1>5, <2>2, <3>1 DEF InFlight
  <2> QED BY <2>1, <2>2
<1>6. Honest
  BY <1>5 DEF Honest, Dispatch, Kinds, Handshake
<1>7. wire' \in [Ends -> Seq(Kinds)]
  BY <1>2, <1>3
<1> QED BY <1>4, <1>6, <1>7

(* A reader of the broken link may lose what was on the wire.              *)
LEMMA ReadFailsHonest ==
  ASSUME IInv, NEW x \in Ends, ReadFails(x)
  PROVE  Honest /\ wire' \in [Ends -> Seq(Kinds)]
<1> USE DEF IInv, TypeOK
<1>1. wire' = [wire EXCEPT ![x] = <<>>] /\ inbox' = inbox
  BY DEF ReadFails
<1>2. wire' \in [Ends -> Seq(Kinds)]
  BY <1>1, EmptyWire
<1>3. ASSUME NEW y \in Ends, NEW j \in Kinds, InFlight(y, j)'
      PROVE  InFlight(y, j)
  <2>1. CASE y = x
    <3>1. wire'[y] = <<>>
      BY <1>1, <2>1
    <3> QED BY <1>1, <1>3, <3>1, EmptyWire DEF InFlight
  <2>2. CASE y # x
    <3>1. wire'[y] = wire[y]
      BY <1>1, <2>2
    <3> QED BY <1>1, <1>3, <3>1 DEF InFlight
  <2> QED BY <2>1, <2>2
<1>4. Honest
  BY <1>3 DEF Honest, ReadFails, Kinds, Handshake
<1> QED BY <1>2, <1>4

----------------------------------------------------------------------------
(* Every step is honest and keeps the types.                               *)

LEMMA NextHonest ==
  ASSUME IInv, Next
  PROVE  Honest
<1> USE PeerProperties DEF IInv
<1> DEFINE Flies(x, k, y, j) == InFlight(y, j) \/ (y = Peer(x) /\ j = k)
<1>k. "version" \in Kinds /\ "verack" \in Kinds /\ "addrs" \in Kinds /\ "getaddrs" \in Kinds
  BY DEF Kinds, Handshake
<1>1. CASE LinkBreaks
  BY <1>1, SameFlight DEF LinkBreaks, Honest
<1>2. ASSUME NEW x \in Ends, SendVersion(x) PROVE Honest
  <2>1. CASE Sent(x, "version") /\ sender' = [sender EXCEPT ![x] = "wait"]
    <3>1. \A y \in Ends, j \in Kinds : InFlight(y, j)' => Flies(x, "version", y, j)
      BY <1>2, <1>k, <2>1, SentEvidence DEF SendVersion
    <3>2. receiver' = receiver /\ sender[x] = "send"
      BY <1>2 DEF SendVersion
    <3> QED BY <1>k, <2>1, <3>1, <3>2 DEF Honest, TypeOK
  <2>2. CASE NotSent(x) /\ sender' = [sender EXCEPT ![x] = "err"]
    <3>1. \A y, j : InFlight(y, j)' => InFlight(y, j)
      BY <1>2, <2>2, SameFlight DEF SendVersion, NotSent
    <3> QED BY <1>2, <2>2, <3>1 DEF Honest, TypeOK, SendVersion
  <2> QED BY <1>2, <2>1, <2>2 DEF SendVersion
<1>3. ASSUME NEW x \in Ends, SendVerack(x) PROVE Honest
  <2>1. CASE Sent(x, "verack") /\ receiver' = [receiver EXCEPT ![x] = "ok"]
    <3>1. \A y \in Ends, j \in Kinds : InFlight(y, j)' => Flies(x, "verack", y, j)
      BY <1>3, <1>k, <2>1, SentEvidence DEF SendVerack
    <3>2. sender' = sender /\ receiver[x] = "ack"
      BY <1>3 DEF SendVerack
    <3> QED BY <1>k, <2>1, <3>1, <3>2 DEF Honest, TypeOK
  <2>2. CASE NotSent(x) /\ receiver' = [receiver EXCEPT ![x] = "err"]
    <3>1. \A y, j : InFlight(y, j)' => InFlight(y, j)
      BY <1>3, <2>2, SameFlight DEF SendVerack, NotSent
    <3> QED BY <1>3, <2>2, <3>1 DEF Honest, TypeOK, SendVerack
  <2> QED BY <1>3, <2>1, <2>2 DEF SendVerack
<1>4. ASSUME NEW x \in Ends, RecvVerack(x) PROVE Honest
  <2>0. wire' = wire /\ receiver' = receiver /\ sender[x] = "wait"
    BY <1>4 DEF RecvVerack
  <2>1. CASE Take(x, "verack") /\ sender' = [sender EXCEPT ![x] = "ok"]
    <3>1. /\ InFlight(x, "verack")
          /\ \A y \in Ends, j \in Kinds : inbox'[y][j] > 0 => inbox[y][j] > 0
      BY <1>k, <2>1, TakeEvidence
    <3>2. \A y \in Ends, j \in Kinds : InFlight(y, j)' => InFlight(y, j)
      BY <2>0, <3>1 DEF InFlight
    <3> QED BY <1>k, <2>0, <2>1, <3>1, <3>2 DEF Honest, TypeOK
  <2>2. CASE sender' = [sender EXCEPT ![x] = "err"] /\ UNCHANGED inbox
    <3>1. \A y, j : InFlight(y, j)' => InFlight(y, j)
      BY <2>0, <2>2, SameFlight
    <3> QED BY <2>0, <2>2, <3>1 DEF Honest, TypeOK
  <2> QED BY <1>4, <2>1, <2>2 DEF RecvVerack
<1>5. ASSUME NEW x \in Ends, RecvVersion(x) PROVE Honest
  <2>0. wire' = wire /\ sender' = sender /\ receiver[x] = "wait"
    BY <1>5 DEF RecvVersion
  <2>1. CASE Take(x, "version") /\ receiver' = [receiver EXCEPT ![x] = "ack"]
    <3>1. /\ InFlight(x, "version")
          /\ \A y \in Ends, j \in Kinds : inbox'[y][j] > 0 => inbox[y][j] > 0
      BY <1>k, <2>1, TakeEvidence
    <3>2. \A y \in Ends, j \in Kinds : InFlight(y, j)' => InFlight(y, j)
      BY <2>0, <3>1 DEF InFlight
    <3> QED BY <1>k, <2>0, <2>1, <3>1, <3>2 DEF Honest, TypeOK
  <2>2. CASE receiver' = [receiver EXCEPT ![x] = "err"] /\ UNCHANGED inbox
    <3>1. \A y, j : InFlight(y, j)' => InFlight(y, j)
      BY <2>0, <2>2, SameFlight
    <3> QED BY <2>0, <2>2, <3>1 DEF Honest, TypeOK
  <2> QED BY <1>5, <2>1, <2>2 DEF RecvVersion
<1>6. ASSUME NEW x \in Ends, Timeout(x) \/ QueryTimeout(x) PROVE Honest
  <2>1. \A y, j : InFlight(y, j)' => InFlight(y, j)
    BY <1>6, SameFlight DEF Timeout, QueryTimeout
  <2> QED BY <1>6, <2>1 DEF Honest, TypeOK, Timeout, QueryTimeout, CancelExchange
<1>7. ASSUME NEW x \in Ends,
             ExchangeDone(x) \/ Subscribe(x) \/ SeedFails(x) \/ Finish(x)
      PROVE  Honest
  <2>1. wire' = wire /\ inbox' = inbox /\ sender' = sender /\ receiver' = receiver
    BY <1>7 DEF ExchangeDone, Subscribe, SeedFails, Finish
  <2>2. \A y, j : InFlight(y, j)' => InFlight(y, j)
    BY <2>1, SameFlight
  <2> QED BY <2>1, <2>2 DEF Honest
<1>8. ASSUME NEW x \in Ends, SendSelf(x) \/ Ask(x) PROVE Honest
  <2>0. inbox' = inbox /\ sender' = sender /\ receiver' = receiver
    BY <1>8 DEF SendSelf, Ask
  <2>1. CASE \E k \in {"addrs", "getaddrs"} : Sent(x, k)
    <3>1. PICK k \in {"addrs", "getaddrs"} : Sent(x, k)
      BY <2>1
    <3>2. \A y \in Ends, j \in Kinds : InFlight(y, j)' => Flies(x, k, y, j)
      BY <1>k, <2>0, <3>1, SentEvidence
    <3> QED BY <1>k, <2>0, <3>2 DEF Honest
  <2>2. CASE wire' = wire
    <3>1. \A y, j : InFlight(y, j)' => InFlight(y, j)
      BY <2>0, <2>2, SameFlight
    <3> QED BY <2>0, <3>1 DEF Honest
  <2> QED BY <1>8, <2>1, <2>2 DEF SendSelf, Ask, NotSent
<1>9. ASSUME NEW x \in Ends, Learn(x) PROVE Honest
  <2>0. wire' = wire /\ sender' = sender /\ receiver' = receiver /\ Take(x, "addrs")
    BY <1>9 DEF Learn
  <2>1. \A y \in Ends, j \in Kinds : inbox'[y][j] > 0 => inbox[y][j] > 0
    BY <1>k, <2>0, TakeEvidence
  <2>2. \A y \in Ends, j \in Kinds : InFlight(y, j)' => InFlight(y, j)
    BY <2>0, <2>1 DEF InFlight
  <2> QED BY <1>k, <2>0, <2>2 DEF Honest
<1>10. ASSUME NEW x \in Ends, Answer(x) PROVE Honest
  <2>0. sender' = sender /\ receiver' = receiver /\ Take(x, "getaddrs")
    BY <1>10 DEF Answer
  <2>1. \A y \in Ends, j \in Kinds : inbox'[y][j] > 0 => inbox[y][j] > 0
    BY <1>k, <2>0, TakeEvidence
  <2>2. ASSUME NEW y \in Ends, NEW j \in {"version", "verack"}, InFlight(y, j)'
        PROVE  InFlight(y, j)
    <3>1. CASE wire' = wire
      BY <1>k, <2>1, <2>2, <3>1 DEF InFlight
    <3>2. CASE Sent(x, "addrs")
      <4>1. wire[Peer(x)] \in Seq(Kinds)
        BY DEF TypeOK
      <4>2. \A i \in Kinds : (\E n \in DOMAIN Append(wire[Peer(x)], "addrs") :
                                 Append(wire[Peer(x)], "addrs")[n] = i)
                               => (i = "addrs" \/ \E n \in DOMAIN wire[Peer(x)] : wire[Peer(x)][n] = i)
        BY <1>k, <4>1, Appended
      <4>3. wire'[y] = IF y = Peer(x) THEN Append(wire[Peer(x)], "addrs") ELSE wire[y]
        BY <3>2 DEF Sent, TypeOK
      <4> QED BY <1>k, <2>1, <2>2, <4>2, <4>3 DEF InFlight
    <3> QED BY <1>10, <3>1, <3>2 DEF Answer, NotSent
  <2> QED BY <2>0, <2>2 DEF Honest
<1>11. ASSUME NEW x \in Ends, Dispatch(x) PROVE Honest
  BY <1>11, DispatchHonest
<1>12. ASSUME NEW x \in Ends, ReadFails(x) PROVE Honest
  BY <1>12, ReadFailsHonest
<1> QED
  BY <1>1, <1>2, <1>3, <1>4, <1>5, <1>6, <1>7, <1>8, <1>9, <1>10, <1>11, <1>12
  DEF Next, TaskStep

LEMMA NextTypeOK ==
  ASSUME IInv, Next
  PROVE  TypeOK'
<1> USE PeerProperties DEF IInv, TypeOK
<1>k. "version" \in Kinds /\ "verack" \in Kinds /\ "addrs" \in Kinds /\ "getaddrs" \in Kinds
  BY DEF Kinds, Handshake
<1>s. ASSUME NEW x \in Ends, NEW k \in Kinds, Sent(x, k)
      PROVE  wire' \in [Ends -> Seq(Kinds)] /\ stopped' \in [Ends -> BOOLEAN]
  <2>1. Append(wire[Peer(x)], k) \in Seq(Kinds)
    BY <1>s, Appended
  <2> QED BY <1>s, <2>1 DEF Sent
<1>n. ASSUME NEW x \in Ends, NotSent(x)
      PROVE  wire' \in [Ends -> Seq(Kinds)] /\ stopped' \in [Ends -> BOOLEAN]
  BY <1>n DEF NotSent
<1>t. ASSUME NEW x \in Ends, NEW k \in Kinds, Take(x, k)
      PROVE  inbox' \in [Ends -> [Kinds -> Nat]]
  BY <1>t, TakeEvidence
<1>1. CASE LinkBreaks
  BY <1>1 DEF LinkBreaks
<1>2. ASSUME NEW x \in Ends, SendVersion(x) PROVE TypeOK'
  BY <1>2, <1>k, <1>s, <1>n DEF SendVersion
<1>3. ASSUME NEW x \in Ends, SendVerack(x) PROVE TypeOK'
  BY <1>3, <1>k, <1>s, <1>n DEF SendVerack
<1>4. ASSUME NEW x \in Ends, RecvVerack(x) PROVE TypeOK'
  <2>1. UNCHANGED <<link, wire, subs, stopped, receiver, stage, learned, seeding>>
    BY <1>4 DEF RecvVerack
  <2>2. CASE Take(x, "verack") /\ sender' = [sender EXCEPT ![x] = "ok"]
    <3>1. inbox' \in [Ends -> [Kinds -> Nat]]
      BY <1>k, <1>t, <2>2
    <3> QED BY <2>1, <2>2, <3>1
  <2>3. CASE sender' = [sender EXCEPT ![x] = "err"] /\ UNCHANGED inbox
    BY <2>1, <2>3
  <2> QED BY <1>4, <2>2, <2>3 DEF RecvVerack
<1>5. ASSUME NEW x \in Ends, RecvVersion(x) PROVE TypeOK'
  <2>1. UNCHANGED <<link, wire, subs, stopped, sender, stage, learned, seeding>>
    BY <1>5 DEF RecvVersion
  <2>2. CASE Take(x, "version") /\ receiver' = [receiver EXCEPT ![x] = "ack"]
    <3>1. inbox' \in [Ends -> [Kinds -> Nat]]
      BY <1>k, <1>t, <2>2
    <3> QED BY <2>1, <2>2, <3>1
  <2>3. CASE receiver' = [receiver EXCEPT ![x] = "err"] /\ UNCHANGED inbox
    BY <2>1, <2>3
  <2> QED BY <1>5, <2>2, <2>3 DEF RecvVersion
<1>6. ASSUME NEW x \in Ends, Timeout(x) \/ QueryTimeout(x) PROVE TypeOK'
  <2>1. /\ \E l \in {"closed", "dropped"} : stage' = [stage EXCEPT ![x] = l]
        /\ UNCHANGED <<link, wire, inbox, subs, stopped, learned, seeding>>
    BY <1>6, Zenon DEF Timeout, QueryTimeout
  <2>2. CancelExchange(x)
    BY <1>6, Zenon DEF Timeout, QueryTimeout
  <2>3. sender' \in [Ends -> {"send", "wait", "ok", "err", "cancelled"}]
    BY <2>2 DEF CancelExchange
  <2>4. receiver' \in [Ends -> {"wait", "ack", "ok", "err", "cancelled"}]
    BY <2>2 DEF CancelExchange
  <2>5. stage' \in [Ends -> {"handshake", "registered", "listening", "subscribed", "introduced",
                             "serving", "finishing", "closed", "dropped"}]
    BY <2>1
  <2> QED BY <2>1, <2>3, <2>4, <2>5
<1>7. ASSUME NEW x \in Ends, ExchangeDone(x) \/ SeedFails(x) \/ Finish(x) PROVE TypeOK'
  <2>1. /\ \E l \in {"registered", "closed"} : stage' = [stage EXCEPT ![x] = l]
        /\ stopped' = stopped \/ stopped' = [stopped EXCEPT ![x] = TRUE]
        /\ UNCHANGED <<link, wire, inbox, subs, sender, receiver, learned, seeding>>
    BY <1>7, Zenon DEF ExchangeDone, SeedFails, Finish
  <2>2. stage' \in [Ends -> {"handshake", "registered", "listening", "subscribed", "introduced",
                             "serving", "finishing", "closed", "dropped"}]
    BY <2>1
  <2>3. stopped' \in [Ends -> BOOLEAN]
    <3>1. CASE stopped' = stopped
      BY <3>1
    <3>2. CASE stopped' = [stopped EXCEPT ![x] = TRUE]
      BY <3>2
    <3> QED BY <2>1, <3>1, <3>2
  <2> QED BY <2>1, <2>2, <2>3
<1>8. ASSUME NEW x \in Ends, Subscribe(x) PROVE TypeOK'
  <2>1. /\ \E k \in Kinds : subs' = [subs EXCEPT ![x] = subs[x] \cup {k}]
        /\ stage' = [stage EXCEPT ![x] = "subscribed"] \/ stage' = [stage EXCEPT ![x] = "listening"]
        /\ UNCHANGED <<link, wire, inbox, stopped, sender, receiver, learned, seeding>>
    <3>1. CASE stage[x] = "registered"
      BY <1>8, <1>k, <3>1 DEF Subscribe
    <3>2. CASE stage[x] = "listening"
      BY <1>8, <1>k, <3>2 DEF Subscribe
    <3> QED BY <1>8, <3>1, <3>2 DEF Subscribe
  <2>2. \A k \in Kinds : subs[x] \cup {k} \in SUBSET Kinds
    OBVIOUS
  <2>3. subs' \in [Ends -> SUBSET Kinds]
    BY <2>1, <2>2
  <2> QED BY <2>1, <2>3
<1>9. ASSUME NEW x \in Ends, SendSelf(x) PROVE TypeOK'
  BY <1>9, <1>k, <1>s, <1>n DEF SendSelf
<1>10. ASSUME NEW x \in Ends, Ask(x) PROVE TypeOK'
  BY <1>10, <1>k, <1>s, <1>n DEF Ask
<1>11. ASSUME NEW x \in Ends, Answer(x) PROVE TypeOK'
  BY <1>11, <1>k, <1>s, <1>n, <1>t DEF Answer
<1>12. ASSUME NEW x \in Ends, Learn(x) PROVE TypeOK'
  <2>1. inbox' \in [Ends -> [Kinds -> Nat]]
    BY <1>12, <1>k, <1>t DEF Learn
  <2>2. learned' \in [Ends -> BOOLEAN]
    <3>1. learned' = [learned EXCEPT ![x] = TRUE]
      BY <1>12 DEF Learn
    <3> QED BY <3>1
  <2>3. stage' \in [Ends -> {"handshake", "registered", "listening", "subscribed", "introduced",
                             "serving", "finishing", "closed", "dropped"}]
    <3>1. stage' = [stage EXCEPT ![x] = IF Seeds(x) THEN "finishing" ELSE stage[x]]
      BY <1>12 DEF Learn
    <3> QED BY <3>1
  <2>4. UNCHANGED <<link, wire, subs, stopped, sender, receiver, seeding>>
    BY <1>12 DEF Learn
  <2> QED BY <2>1, <2>2, <2>3, <2>4
<1>13. ASSUME NEW x \in Ends, Dispatch(x) PROVE TypeOK'
  <2>1. wire' \in [Ends -> Seq(Kinds)] /\ inbox' \in [Ends -> [Kinds -> Nat]]
    BY <1>13, DispatchHonest
  <2> QED BY <1>13, <2>1 DEF Dispatch
<1>14. ASSUME NEW x \in Ends, ReadFails(x) PROVE TypeOK'
  <2>1. wire' \in [Ends -> Seq(Kinds)]
    BY <1>14, ReadFailsHonest
  <2> QED BY <1>14, <2>1 DEF ReadFails
<1> QED
  BY <1>1, <1>2, <1>3, <1>4, <1>5, <1>6, <1>7, <1>8, <1>9, <1>10, <1>11, <1>12, <1>13, <1>14
  DEF Next, TaskStep

----------------------------------------------------------------------------

(* The inductive invariant holds in every reachable state, whichever       *)
(* protocol the dialling end runs (protocol_version.rs, run and below).    *)
THEOREM InductiveInvariant == Spec => []IInv
<1>1. Init => IInv
  BY InitIInv
<1>2. IInv /\ [Next]_vars => IInv'
  <2> SUFFICES ASSUME IInv, [Next]_vars PROVE IInv'
    OBVIOUS
  <2>1. CASE Next
    BY <2>1, NextHonest, NextTypeOK, HonestPreserves DEF IInv
  <2>2. CASE UNCHANGED vars
    BY <2>2 DEF vars, IInv, TypeOK, Agreement, Evidence, InFlight
  <2> QED BY <2>1, <2>2
<1> QED BY <1>1, <1>2, PTL DEF Spec

(* A sender that got its acknowledgement faces a receiver that completed,  *)
(* and a receiver that saw a version a sender that sent it, whatever timed *)
(* out or was cancelled in between (protocol_version.rs, exchange_versions)*)
THEOREM AgreementAlways == Spec => []Agreement
<1>1. IInv => Agreement
  BY DEF IInv
<1> QED BY <1>1, InductiveInvariant, PTL

----------------------------------------------------------------------------
(* The connect slots that dial: OutboundInv holds initially and every      *)
(* action keeps it; what the runs check follows from it.  No action can    *)
(* touch the slot's stop subscription before its channel is stopped, and   *)
(* the first stop of a channel finds no dropped receiver while a slot has  *)
(* the channel in its hands, so notify reaches everybody.                  *)

USE SentinelAssumption, ConfigAssumption

LEMMA InitOutboundInv == OutboundInit => OutboundInv
<1> SUFFICES ASSUME OutboundInit PROVE OutboundInv
  OBVIOUS
<1>1. OutboundTypeOK
  BY DEF OutboundInit, OutboundTypeOK, Labels, Watchers, SubStates
<1>2. AddrKnown /\ AddressLocked /\ SlotOwnsChannel
  BY DEF OutboundInit, AddrKnown, AddressLocked, SlotOwnsChannel, Holding, WithChannel
<1>3. RemoverFollowsStop /\ RemoverFollowsHandshake
  BY DEF OutboundInit, RemoverFollowsStop, RemoverFollowsHandshake, BeforeRemover, Watchers
<1>4. EntryInCharge
  <2>1. channels = [a \in Addrs |-> NoChan]
    BY ONLY OutboundInit, ZenonT(40) DEF OutboundInit
  <2> QED BY <2>1, Zenon DEF EntryInCharge
<1> QED BY <1>1, <1>2, <1>3, <1>4 DEF OutboundInv

(* The inductive step, one case per action. *)
LEMMA NextOutboundInv == OutboundInv /\ [OutboundNext]_outboundVars => OutboundInv'
<1> SUFFICES ASSUME OutboundInv, [OutboundNext]_outboundVars PROVE OutboundInv'
  OBVIOUS
<1> USE DEF OutboundInv, OutboundTypeOK, AddrKnown, AddressLocked, SlotOwnsChannel, RemoverFollowsStop,
            RemoverFollowsHandshake, BeforeRemover, EntryInCharge, Labels, Holding, WithChannel,
            Watchers, SubStates, Goto,
            p2pVars, slotVars, chanVars
<1>1. ASSUME NEW s \in Slots, LoadSingle(s) PROVE OutboundInv'
  BY <1>1 DEF LoadSingle
<1>2. ASSUME NEW s \in Slots, CheckExists(s) PROVE OutboundInv'
  BY <1>2 DEF CheckExists
<1>3. ASSUME NEW s \in Slots, AddPending(s) PROVE OutboundInv'
  BY <1>3 DEF AddPending, PendingInsert
<1>4. ASSUME NEW s \in Slots, ConnectFail(s) PROVE OutboundInv'
  BY <1>4 DEF ConnectFail
<1>5. ASSUME NEW s \in Slots, StartChannel(s) PROVE OutboundInv'
  BY <1>5 DEF StartChannel
<1>6. ASSUME NEW s \in Slots, HandshakeOk(s) PROVE OutboundInv'
  BY <1>6 DEF HandshakeOk
<1>7. ASSUME NEW s \in Slots, HandshakeError(s) PROVE OutboundInv'
  BY <1>7 DEF HandshakeError
<1>8. ASSUME NEW s \in Slots, HandshakeTimeout(s) PROVE OutboundInv'
  BY <1>8 DEF HandshakeTimeout, SetSub
<1>9. ASSUME NEW s \in Slots, Store(s) PROVE OutboundInv'
  BY <1>9 DEF Store
<1>10. ASSUME NEW s \in Slots, RemovePending(s) PROVE OutboundInv'
  BY <1>10 DEF RemovePending
<1>11. ASSUME NEW s \in Slots, AttachProtocols(s) PROVE OutboundInv'
  BY <1>11 DEF AttachProtocols
<1>12. ASSUME NEW s \in Slots, AttachSendFails(s) PROVE OutboundInv'
  BY <1>12 DEF AttachSendFails, StopChannel, Notify, Reached, Signal, Listening, NotifyPanics
<1>13. ASSUME NEW s \in Slots, AttachPanics(s) PROVE OutboundInv'
  BY <1>13 DEF AttachPanics, Reached, Signal, Listening, NotifyPanics
<1>14. ASSUME NEW s \in Slots, WaitStop(s) PROVE OutboundInv'
  BY <1>14 DEF WaitStop, SetSub
<1>15. ASSUME NEW s \in Slots, NEW c \in Chans, ConnectOk(s, c) PROVE OutboundInv'
  BY <1>15 DEF ConnectOk, SetSub
<1>16. ASSUME NEW c \in Chans, RemoverSubscribe(c) PROVE OutboundInv'
  BY <1>16 DEF RemoverSubscribe, SetSub
<1>17. ASSUME NEW c \in Chans, RemoverRemove(c) PROVE OutboundInv'
  BY <1>17 DEF RemoverRemove, SetSub, P2pRemove
<1>18. ASSUME NEW c \in Chans, ChannelStop(c) PROVE OutboundInv'
  BY <1>18 DEF ChannelStop, StopChannel, Notify, Reached, Signal, Listening, NotifyPanics
<1>19. ASSUME NEW a \in Addrs, LearnHost(a) PROVE OutboundInv'
  BY <1>19 DEF LearnHost
<1>20. ASSUME NEW s \in Slots, SpawnRemover(s) PROVE OutboundInv'
  BY <1>20 DEF SpawnRemover
<1>21. CASE UNCHANGED outboundVars
  BY <1>21 DEF outboundVars
<1> QED
  BY ONLY [OutboundNext]_outboundVars, <1>1, <1>2, <1>3, <1>4, <1>5, <1>6, <1>7, <1>8, <1>9, <1>10,
     <1>11, <1>12, <1>13, <1>14, <1>15, <1>16, <1>17, <1>18, <1>19, <1>20, <1>21
     DEF OutboundNext, LocalStep, PeerStep, RemoverStep

(* The inductive invariant holds throughout: tables are typed, locks are   *)
(* held by one slot, and slots own the channels they work on.              *)
THEOREM OutboundInductive == OutboundSpec => []OutboundInv
BY InitOutboundInv, NextOutboundInv, PTL DEF OutboundSpec

(* pending is a lock: two slots never dial, shake hands or store for the   *)
(* same address at once (P2p::add_pending, load_address).                  *)
THEOREM LockSafety == OutboundSpec => []AddressLocked
<1>1. OutboundInv => AddressLocked
  BY DEF OutboundInv
<1> QED
  BY <1>1, OutboundInductive, PTL

(* A slot that waits on a stopped channel has the stop event in its queue  *)
(* (channel_connect_loop subscribes before register_channel).              *)
THEOREM WakeupSafety == OutboundSpec => []NoLostWakeup
<1>1. OutboundInv => NoLostWakeup
  BY DEF OutboundInv, NoLostWakeup, SlotOwnsChannel, WithChannel
<1> QED
  BY <1>1, OutboundInductive, PTL

(* Only a handshake that timed out leaves a dropped subscription on a      *)
(* running channel, and such a channel has no remover: notify reaches      *)
(* every live subscription the first time (Channel::stop, session.rs).     *)
LEMMA FirstStop ==
  ASSUME OutboundInv, NEW c \in Chans, StopChannel(c), phase[c] # "stopped",
         NEW w \in Watchers, sub[c][w] = "live"
  PROVE  sub'[c][w] = "signalled"
<1> USE DEF OutboundInv, OutboundTypeOK
<1>1. ~NotifyPanics(c) \/ Listening(c) = {}
  <2>1. sub[c]["remover"] # "dropped"
    BY DEF RemoverFollowsStop
  <2>2. CASE sub[c]["slot"] = "dropped"
    <3>1. remover[c] = "none"
      BY <2>2 DEF RemoverFollowsHandshake
    <3>2. sub[c]["remover"] = "none"
      BY <3>1 DEF RemoverFollowsStop
    <3> QED BY <2>2, <3>2 DEF Listening, Watchers
  <2>3. CASE sub[c]["slot"] # "dropped"
    BY <2>1, <2>3 DEF NotifyPanics, Watchers
  <2> QED BY <2>2, <2>3
<1>2. w \in Listening(c)
  BY DEF Listening
<1>3. Reached(c) = {Listening(c)}
  BY <1>1, <1>2 DEF Reached
<1> QED BY <1>2, <1>3 DEF StopChannel, Notify, Signal

(* The first stop of a channel leaves nobody who subscribed without it     *)
(* (Subscriber::notify, Session::perform_handshake_protocols).             *)
THEOREM FirstStopSafety == OutboundSpec => FirstStopReachesAll
<1> DEFINE Reaches == \A c \in Chans : phase[c] # "stopped" /\ phase'[c] = "stopped" =>
                        \A w \in Watchers : sub[c][w] = "live" => sub'[c][w] = "signalled"
<1>1. OutboundInv /\ [OutboundNext]_outboundVars => [Reaches]_outboundVars
  <2> SUFFICES ASSUME OutboundInv, OutboundNext,
                      NEW c \in Chans, phase[c] # "stopped", phase'[c] = "stopped",
                      NEW w \in Watchers, sub[c][w] = "live"
               PROVE  sub'[c][w] = "signalled"
    OBVIOUS
  <2> USE DEF OutboundInv, OutboundTypeOK, p2pVars, slotVars, chanVars
  <2>1. ASSUME NEW s \in Slots, AttachPanics(s) PROVE FALSE
    <3>1. chan[s] = c
      BY <2>1 DEF AttachPanics
    <3>2. sub[c]["slot"] = "live" /\ sub[c]["remover"] # "dropped"
      BY <2>1, <3>1 DEF AttachPanics, SlotOwnsChannel, WithChannel, RemoverFollowsStop
    <3> QED BY <2>1, <3>1, <3>2 DEF AttachPanics, NotifyPanics, Watchers
  <2>2. ASSUME NEW s \in Slots, AttachSendFails(s) PROVE StopChannel(c)
    <3>1. chan[s] = c
      BY <2>2 DEF AttachSendFails, StopChannel
    <3> QED BY <2>2, <3>1 DEF AttachSendFails
  <2>3. ASSUME NEW d \in Chans, ChannelStop(d) PROVE StopChannel(c)
    <3>1. d = c
      BY <2>3 DEF ChannelStop, StopChannel
    <3> QED BY <2>3, <3>1 DEF ChannelStop
  <2>4. ASSUME NEW s \in Slots,
               \/ LoadSingle(s) \/ CheckExists(s) \/ AddPending(s) \/ ConnectFail(s)
               \/ StartChannel(s) \/ HandshakeError(s) \/ HandshakeTimeout(s) \/ Store(s)
               \/ SpawnRemover(s) \/ RemovePending(s) \/ AttachProtocols(s) \/ WaitStop(s)
               \/ PeerStep(s)
        PROVE  FALSE
    BY <2>4 DEF LoadSingle, CheckExists, AddPending, ConnectFail, StartChannel, HandshakeError,
                HandshakeTimeout, Store, SpawnRemover, RemovePending, AttachProtocols, WaitStop,
                PeerStep, HandshakeOk, ConnectOk
  <2>5. ASSUME NEW d \in Chans, RemoverStep(d) PROVE FALSE
    BY <2>5 DEF RemoverStep, RemoverSubscribe, RemoverRemove
  <2>6. ASSUME NEW a \in Addrs, LearnHost(a) PROVE FALSE
    BY <2>6 DEF LearnHost
  <2>7. StopChannel(c)
    BY <2>1, <2>2, <2>3, <2>4, <2>5, <2>6 DEF OutboundNext, LocalStep
  <2> QED BY <2>7, FirstStop
<1> QED BY <1>1, OutboundInductive, PTL DEF OutboundSpec, FirstStopReachesAll

----------------------------------------------------------------------------
(* The pending table implements AddressLock.                               *)

LEMMA InitLock == OutboundInit => Lock!Init
BY DEF OutboundInit, Lock!Init, Held, Lost, Holding

(* Only four kinds of step change what is held or lost: add_pending takes  *)
(* the lock, remove_pending gives it back, a failed connect and a timed    *)
(* out handshake walk away from it.                                        *)
LEMMA NextLock == OutboundInv /\ OutboundInv' /\ [OutboundNext]_outboundVars => [Lock!Next]_<<Held, Lost>>
<1> SUFFICES ASSUME OutboundInv, OutboundInv', [OutboundNext]_outboundVars PROVE [Lock!Next]_<<Held, Lost>>
  OBVIOUS
<1> USE DEF OutboundInv, OutboundTypeOK, AddrKnown, AddressLocked, Labels, Holding, WithChannel, Goto,
            p2pVars, slotVars, chanVars
<1>1. ASSUME NEW s \in Slots, AddPending(s) PROVE [Lock!Next]_<<Held, Lost>>
  <2>1. CASE PendingInsert(addr[s])
    <3>1. Held' = [Held EXCEPT ![s] = addr[s]]
      BY <1>1, <2>1 DEF AddPending, Held
    <3>2. Lost' = Lost
      BY <1>1, <2>1, <3>1 DEF AddPending, PendingInsert, Held, Lost
    <3>3. Lock!Acquire(s, addr[s])
      BY <1>1, <2>1, <3>1, <3>2 DEF AddPending, PendingInsert, Lock!Acquire, Held, Lost
    <3> QED
      BY <1>1, <3>3 DEF AddPending, Lock!Next
  <2>2. CASE ~PendingInsert(addr[s])
    BY <1>1, <2>2 DEF AddPending, PendingInsert, Held, Lost
  <2> QED
    BY <2>1, <2>2
<1>2. ASSUME NEW s \in Slots, RemovePending(s) PROVE [Lock!Next]_<<Held, Lost>>
  <2>1. Held' = [Held EXCEPT ![s] = NoAddr]
    BY <1>2 DEF RemovePending, Held
  <2>2. Lost' = Lost
    BY <1>2, <2>1 DEF RemovePending, Held, Lost
  <2>3. Lock!Release(s)
    BY <1>2, <2>1, <2>2 DEF RemovePending, Lock!Release, Held
  <2> QED
    BY <2>3 DEF Lock!Next
<1>3. ASSUME NEW s \in Slots, ConnectFail(s) \/ HandshakeTimeout(s)
      PROVE  [Lock!Next]_<<Held, Lost>>
  <2>1. /\ pc[s] \in Holding /\ addr' = addr
       /\ \E l \in {"load", "closed"} : pc' = [pc EXCEPT ![s] = l]
    BY <1>3 DEF ConnectFail, HandshakeTimeout
  <2>2. Held' = [Held EXCEPT ![s] = NoAddr] /\ Held[s] = addr[s]
    BY <2>1 DEF Held
  <2>3. Lost' = Lost \cup {Held[s]}
    <3>1. addr[s] \in pending /\ pending' = pending
      BY <1>3 DEF ConnectFail, HandshakeTimeout
    <3>2. addr[s] # NoAddr /\ \A t \in Slots \ {s} : Held[t] # addr[s]
      BY <1>3 DEF ConnectFail, HandshakeTimeout, Held
    <3>3. \A t \in Slots : Held'[t] = IF t = s THEN NoAddr ELSE Held[t]
      BY <2>2 DEF Held
    <3> QED
      BY <2>2, <3>1, <3>2, <3>3 DEF Lost
  <2>4. Lock!Abandon(s)
    BY <1>3, <2>2, <2>3 DEF ConnectFail, HandshakeTimeout, Lock!Abandon
  <2> QED
    BY <2>4 DEF Lock!Next
<1>4. ASSUME Held' = Held, pending' = pending PROVE [Lock!Next]_<<Held, Lost>>
  BY <1>4 DEF Lost
<1>5. ASSUME NEW s \in Slots,
             \/ LoadSingle(s) \/ CheckExists(s) \/ StartChannel(s) \/ HandshakeOk(s)
             \/ HandshakeError(s) \/ Store(s) \/ SpawnRemover(s) \/ AttachProtocols(s)
             \/ AttachSendFails(s) \/ AttachPanics(s) \/ WaitStop(s) \/ \E c \in Chans : ConnectOk(s, c)
      PROVE  Held' = Held /\ pending' = pending
  BY <1>5 DEF Held, LoadSingle, CheckExists, StartChannel, HandshakeOk, HandshakeError, Store, SpawnRemover,
              AttachProtocols, AttachSendFails, AttachPanics, WaitStop, ConnectOk
<1>6. ASSUME \/ \E c \in Chans : RemoverStep(c) \/ ChannelStop(c)
             \/ \E a \in Addrs : LearnHost(a)
             \/ UNCHANGED outboundVars
      PROVE  Held' = Held /\ pending' = pending
  BY <1>6 DEF Held, RemoverStep, RemoverSubscribe, RemoverRemove, ChannelStop, LearnHost, outboundVars
<1> QED
  BY <1>1, <1>2, <1>3, <1>4, <1>5, <1>6 DEF OutboundNext, LocalStep, PeerStep

(* The pending table is an implementation of the abstract lock: no slot    *)
(* takes an address another slot holds or one that was walked away from.   *)
THEOREM PendingImplementsLock == OutboundSpec => ImplementsLock
BY InitLock, NextLock, OutboundInductive, PTL DEF OutboundSpec, ImplementsLock, Lock!Spec

=============================================================================
