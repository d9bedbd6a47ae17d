------------------------------- MODULE Packets -------------------------------
(***************************************************************************)
(* Messages as packets on the byte stream of one connection                *)
(* (src/net/messages.rs, send_message and main_receive_loop of             *)
(* src/net/channel.rs).  Tasks that share a channel take turns at writing: *)
(* the lock of the writer is held for a whole packet, which is several     *)
(* writes with an await at each.  A task may be dropped at any of them, by *)
(* the timer of a handshake or by its jobs manager; write_all may then     *)
(* have written a part of its bytes.  What the task wrote stays in the     *)
(* stream, and the next holder of the lock starts its own packet there.    *)
(*                                                                         *)
(* A partial write is seen by nobody unless the task is dropped or the     *)
(* connection breaks, so a write is one step; for the same reason reading  *)
(* a packet is one step of the only reader.                                *)
(***************************************************************************)
EXTENDS Codec

CONSTANTS
  Tasks,     \* the tasks that send
  Outbox,    \* the messages each of them sends, one after the other
  MaxSent,   \* bound: the number of these messages
  Kept,      \* bound: how many bytes in flight may still arrive when the link breaks
  Free       \* nobody holds the lock

VARIABLES
  todo,       \* the messages each task has still to send
  holder,     \* who holds the lock of the writer
  writes,     \* the writes that holder has still to make
  sent,       \* the messages whose packets were begun, in that order
  wire,       \* the bytes in flight
  link,       \* "up" or "down"
  cuts,       \* how many packets were left unfinished
  reader,     \* "reading", or why the receive loop ended
  delivered   \* the messages handed to the dispatchers

vars == <<todo, holder, writes, sent, wire, link, cuts, reader, delivered>>

----------------------------------------------------------------------------
(* Messages.  A message is [cmd, body]; the body is the nonce of a ping or *)
(* pong as the pair of its halves, the list of an addr, or nothing.        *)

Name == [ping    |-> <<112, 105, 110, 103>>,
         pong    |-> <<112, 111, 110, 103>>,
         addr    |-> <<97, 100, 100, 114>>,
         getaddr |-> <<103, 101, 116, 97, 100, 100, 114>>,
         version |-> <<118, 101, 114, 115, 105, 111, 110>>,
         verack  |-> <<118, 101, 114, 97, 99, 107>>]
Nothing == <<>>

Half == 0..(Base2 - 1)
Message == [cmd : {"ping", "pong"}, body : Half \X Half] \cup [cmd : {"addr"}, body : Seq(Address)]
             \cup [cmd : {"getaddr", "version", "verack"}, body : {Nothing}]

EncodeMessage(m) ==
  CASE m.cmd \in {"ping", "pong"}                 -> Le2(m.body[1]) \o Le2(m.body[2])
    [] m.cmd = "addr"                             -> EncodeAddrs(m.body)
    [] m.cmd \in {"getaddr", "version", "verack"} -> <<>>

ReadNonce(s) ==
  LET r == ReadExact(s, 4)
  IN  IF r.ok THEN Got(<<From2(r.val), From2(<<r.val[3], r.val[4]>>)>>, r.rest) ELSE r
DecodeMessage(cmd, payload) ==
  CASE cmd \in {"ping", "pong"}                 -> ReadNonce(payload)
    [] cmd = "addr"                             -> DecodeAddrs(payload)
    [] cmd \in {"getaddr", "version", "verack"} -> Got(Nothing, payload)

\* MessageSubsystem::notify and MessageDispatcher::trigger: a packet with an
\* unknown command or a payload that does not decode is dropped; what follows
\* the message in the payload is not looked at.
Dispatch(command, payload) ==
  LET cmds == {c \in DOMAIN Name : Name[c] = command}
  IN  {[cmd |-> c, body |-> DecodeMessage(c, payload).val] :
         c \in {d \in cmds : DecodeMessage(d, payload).ok}}

\* A length is a number of eight bytes, which is how the code counts.
IsLength(n) == ((n \div Base2) \div Base2) \div Base2 < Base2
Sendable ==
  {m \in Message : IsLength(Len(m.body)) /\ IsLength(Len(EncodeMessage(m)))}

ASSUME PacketsAssumption ==
  /\ Base = 256
  /\ Free \notin Tasks
  /\ Outbox \in [Tasks -> Seq(Sendable)]
ASSUME LossAssumption == Kept \subseteq Nat
ASSUME BoundAssumption == MaxSent = FoldFunction(LAMBDA box, n : n + Len(box), 0, Outbox)

----------------------------------------------------------------------------
(* Packets.                                                                *)

Magic == <<217, 239, 182, 125>>

\* Mutant: an empty payload has no length either.
WritesSparse(m) ==
  LET payload == EncodeMessage(m)
  IN  <<Magic>> \o VarIntWrites(Len(Name[m.cmd])) \o <<Name[m.cmd]>>
        \o (IF payload = <<>> THEN <<>> ELSE VarIntWrites(Len(payload)) \o <<payload>>)
\* send_packet, write by write; nothing follows the length of an empty payload.
WritesOf(m) ==
  LET payload == EncodeMessage(m)
  IN  <<Magic>> \o VarIntWrites(Len(Name[m.cmd])) \o <<Name[m.cmd]>>
        \o VarIntWrites(Len(payload)) \o (IF payload = <<>> THEN <<>> ELSE <<payload>>)

\* A length and as many bytes.  The code takes the memory first (messages.rs:183,
\* 193) and ends the program if it cannot have it; a length like that, garbled
\* by a cut packet, is here one for which the bytes never suffice.
ReadSized(s) ==
  LET n == DecodeVarIntAsync(s) IN IF n.ok THEN ReadExact(n.rest, n.val) ELSE n

ReadPacket(s) ==
  LET magic == ReadExact(s, 4)
      command == ReadSized(magic.rest)
      payload == ReadSized(command.rest)
  IN  IF ~magic.ok THEN magic
      ELSE IF magic.val # Magic THEN Fail("MalformedPacket")
      ELSE IF ~command.ok THEN command
      ELSE IF ~Utf8(command.val) THEN Fail("Utf8Error")
      ELSE IF ~payload.ok THEN payload
      ELSE Got([command |-> command.val, payload |-> payload.val], payload.rest)

----------------------------------------------------------------------------

Init ==
  /\ todo = Outbox
  /\ holder = Free
  /\ writes = <<>>
  /\ sent = <<>>
  /\ wire = <<>>
  /\ link = "up"
  /\ cuts = 0
  /\ reader = "reading"
  /\ delivered = <<>>

Begin(t) ==
  /\ todo[t] # <<>>
  /\ todo' = [todo EXCEPT ![t] = Tail(@)]
  /\ holder' = t
  /\ writes' = WritesOf(Head(todo[t]))
  /\ sent' = Append(sent, Head(todo[t]))
  /\ UNCHANGED <<wire, link, cuts, reader, delivered>>

\* Mutant: a lock for every write and not for the packet.
BeginUnlocked(t) == holder # t /\ Begin(t)
TakeLock(t) == holder = Free /\ Begin(t)

Write(t) ==
  /\ holder = t /\ link = "up"
  /\ wire' = wire \o Head(writes)
  /\ writes' = Tail(writes)
  /\ holder' = IF Tail(writes) = <<>> THEN Free ELSE t
  /\ UNCHANGED <<todo, sent, link, cuts, reader, delivered>>

\* The send fails, and Channel::send stops the channel; the task ends.
WriteFails(t) ==
  /\ holder = t /\ link = "down"
  /\ holder' = Free /\ writes' = <<>>
  /\ todo' = [todo EXCEPT ![t] = <<>>]
  /\ UNCHANGED <<sent, wire, link, cuts, reader, delivered>>

\* The task is dropped while it waits for the lock or to send its next message.
DropWaiting(t) ==
  /\ holder # t /\ todo[t] # <<>>
  /\ todo' = [todo EXCEPT ![t] = <<>>]
  /\ UNCHANGED <<holder, writes, sent, wire, link, cuts, reader, delivered>>

\* It is dropped in a write_all of which the first n bytes are written; if that
\* is none of the packet, nobody will know of it.
DropWriting(t) ==
  /\ holder = t /\ link = "up"
  /\ \E n \in 0..(Len(Head(writes)) - 1) :
       LET untouched == n = 0 /\ writes = WritesOf(Last(sent))
       IN  /\ wire' = wire \o SubSeq(Head(writes), 1, n)
           /\ sent' = IF untouched THEN Front(sent) ELSE sent
           /\ cuts' = IF untouched THEN cuts ELSE cuts + 1
  /\ holder' = Free /\ writes' = <<>>
  /\ todo' = [todo EXCEPT ![t] = <<>>]
  /\ UNCHANGED <<link, reader, delivered>>

\* The connection breaks; what is in flight may be lost from some byte on.
LinkBreaks ==
  /\ link = "up" /\ link' = "down"
  /\ \E n \in Kept \cup {Len(wire)} : n <= Len(wire) /\ wire' = SubSeq(wire, 1, n)
  /\ UNCHANGED <<todo, holder, writes, sent, cuts, reader, delivered>>

Receive ==
  /\ reader = "reading"
  /\ \E r \in {ReadPacket(wire)} :
       /\ r.ok
       /\ wire' = r.rest
       /\ \E m \in {Dispatch(r.val.command, r.val.payload)} : delivered' = delivered \o SetToSeq(m)
  /\ UNCHANGED <<todo, holder, writes, sent, link, cuts, reader>>

\* Mutant: too few bytes are taken for the end of the stream.
ReceiveImpatient ==
  /\ reader = "reading" /\ ~ReadPacket(wire).ok
  /\ reader' = ReadPacket(wire).why
  /\ UNCHANGED <<todo, holder, writes, sent, wire, link, cuts, delivered>>
\* The loop ends with its first error, and an end of file is one.
ReceiveFails ==
  /\ reader = "reading"
  /\ \E r \in {ReadPacket(wire)} :
       /\ ~r.ok
       /\ r.why = "eof" => link = "down"
       /\ reader' = r.why
  /\ UNCHANGED <<todo, holder, writes, sent, wire, link, cuts, delivered>>

TaskStep(t) == TakeLock(t) \/ Write(t) \/ WriteFails(t)

Next ==
  \/ \E t \in Tasks : TaskStep(t) \/ DropWaiting(t) \/ DropWriting(t)
  \/ LinkBreaks \/ Receive \/ ReceiveFails

Spec == Init /\ [][Next]_vars

\* Tasks are scheduled and the link takes their bytes while it is up.  The
\* fairness of the receive loop is the weak one, written with its guard.
CanReceive ==
  reader = "reading" /\ (link = "down" \/ ReadPacket(wire).ok \/ ReadPacket(wire).why # "eof")

FairSpec ==
  /\ Spec
  /\ []<>~CanReceive \/ []<><<Receive \/ ReceiveFails>>_vars
  /\ \A t \in Tasks : WF_vars(Write(t)) /\ WF_vars(WriteFails(t))

----------------------------------------------------------------------------
(* What holds.                                                             *)

\* As long as no task is dropped inside a packet, the messages that are handed
\* out are those that were sent, in the order in which the lock was taken, and
\* the only error is the end of the stream (messages.rs:170-229).
InOrder ==
  cuts = 0 => IsPrefix(delivered, sent) /\ reader \in {"reading", "eof"}

\* A packet that was cut short makes the reader misread what follows it, for
\* which the payload has no check; but each cut costs at most one message that
\* nobody sent, as the next header is then not where it is read.
OneBadPerCut ==
  Len(SelectSeq(delivered, LAMBDA m : m \notin ToSet(sent))) <= cuts

\* A message for which the lock was taken is handed out in the end, unless the
\* link breaks or a task is dropped while it writes.
SentArrives ==
  \A n \in 1..MaxSent :
    (Len(sent) >= n) ~> (Len(delivered) >= n \/ link = "down" \/ cuts > 0 \/ Len(sent) < n)
=============================================================================
