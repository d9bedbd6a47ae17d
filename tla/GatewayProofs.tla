---------------------------- MODULE GatewayProofs ----------------------------
(***************************************************************************)
(* Every client of the gateway receives replies to its own messages, for   *)
(* any clients, workers and messages.  The argument: each message that was *)
(* sent, or the reply to it, is in exactly one place (a queue of the       *)
(* client, the pipe of a worker, its socket, the way back, or received),   *)
(* so there is a function from message numbers to places, and every step   *)
(* moves some of these places by one.  As every place with something of    *)
(* the client in it is that of one of its messages, nothing is answered    *)
(* twice.  A client that waits has at most one message that is not in the  *)
(* last kind of place, so its replies are in order.                        *)
(***************************************************************************)
EXTENDS Gateway, CodecProofs

Frames == Seq(Seq(Byte))
Reply(q) == EncodeReply(ReplyFrom(q, 0, Text))

----------------------------------------------------------------------------
(* Requests and replies.                                                   *)

\* The fields of a result.
LEMMA Fields == \A v, rest : Got(v, rest).ok /\ Got(v, rest).val = v /\ Got(v, rest).rest = rest
BY DEF Got

\* The id of a request that decodes has four bytes.
LEMMA RequestId ==
  ASSUME NEW s \in Seq(Byte), Whole(DecodeRequest(s)).ok
  PROVE  Whole(DecodeRequest(s)).val.id \in 0..(Base4 - 1)
<1> DEFINE c == ReadU8(s)  i == ReadU32(c.rest)  p == DecodeBytes(i.rest)
           q == [command |-> c.val, id |-> i.val, payload |-> p.val]
           d == DecodeRequest(s)
<1>1. d = IF ~c.ok THEN c ELSE IF ~i.ok THEN i ELSE IF ~p.ok THEN p ELSE Got(q, p.rest)
  BY DEF DecodeRequest
<1>2. d.ok /\ Whole(d) = d
  BY DEF Whole, Fail
<1>3. c.ok => s # <<>> /\ c = Got(s[1], Tail(s))
  BY DEF ReadU8, Fail
<1>4. q.id = i.val
  OBVIOUS
<1> HIDE DEF p, q, d
<1>5. c.ok /\ i.ok /\ d = Got(q, p.rest)
  BY <1>1, <1>2, Zenon
<1> HIDE DEF c
<1>6. c.rest = Tail(s) /\ Tail(s) \in Seq(Byte)
  <2>1. c = Got(s[1], Tail(s)) /\ s # <<>>
    BY <1>3, <1>5
  <2> QED BY <2>1, FirstByte DEF Got
<1>7. i = ReadU32(Tail(s))
  BY <1>6
<1> HIDE DEF i
<1>8. PICK v \in 0..(Base4 - 1), rest \in Seq(Byte) : i = Got(v, rest)
  BY <1>5, <1>6, <1>7, NumbersRead
<1>9. i.val = v
  BY <1>8, Fields, Zenon
<1>10. d.val = q
  BY <1>5, Fields, Zenon
<1>11. Whole(d).val.id = v
  BY <1>2, <1>4, <1>9, <1>10, Zenon
<1> QED BY <1>11 DEF d

(* A reply decodes to what was encoded, with nothing left over             *)
(* (reqrep.rs: Reply::encode and Reply::decode).                           *)
THEOREM ReplyRoundTrip ==
  ASSUME NEW id \in 0..(Base4 - 1), NEW error \in 0..(Base4 - 1),
         NEW payload \in Seq(Byte), Len(payload) < Base8
  PROVE  LET r == [id |-> id, error |-> error, payload |-> payload]
         IN  EncodeReply(r) \in Seq(Byte) /\ Whole(DecodeReply(EncodeReply(r))) = Got(r, <<>>)
<1> DEFINE r == [id |-> id, error |-> error, payload |-> payload]
           b == EncodeBytes(payload)
           s == EncodeReply(r)
<1>1. id \in Nat /\ error \in Nat /\ Rem(id, Base4) = id /\ Rem(error, Base4) = error
  BY Bases, SmallRem
<1>2. Le4(id) \in Seq(Byte) /\ Le4(error) \in Seq(Byte)
  BY <1>1, LeTypes
<1>3. <<>> \in Seq(Byte) /\ b \in Seq(Byte) /\ b \o <<>> = b
  BY BytesRoundTrip
<1>4. DecodeBytes(b) = Got(payload, <<>>)
  BY <1>3, BytesRoundTrip
<1>5. Le4(error) \o b \in Seq(Byte)
  BY <1>2, <1>3, Concat
<1> HIDE DEF b
<1>6. s = Le4(id) \o (Le4(error) \o b) /\ s \in Seq(Byte)
  <2>1. r.id = id /\ r.error = error /\ r.payload = payload
    OBVIOUS
  <2>2. s = (Le4(id) \o Le4(error)) \o b
    BY <2>1, Zenon DEF EncodeReply, b
  <2>3. (Le4(id) \o Le4(error)) \o b = Le4(id) \o (Le4(error) \o b)
    BY <1>2, <1>3, Assoc
  <2> QED BY <1>2, <1>5, <2>2, <2>3, Concat
<1>7. ReadU32(s) = Got(id, Le4(error) \o b)
  BY <1>1, <1>5, <1>6, ReadNumbers
<1>8. ReadU32(Le4(error) \o b) = Got(error, b)
  BY <1>1, <1>3, ReadNumbers
<1> DEFINE i == ReadU32(s)  e == ReadU32(i.rest)  p == DecodeBytes(e.rest)
<1>9. DecodeReply(s) =
         IF ~i.ok THEN i ELSE IF ~e.ok THEN e ELSE IF ~p.ok THEN p
         ELSE Got([id |-> i.val, error |-> e.val, payload |-> p.val], p.rest)
  BY DEF DecodeReply
<1> HIDE DEF s, p, e, i
<1>10. i.ok /\ i.val = id /\ i.rest = Le4(error) \o b
  <2>1. i = Got(id, Le4(error) \o b)
    BY <1>7 DEF i
  <2> QED BY <2>1 DEF Got
<1>11. e.ok /\ e.val = error /\ e.rest = b
  <2>1. e = Got(error, b)
    BY <1>8, <1>10 DEF e
  <2> QED BY <2>1 DEF Got
<1>12. p.ok /\ p.val = payload /\ p.rest = <<>>
  <2>1. p = Got(payload, <<>>)
    BY <1>4, <1>11 DEF p
  <2> QED BY <2>1 DEF Got
<1>13. DecodeReply(s) = Got(r, <<>>)
  BY <1>9, <1>10, <1>11, <1>12
<1>14. Whole(Got(r, <<>>)) = Got(r, <<>>)
  BY DEF Whole, Got
<1>15. s \in Seq(Byte) /\ Whole(DecodeReply(s)) = Got(r, <<>>)
  BY <1>6, <1>13, <1>14, Zenon
<1> QED BY <1>15 DEF s

\* The answer to a message whose frames decode is a message that answers it.
LEMMA HandleAnswers ==
  ASSUME NEW frames \in Frames,
         \A f \in DOMAIN frames : Whole(DecodeRequest(frames[f])).ok
  PROVE  LET reply == [f \in DOMAIN frames |-> Reply(Whole(DecodeRequest(frames[f])).val)]
         IN  reply \in Frames /\ Answers(reply, frames)
<1> DEFINE q(f) == Whole(DecodeRequest(frames[f]))
           reply == [f \in DOMAIN frames |-> Reply(q(f).val)]
<1>1. Text \in Seq(Byte) /\ Len(Text) < Base8 /\ 0 \in 0..(Base4 - 1)
  <2>1. Len(Text) = 4
    BY DEF Text
  <2>2. Base2 > 3 /\ Base4 > 3 /\ Base8 > 4
    <3>1. Base2 > 3
      BY Bases
    <3>2. Base4 > Base2
      BY Bases, <3>1
    <3>3. Base8 > Base4
      BY Bases, <3>1, <3>2
    <3> QED BY <3>1, <3>2, <3>3, Bases
  <2> QED BY <2>1, <2>2, FrameAssumption, Bases
<1>2. ASSUME NEW f \in DOMAIN frames
      PROVE  /\ reply[f] \in Seq(Byte)
             /\ Whole(DecodeReply(reply[f])).ok /\ q(f).ok
             /\ Whole(DecodeReply(reply[f])).val.id = q(f).val.id
             /\ Whole(DecodeReply(reply[f])).val.error = 0
  <2>1. frames[f] \in Seq(Byte)
    BY DEF Frames
  <2>2. q(f).ok /\ q(f).val.id \in 0..(Base4 - 1)
    BY <2>1, RequestId
  <2> DEFINE id == q(f).val.id  r == [id |-> id, error |-> 0, payload |-> Text]
  <2>3. reply[f] = EncodeReply(r)
    BY DEF Reply, ReplyFrom
  <2>4. EncodeReply(r) \in Seq(Byte) /\ Whole(DecodeReply(EncodeReply(r))) = Got(r, <<>>)
    BY <1>1, <2>2, ReplyRoundTrip
  <2>5. r.id = id /\ r.error = 0
    OBVIOUS
  <2> DEFINE w == Whole(DecodeReply(reply[f]))
  <2>6. w = Got(r, <<>>) /\ reply[f] \in Seq(Byte)
    BY <2>3, <2>4
  <2> HIDE DEF r, reply, w
  <2>7. w.ok /\ w.val = r
    BY <2>6 DEF Got
  <2> QED BY <2>2, <2>5, <2>6, <2>7 DEF w
<1>3. DOMAIN frames = 1..Len(frames) /\ Len(frames) \in Nat /\ DOMAIN reply = DOMAIN frames
  BY DEF Frames
<1>4. reply \in Frames /\ Len(reply) = Len(frames)
  <2>1. reply \in [1..Len(frames) -> Seq(Byte)]
    BY <1>2, <1>3
  <2> DEFINE n == Len(frames)
  <2> HIDE DEF reply, n
  <2>2. n \in Nat /\ reply \in [1..n -> Seq(Byte)]
    BY <1>3, <2>1 DEF n
  <2>3. reply \in Seq(Seq(Byte)) /\ Len(reply) = n
    BY <2>2
  <2> QED BY <2>3 DEF n, Frames
<1> HIDE DEF reply
<1>5. Answers(reply, frames)
  BY <1>2, <1>3, <1>4 DEF Answers
<1> QED BY <1>4, <1>5 DEF reply

----------------------------------------------------------------------------
(* The invariant.                                                          *)

Requests == [from : Clients, frames : Frames]
Replies == [to : Clients, frames : Frames]

TypeOK ==
  /\ asked \in [Clients -> Nat] /\ \A c \in Clients : asked[c] <= Len(Script[c])
  /\ got \in [Clients -> Seq(Frames)]
  /\ front \in [Clients -> Seq(Frames)]
  /\ pipe \in [Workers -> Seq(Requests)]
  /\ owed \in [Workers -> Requests \cup {None}]
  /\ handling \in [Workers -> Seq(Frames)]
  /\ queue \in [Workers -> Seq(Frames)]
  /\ back \in [Workers -> Seq(Replies)]

\* A worker that owes no reply has nothing to do; one that does is handling that
\* message, or has its answer, or lost it to a panic.
WorkingAt(w) ==
  \/ owed[w] = None /\ handling[w] = <<>> /\ queue[w] = <<>>
  \/ owed[w] # None /\ handling[w] = <<owed[w].frames>> /\ queue[w] = <<>>
  \/ owed[w] # None /\ handling[w] = <<>> /\ queue[w] = <<>>
  \/ /\ owed[w] # None /\ handling[w] = <<>>
     /\ \E reply \in Frames : queue[w] = <<reply>> /\ Answers(reply, owed[w].frames)
Working == \A w \in Workers : WorkingAt(w)

\* Where a message or its reply can be: in which queue, whose, and how far.
Place == {"front", "pipe", "owed", "back", "got"} \X (Clients \cup Workers) \X (Nat \ {0})

\* Something of client c is there.
Holds(c, p) ==
  \/ p[1] = "front" /\ p[2] = c /\ p[3] <= Len(front[c])
  \/ p[1] = "pipe" /\ p[2] \in Workers /\ p[3] <= Len(pipe[p[2]]) /\ pipe[p[2]][p[3]].from = c
  \/ p[1] = "owed" /\ p[2] \in Workers /\ p[3] = 1 /\ owed[p[2]].from = c
  \/ p[1] = "back" /\ p[2] \in Workers /\ p[3] <= Len(back[p[2]]) /\ back[p[2]][p[3]].to = c
  \/ p[1] = "got" /\ p[2] = c /\ p[3] <= Len(got[c])

\* It can be the n-th message of client c, or its reply.
Fits(c, n, p) ==
  /\ Holds(c, p)
  /\ p[1] = "front" => front[c][p[3]] = Script[c][n]
  /\ p[1] = "pipe" => pipe[p[2]][p[3]].frames = Script[c][n]
  /\ p[1] = "owed" => owed[p[2]].frames = Script[c][n]
  /\ p[1] = "back" => Answers(back[p[2]][p[3]].frames, Script[c][n])
  /\ p[1] = "got" => Answers(got[c][p[3]], Script[c][n])

\* Each message that was sent is in one place, and what is in a place is one of
\* them.
Assigned(c, at) ==
  /\ at \in [1..asked[c] -> Place]
  /\ \A n \in 1..asked[c] : Fits(c, n, at[n])
  /\ \A p \in Place : Holds(c, p) => \E n \in 1..asked[c] : at[n] = p

\* A client that waits for its replies has at most one of them to come.
Ordered(c, at) ==
  c \in Patient =>
    /\ asked[c] <= Len(got[c]) + 1
    /\ \A i \in 1..Len(got[c]) : i <= asked[c] /\ at[i] = <<"got", c, i>>

TrackedFor(c) == \E at : Assigned(c, at) /\ Ordered(c, at)
Tracked == \A c \in Clients : TrackedFor(c)

IInv == TypeOK /\ Working /\ Tracked

\* The first element of a sequence, and the others.
LEMMA HeadTail ==
  ASSUME NEW S, NEW s \in Seq(S), s # <<>>
  PROVE  /\ Head(s) = s[1] /\ Head(s) \in S /\ Tail(s) \in Seq(S)
         /\ Len(s) \in Nat \ {0} /\ Len(Tail(s)) = Len(s) - 1
         /\ \A i \in 1..(Len(s) - 1) : Tail(s)[i] = s[i + 1]
BY HeadTailProperties

----------------------------------------------------------------------------
(* Types and workers.                                                      *)

\* A task takes the only message its worker has, and leaves the answer or, after
\* a panic, nothing.
LEMMA HandleEffect ==
  ASSUME TypeOK, NEW w \in Workers, WorkingAt(w), Handle(w)
  PROVE  /\ owed[w] \in Requests /\ owed[w] # None /\ queue[w] = <<>>
         /\ handling[w] = <<owed[w].frames>> /\ handling' = [handling EXCEPT ![w] = <<>>]
         /\ \/ UNCHANGED queue
            \/ \E reply \in Frames : /\ Answers(reply, owed[w].frames)
                                     /\ queue' = [queue EXCEPT ![w] = <<reply>>]
         /\ UNCHANGED <<asked, got, front, pipe, owed, back>>
<1> DEFINE decoded(i) == [f \in DOMAIN handling[w][i] |-> Whole(DecodeRequest(handling[w][i][f]))]
           answer(i) == [f \in DOMAIN decoded(i) |-> EncodeReply(ReplyFrom(decoded(i)[f].val, 0, Text))]
<1>1. PICK i \in DOMAIN handling[w] :
        /\ Done(w, i)
        /\ \/ UNCHANGED queue
           \/ /\ \A f \in DOMAIN decoded(i) : decoded(i)[f].ok
              /\ queue' = [queue EXCEPT ![w] = Append(@, answer(i))]
  BY DEF Handle
<1>2. handling[w] = <<owed[w].frames>> /\ queue[w] = <<>> /\ owed[w] # None
  <2>1. handling[w] # <<>>
    BY <1>1
  <2> QED BY <2>1 DEF WorkingAt
<1>3. owed[w] \in Requests
  BY <1>2 DEF TypeOK
<1> DEFINE frames == owed[w].frames
           reply == [f \in DOMAIN frames |-> Reply(Whole(DecodeRequest(frames[f])).val)]
<1>4. frames \in Frames
  BY <1>3 DEF Requests
<1>5. i = 1 /\ handling[w][i] = frames
  BY <1>1, <1>2
<1>6. handling' = [handling EXCEPT ![w] = <<>>]
  <2>1. RemoveAt(handling[w], 1) = <<>>
    <3>1. SubSeq(<<frames>>, 1, 0) = <<>> /\ SubSeq(<<frames>>, 2, 1) = <<>> /\ Len(<<frames>>) = 1
      OBVIOUS
    <3> QED BY <1>2, <3>1 DEF RemoveAt
  <2> QED BY <1>1, <1>5, <2>1 DEF Done
<1>7. ASSUME \A f \in DOMAIN decoded(i) : decoded(i)[f].ok,
             queue' = [queue EXCEPT ![w] = Append(@, answer(i))]
      PROVE  /\ reply \in Frames /\ Answers(reply, frames)
             /\ queue' = [queue EXCEPT ![w] = <<reply>>]
  <2>1. \A f \in DOMAIN frames : Whole(DecodeRequest(frames[f])).ok
    BY <1>5, <1>7
  <2>2. reply \in Frames /\ Answers(reply, frames)
    BY <1>4, <2>1, HandleAnswers
  <2>3. answer(i) = reply
    BY <1>5 DEF Reply
  <2>4. Append(<<>>, reply) = <<reply>>
    OBVIOUS
  <2> HIDE DEF answer, reply
  <2> QED BY <1>2, <1>7, <2>2, <2>3, <2>4
<1>8. UNCHANGED <<asked, got, front, pipe, owed, back>>
  BY DEF Handle
<1> HIDE DEF reply
<1> QED BY <1>1, <1>2, <1>3, <1>6, <1>7, <1>8

LEMMA TypeStep ==
  ASSUME TypeOK, Working, [Next]_vars
  PROVE  TypeOK'
<1> USE DEF TypeOK
<1>1. ASSUME NEW c \in Clients, ClientSends(c) PROVE TypeOK'
  <2>1. asked[c] + 1 \in 1..Len(Script[c]) /\ Script[c] \in Seq(Frames)
    BY <1>1, FrameAssumption DEF ClientSends, Frames
  <2>2. Script[c][asked[c] + 1] \in Frames
    BY <2>1
  <2> QED BY <1>1, <2>1, <2>2 DEF ClientSends
<1>2. ASSUME Poll PROVE TypeOK'
  BY <1>2 DEF Poll
<1>3. ASSUME ForwardRequest PROVE TypeOK'
  <2>1. PICK c \in Clients, w \in Workers :
          /\ front[c] # <<>>
          /\ pipe' = [pipe EXCEPT ![w] = Append(@, [from |-> c, frames |-> Head(front[c])])]
          /\ front' = [front EXCEPT ![c] = Tail(@)]
    BY <1>3 DEF ForwardRequest
  <2>2. Head(front[c]) \in Frames /\ Tail(front[c]) \in Seq(Frames)
    BY <2>1, HeadTail
  <2>3. [from |-> c, frames |-> Head(front[c])] \in Requests
    BY <2>2 DEF Requests
  <2>4. UNCHANGED <<asked, got, owed, handling, queue, back>>
    BY <1>3 DEF ForwardRequest
  <2> QED BY <2>1, <2>2, <2>3, <2>4
<1>4. ASSUME ForwardReply PROVE TypeOK'
  <2>1. PICK w \in Workers :
          /\ back[w] # <<>>
          /\ got' = [got EXCEPT ![Head(back[w]).to] = Append(@, Head(back[w]).frames)]
          /\ back' = [back EXCEPT ![w] = Tail(@)]
    BY <1>4 DEF ForwardReply
  <2>2. /\ Head(back[w]) \in Replies
        /\ Tail(back[w]) \in Seq(Replies)
    BY <2>1, HeadTail
  <2>3. Head(back[w]).to \in Clients /\ Head(back[w]).frames \in Frames
    BY <2>2 DEF Replies
  <2>4. UNCHANGED <<asked, front, pipe, owed, handling, queue>>
    BY <1>4 DEF ForwardReply
  <2> QED BY <2>1, <2>2, <2>3, <2>4
<1>5. ASSUME NEW w \in Workers, Receive(w) PROVE TypeOK'
  <2>1. /\ Head(pipe[w]) \in Requests
        /\ Tail(pipe[w]) \in Seq(Requests)
    BY <1>5, HeadTail DEF Receive, Take
  <2>2. Head(pipe[w]).frames \in Frames
    BY <2>1 DEF Requests
  <2> QED BY <1>5, <2>1, <2>2 DEF Receive, Take
<1>6. ASSUME NEW w \in Workers, Handle(w) PROVE TypeOK'
  <2>1. WorkingAt(w)
    BY DEF Working
  <2>2. /\ handling' = [handling EXCEPT ![w] = <<>>]
        /\ UNCHANGED queue \/ \E reply \in Frames : queue' = [queue EXCEPT ![w] = <<reply>>]
        /\ UNCHANGED <<asked, got, front, pipe, owed, back>>
    BY <1>6, <2>1, HandleEffect
  <2>3. <<>> \in Seq(Frames) /\ \A reply \in Frames : <<reply>> \in Seq(Frames)
    OBVIOUS
  <2> QED BY <2>2, <2>3
<1>7. ASSUME NEW w \in Workers, Send(w) PROVE TypeOK'
  <2>1. Head(queue[w]) \in Frames /\ Tail(queue[w]) \in Seq(Frames)
    BY <1>7, HeadTail DEF Send
  <2>2. owed[w].from \in Clients
    BY <1>7 DEF Send, Requests
  <2>3. [to |-> owed[w].from, frames |-> Head(queue[w])] \in Replies
    BY <2>1, <2>2 DEF Replies
  <2> QED BY <1>7, <2>1, <2>3 DEF Send
<1>8. ASSUME UNCHANGED vars PROVE TypeOK'
  BY <1>8 DEF vars
<1> QED BY <1>1, <1>2, <1>3, <1>4, <1>5, <1>6, <1>7, <1>8 DEF Next

LEMMA WorkingStep ==
  ASSUME TypeOK, Working, [Next]_vars
  PROVE  Working'
<1>1. ASSUME UNCHANGED <<owed, handling, queue>> PROVE Working'
  BY <1>1 DEF Working, WorkingAt
<1>2. ASSUME NEW w \in Workers, Receive(w) PROVE Working'
  <2>1. owed[w] = None /\ handling[w] = <<>> /\ queue[w] = <<>>
    BY <1>2 DEF Receive, Working, WorkingAt
  <2>2. Head(pipe[w]) \in Requests
    BY <1>2, HeadTail DEF Receive, Take, TypeOK
  <2>3. Head(pipe[w]) # None
    BY <2>2, GatewayAssumption DEF Requests, None
  <2>4. Append(<<>>, Head(pipe[w]).frames) = <<Head(pipe[w]).frames>>
    OBVIOUS
  <2>5. /\ owed' = [owed EXCEPT ![w] = Head(pipe[w])]
        /\ handling' = [handling EXCEPT ![w] = <<Head(pipe[w]).frames>>]
        /\ UNCHANGED queue
    BY <1>2, <2>1, <2>4 DEF Receive, Take
  <2>6. WorkingAt(w)'
    BY <2>1, <2>3, <2>5 DEF WorkingAt, TypeOK
  <2>7. ASSUME NEW v \in Workers, v # w PROVE WorkingAt(v)'
    BY <2>5, <2>7 DEF Working, WorkingAt, TypeOK
  <2> QED BY <2>6, <2>7 DEF Working
<1>3. ASSUME NEW w \in Workers, Handle(w) PROVE Working'
  <2>1. WorkingAt(w)
    BY DEF Working
  <2>2. /\ owed[w] # None /\ queue[w] = <<>> /\ handling' = [handling EXCEPT ![w] = <<>>]
        /\ \/ UNCHANGED queue
           \/ \E reply \in Frames : /\ Answers(reply, owed[w].frames)
                                    /\ queue' = [queue EXCEPT ![w] = <<reply>>]
        /\ UNCHANGED owed
    BY <1>3, <2>1, HandleEffect
  <2>3. WorkingAt(w)'
    BY <2>2 DEF WorkingAt, TypeOK
  <2>4. ASSUME NEW v \in Workers, v # w PROVE WorkingAt(v)'
    BY <2>2, <2>4 DEF Working, WorkingAt, TypeOK
  <2> QED BY <2>3, <2>4 DEF Working
<1>4. ASSUME NEW w \in Workers, Send(w) PROVE Working'
  <2>1. PICK reply \in Frames : queue[w] = <<reply>> /\ handling[w] = <<>>
    BY <1>4 DEF Send, Working, WorkingAt
  <2>2. Tail(<<reply>>) = <<>>
    OBVIOUS
  <2>3. /\ owed' = [owed EXCEPT ![w] = None] /\ queue' = [queue EXCEPT ![w] = <<>>]
        /\ UNCHANGED handling
    BY <1>4, <2>1, <2>2 DEF Send
  <2>4. WorkingAt(w)'
    BY <2>1, <2>3 DEF WorkingAt, TypeOK
  <2>5. ASSUME NEW v \in Workers, v # w PROVE WorkingAt(v)'
    BY <2>3, <2>5 DEF Working, WorkingAt, TypeOK
  <2> QED BY <2>4, <2>5 DEF Working
<1> QED
  BY <1>1, <1>2, <1>3, <1>4 DEF Next, vars, ClientSends, Poll, ForwardRequest, ForwardReply

----------------------------------------------------------------------------
(* Messages move from place to place.                                      *)

\* If what fits a place fits the place it moves to, and there is nothing but what
\* moved there, every message is still in one place.
LEMMA Moved ==
  ASSUME NEW c \in Clients, NEW at, Assigned(c, at), NEW m \in [Place -> Place],
         UNCHANGED asked,
         \A n \in 1..asked[c], p \in Place : Fits(c, n, p) => Fits(c, n, m[p])',
         \A p \in Place : Holds(c, p)' => \E q \in Place : Holds(c, q) /\ m[q] = p
  PROVE  Assigned(c, [n \in 1..asked[c] |-> m[at[n]]])'
<1> DEFINE next == [n \in 1..asked[c] |-> m[at[n]]]
<1>1. at \in [1..asked[c] -> Place] /\ asked' = asked
  BY DEF Assigned
<1>2. next \in [1..asked[c] -> Place]
  BY <1>1
<1>3. ASSUME NEW n \in 1..asked[c] PROVE Fits(c, n, next[n])'
  BY <1>1 DEF Assigned
<1>4. ASSUME NEW p \in Place, Holds(c, p)' PROVE \E n \in 1..asked[c] : next[n] = p
  <2>1. PICK q \in Place : Holds(c, q) /\ m[q] = p
    BY <1>4
  <2>2. PICK n \in 1..asked[c] : at[n] = q
    BY <2>1 DEF Assigned
  <2> QED BY <2>1, <2>2
<1>5. next' = next
  BY <1>1
<1> HIDE DEF next
<1>6. Assigned(c, next)'
  BY <1>1, <1>2, <1>3, <1>4, <1>5 DEF Assigned
<1> QED BY <1>6 DEF next

\* If no reply arrives, the order is that of before.
LEMMA MovedInOrder ==
  ASSUME NEW m \in [Place -> Place], Tracked, UNCHANGED <<asked, got>>,
         \A c \in Clients : \A n \in 1..asked[c], p \in Place : Fits(c, n, p) => Fits(c, n, m[p])',
         \A c \in Clients : \A p \in Place :
           Holds(c, p)' => \E q \in Place : Holds(c, q) /\ m[q] = p,
         \A p \in Place : p[1] = "got" => m[p] = p
  PROVE  Tracked'
<1> SUFFICES ASSUME NEW c \in Clients PROVE TrackedFor(c)'
  BY DEF Tracked
<1>1. PICK at : Assigned(c, at) /\ Ordered(c, at)
  BY DEF Tracked, TrackedFor
<1> DEFINE next == [n \in 1..asked[c] |-> m[at[n]]]
<1>2. Assigned(c, next)'
  BY <1>1, Moved
<1>3. Ordered(c, next)'
  <2> SUFFICES ASSUME c \in Patient
               PROVE  /\ asked[c] <= Len(got[c]) + 1
                      /\ \A i \in 1..Len(got[c]) : i <= asked[c] /\ next[i] = <<"got", c, i>>
    BY DEF Ordered
  <2>1. ASSUME NEW i \in 1..Len(got[c]) PROVE i <= asked[c] /\ next[i] = <<"got", c, i>>
    <3>1. i <= asked[c] /\ at[i] = <<"got", c, i>>
      BY <1>1 DEF Ordered
    <3>2. i \in 1..asked[c] /\ at[i] \in Place
      BY <1>1, <3>1 DEF Assigned
    <3> QED BY <3>1, <3>2
  <2> QED BY <1>1, <2>1 DEF Ordered
<1> HIDE DEF next
<1> QED BY <1>2, <1>3 DEF TrackedFor

\* A message goes to the end of its client's queue, and gets the next number.
LEMMA TrackedSends ==
  ASSUME TypeOK, Tracked, NEW c \in Clients, ClientSends(c)
  PROVE  Tracked'
<1>0. PICK k, f, new : k = asked[c] + 1 /\ f = Len(front[c]) + 1 /\ new = <<"front", c, f>>
  OBVIOUS
<1>1. /\ asked' = [asked EXCEPT ![c] = k]
      /\ front' = [front EXCEPT ![c] = Append(@, Script[c][k])]
      /\ UNCHANGED <<got, pipe, owed, back>>
      /\ c \in Patient => Len(got[c]) = asked[c]
  BY <1>0 DEF ClientSends
<1>2. /\ asked[c] \in Nat /\ front[c] \in Seq(Frames) /\ Len(front[c]) \in Nat
      /\ Len(got[c]) \in Nat /\ Script[c][k] \in Frames
      /\ k \in Nat /\ k = asked[c] + 1
  <2>1. k \in 1..Len(Script[c]) /\ Script[c] \in Seq(Frames)
    BY <1>0, FrameAssumption DEF ClientSends, TypeOK, Frames
  <2> QED BY <1>0, <2>1 DEF TypeOK
<1>3. /\ Len(front'[c]) = f /\ front'[c][f] = Script[c][k] /\ f \in Nat \ {0}
      /\ \A i \in 1..Len(front[c]) : front'[c][i] = front[c][i]
  <2>1. front'[c] = Append(front[c], Script[c][k])
    BY <1>1 DEF TypeOK
  <2> QED BY <1>0, <1>2, <2>1, AppendProperties
<1>4. new \in Place /\ new[1] = "front" /\ new[2] = c /\ new[3] = f
  BY <1>0, <1>3 DEF Place
<1>5. ASSUME NEW d \in Clients, d # c PROVE TrackedFor(d)'
  <2>1. /\ asked'[d] = asked[d] /\ front'[d] = front[d]
        /\ got' = got /\ pipe' = pipe /\ owed' = owed /\ back' = back
    BY <1>1, <1>5 DEF TypeOK
  <2>2. PICK at : Assigned(d, at) /\ Ordered(d, at)
    BY DEF Tracked, TrackedFor
  <2>3. ASSUME NEW p PROVE Holds(d, p)' <=> Holds(d, p)
    BY <2>1 DEF Holds
  <2>4. ASSUME NEW n, NEW p PROVE Fits(d, n, p)' <=> Fits(d, n, p)
    BY <2>1, <2>3 DEF Fits
  <2>5. Assigned(d, at)' /\ Ordered(d, at)'
    BY <2>1, <2>2, <2>3, <2>4 DEF Assigned, Ordered
  <2> QED BY <2>5 DEF TrackedFor
<1>6. TrackedFor(c)'
  <2>1. PICK at : Assigned(c, at) /\ Ordered(c, at)
    BY DEF Tracked, TrackedFor
  <2>0. PICK next : next = [n \in 1..k |-> IF n = k THEN new ELSE at[n]]
    OBVIOUS
  <2>2. next \in [1..k -> Place] /\ asked'[c] = k
    BY <1>1, <1>2, <1>4, <2>0, <2>1 DEF Assigned, TypeOK
  <2>3. ASSUME NEW p \in Place, Holds(c, p), NEW n \in 1..asked[c], Fits(c, n, p)
        PROVE  Fits(c, n, p)'
    BY <1>1, <1>2, <1>3, <2>3 DEF Fits, Holds, Place
  <2>4. Fits(c, k, new)'
    BY <1>2, <1>3, <1>4 DEF Fits, Holds
  <2>5. ASSUME NEW n \in 1..k PROVE Fits(c, n, next[n])'
    <3>1. CASE n = k
      BY <2>0, <2>4, <3>1
    <3>2. CASE n # k
      <4>1. n \in 1..asked[c] /\ next[n] = at[n]
        BY <1>2, <2>0, <3>2
      <4>2. at[n] \in Place /\ Fits(c, n, at[n]) /\ Holds(c, at[n])
        BY <2>1, <4>1 DEF Assigned, Fits
      <4> QED BY <2>3, <4>1, <4>2
    <3> QED BY <3>1, <3>2
  <2>6. ASSUME NEW p \in Place, Holds(c, p)' PROVE \E n \in 1..k : next[n] = p
    <3>1. CASE p = new
      <4>1. k \in 1..k /\ next[k] = new
        BY <1>2, <2>0
      <4> QED BY <3>1, <4>1
    <3>2. CASE p # new
      <4>1. Holds(c, p)
        BY <1>0, <1>1, <1>2, <1>3, <2>6, <3>2 DEF Holds, Place
      <4>2. PICK n \in 1..asked[c] : at[n] = p
        BY <2>1, <4>1 DEF Assigned
      <4>3. n \in 1..k /\ n # k /\ next[n] = at[n]
        BY <1>2, <2>0
      <4> QED BY <4>2, <4>3
    <3> QED BY <3>1, <3>2
  <2>7. Ordered(c, next)'
    <3> SUFFICES ASSUME c \in Patient
                 PROVE  /\ k <= Len(got[c]) + 1
                        /\ \A i \in 1..Len(got[c]) : i <= k /\ next[i] = <<"got", c, i>>
      BY <1>1, <2>2 DEF Ordered
    <3>1. k = Len(got[c]) + 1
      BY <1>1, <1>2
    <3>2. ASSUME NEW i \in 1..Len(got[c]) PROVE i <= k /\ next[i] = <<"got", c, i>>
      <4>1. at[i] = <<"got", c, i>>
        BY <2>1 DEF Ordered
      <4>2. i \in 1..k /\ i # k /\ i <= k /\ next[i] = at[i]
        BY <1>2, <2>0, <3>1
      <4> QED BY <4>1, <4>2
    <3> QED BY <1>2, <3>1, <3>2
  <2>8. Assigned(c, next)'
    BY <2>2, <2>5, <2>6 DEF Assigned
  <2> QED BY <2>7, <2>8 DEF TrackedFor
<1> QED BY <1>5, <1>6 DEF Tracked

\* The first message of a client goes to the end of a worker's queue.
LEMMA TrackedForward ==
  ASSUME TypeOK, Tracked, ForwardRequest
  PROVE  Tracked'
<1>1. PICK c \in Clients, w \in Workers :
        /\ front[c] # <<>>
        /\ pipe' = [pipe EXCEPT ![w] = Append(@, [from |-> c, frames |-> Head(front[c])])]
        /\ front' = [front EXCEPT ![c] = Tail(@)]
  BY DEF ForwardRequest
<1>2. asked' = asked /\ got' = got /\ owed' = owed /\ back' = back
  BY DEF ForwardRequest
<1>3. PICK k, f : k = Len(pipe[w]) + 1 /\ f = Len(front[c])
  OBVIOUS
<1>4. /\ f \in Nat \ {0} /\ Len(front'[c]) = f - 1
      /\ Head(front[c]) = front[c][1]
      /\ \A i \in 1..(f - 1) : front'[c][i] = front[c][i + 1]
      /\ \A d \in Clients : d # c => front'[d] = front[d]
  <2>1. front[c] \in Seq(Frames) /\ front'[c] = Tail(front[c])
    BY <1>1 DEF TypeOK
  <2> QED BY <1>1, <1>3, <2>1, HeadTail DEF TypeOK
<1>5. /\ k \in Nat \ {0} /\ Len(pipe'[w]) = k
      /\ pipe'[w][k].from = c /\ pipe'[w][k].frames = front[c][1]
      /\ \A i \in 1..(k - 1) : pipe'[w][i] = pipe[w][i]
      /\ \A v \in Workers : v # w => pipe'[v] = pipe[v]
  <2>1. front[c][1] \in Frames
    BY <1>1, <1>4, HeadTail DEF TypeOK
  <2>2. [from |-> c, frames |-> front[c][1]] \in Requests
    BY <2>1 DEF Requests
  <2>3. pipe'[w] = Append(pipe[w], [from |-> c, frames |-> front[c][1]]) /\ pipe[w] \in Seq(Requests)
    BY <1>1, <1>4 DEF TypeOK
  <2>4. Len(pipe[w]) = k - 1 /\ Len(pipe[w]) \in Nat /\ Len(pipe[w]) + 1 = k
    BY <1>3, <2>3
  <2>5. /\ Len(pipe'[w]) = k /\ pipe'[w][k] = [from |-> c, frames |-> front[c][1]]
        /\ \A i \in 1..(k - 1) : pipe'[w][i] = pipe[w][i]
    <3> DEFINE x == [from |-> c, frames |-> front[c][1]]  s == pipe[w]
    <3>1. x \in Requests /\ s \in Seq(Requests) /\ pipe'[w] = Append(s, x) /\ Len(s) + 1 = k
      BY <2>2, <2>3, <2>4
    <3> HIDE DEF x, s
    <3>2. /\ Len(Append(s, x)) = Len(s) + 1 /\ Append(s, x)[Len(s) + 1] = x
          /\ \A i \in 1..Len(s) : Append(s, x)[i] = s[i]
      BY <3>1, AppendProperties
    <3>3. k - 1 = Len(s)
      BY <2>4 DEF s
    <3> QED BY <3>1, <3>2, <3>3 DEF x, s
  <2>6. \A v \in Workers : v # w => pipe'[v] = pipe[v]
    <3>1. DOMAIN pipe = Workers
      BY DEF TypeOK
    <3> QED BY ONLY <1>1, <3>1, SMT
  <2>7. k \in Nat \ {0}
    BY ONLY <2>4, SMT
  <2>8. pipe'[w][k].from = c /\ pipe'[w][k].frames = front[c][1]
    BY ONLY <2>5
  <2> QED BY ONLY <2>5, <2>6, <2>7, <2>8
<1>6. PICK m : m = [p \in Place |-> IF p[1] = "front" /\ p[2] = c
                                    THEN IF p[3] = 1 THEN <<"pipe", w, k>> ELSE <<"front", c, p[3] - 1>>
                                    ELSE p]
  OBVIOUS
<1>7. m \in [Place -> Place]
  BY <1>5, <1>6 DEF Place
<1>8. ASSUME NEW d \in Clients, NEW n \in 1..asked[d], NEW p \in Place, Fits(d, n, p)
      PROVE  Fits(d, n, m[p])'
  <2>1. CASE p[1] = "front" /\ p[2] = c /\ p[3] = 1
    <3>1. d = c /\ front[c][1] = Script[c][n]
      BY <1>8, <2>1 DEF Fits, Holds
    <3>2. m[p] = <<"pipe", w, k>>
      BY <1>6, <2>1
    <3> QED BY <1>5, <3>1, <3>2 DEF Fits, Holds
  <2>2. CASE p[1] = "front" /\ p[2] = c /\ p[3] # 1
    <3>1. d = c /\ front[c][p[3]] = Script[c][n] /\ p[3] \in 2..f
      BY <1>3, <1>8, <2>2 DEF Fits, Holds, Place
    <3>2. m[p] = <<"front", c, p[3] - 1>>
      BY <1>6, <2>2
    <3>3. p[3] - 1 \in 1..(f - 1) /\ (p[3] - 1) + 1 = p[3]
      BY <3>1, <1>4
    <3>4. front'[c][p[3] - 1] = Script[c][n]
      BY <1>4, <3>1, <3>3
    <3> QED BY <1>4, <3>1, <3>2, <3>3, <3>4 DEF Fits, Holds
  <2>3. CASE ~(p[1] = "front" /\ p[2] = c)
    <3>1. m[p] = p
      BY <1>6, <2>3
    <3>2. CASE p[1] = "front"
      <4>1. p[2] = d /\ d # c
        BY <1>8, <2>3, <3>2 DEF Fits, Holds
      <4>2. front'[d] = front[d]
        BY <1>4, <4>1
      <4> QED BY <1>8, <3>1, <3>2, <4>1, <4>2 DEF Fits, Holds
    <3>3. CASE p[1] = "pipe"
      <4>1. p[2] \in Workers /\ p[3] \in 1..Len(pipe[p[2]])
        BY <1>8, <3>3 DEF Fits, Holds, Place, TypeOK
      <4>2. pipe'[p[2]][p[3]] = pipe[p[2]][p[3]] /\ p[3] <= Len(pipe'[p[2]])
        BY <1>3, <1>5, <4>1
      <4> QED BY <1>8, <3>1, <3>3, <4>1, <4>2 DEF Fits, Holds
    <3>4. CASE p[1] \notin {"front", "pipe"}
      BY <1>2, <1>8, <3>1, <3>4 DEF Fits, Holds
    <3> QED BY <3>2, <3>3, <3>4
  <2> QED BY <2>1, <2>2, <2>3
<1>9. ASSUME NEW d \in Clients, NEW p \in Place, Holds(d, p)'
      PROVE  \E q \in Place : Holds(d, q) /\ m[q] = p
  <2>1. CASE p[1] = "front" /\ p[2] = c
    <3>1. p = <<"front", c, p[3]>> /\ p[3] \in 1..(f - 1) /\ d = c
      BY <1>4, <1>9, <2>1 DEF Holds, Place
    <3>2. PICK q : q = <<"front", c, p[3] + 1>>
      OBVIOUS
    <3>3. q \in Place /\ p[3] + 1 # 1 /\ (p[3] + 1) - 1 = p[3]
      BY <3>1, <3>2 DEF Place
    <3>4. m[q] = p
      BY <1>6, <3>1, <3>2, <3>3
    <3>5. Holds(d, q)
      BY <1>3, <1>4, <3>1, <3>2 DEF Holds
    <3> QED BY <3>3, <3>4, <3>5
  <2>2. CASE p = <<"pipe", w, k>>
    <3>1. d = c
      BY <1>5, <1>9, <2>2 DEF Holds
    <3>2. PICK q : q = <<"front", c, 1>>
      OBVIOUS
    <3>3. q \in Place /\ Holds(c, q)
      BY <1>3, <1>4, <3>2 DEF Place, Holds
    <3>4. m[q] = p
      BY <1>6, <2>2, <3>2, <3>3
    <3> QED BY <3>1, <3>3, <3>4
  <2>3. CASE ~(p[1] = "front" /\ p[2] = c) /\ p # <<"pipe", w, k>>
    <3>1. m[p] = p
      BY <1>6, <2>3
    <3>2. p[1] = "pipe" /\ p[2] = w => p[3] # k
      BY <2>3 DEF Place
    <3>3. Holds(d, p)
      BY <1>2, <1>3, <1>4, <1>5, <1>9, <2>3, <3>2 DEF Holds, Place
    <3> QED BY <3>1, <3>3
  <2> QED BY <2>1, <2>2, <2>3
<1>10. \A p \in Place : p[1] = "got" => m[p] = p
  BY <1>6
<1> QED BY <1>2, <1>7, <1>8, <1>9, <1>10, MovedInOrder

\* The first message of a worker's queue becomes the one it owes a reply.
LEMMA TrackedReceive ==
  ASSUME TypeOK, Tracked, NEW w \in Workers, Receive(w)
  PROVE  Tracked'
<1>1. /\ asked' = asked /\ got' = got /\ front' = front /\ back' = back
      /\ pipe[w] # <<>> /\ owed[w] = None
      /\ owed' = [owed EXCEPT ![w] = Head(pipe[w])]
      /\ pipe' = [pipe EXCEPT ![w] = Tail(@)]
  BY DEF Receive, Take
<1>2. PICK k : k = Len(pipe[w])
  OBVIOUS
<1>3. /\ k \in Nat \ {0} /\ Len(pipe'[w]) = k - 1 /\ owed'[w] = pipe[w][1]
      /\ \A i \in 1..(k - 1) : pipe'[w][i] = pipe[w][i + 1]
      /\ \A v \in Workers : v # w => pipe'[v] = pipe[v] /\ owed'[v] = owed[v]
  <2>1. pipe[w] \in Seq(Requests) /\ pipe'[w] = Tail(pipe[w]) /\ owed'[w] = Head(pipe[w])
    BY <1>1 DEF TypeOK
  <2> QED BY <1>1, <1>2, <2>1, HeadTail DEF TypeOK
<1>4. \A c \in Clients : owed[w].from # c
  BY <1>1, GatewayAssumption DEF None
<1>5. PICK m : m = [p \in Place |-> IF p[1] = "pipe" /\ p[2] = w
                                    THEN IF p[3] = 1 THEN <<"owed", w, 1>> ELSE <<"pipe", w, p[3] - 1>>
                                    ELSE p]
  OBVIOUS
<1>6. m \in [Place -> Place]
  BY <1>5 DEF Place
<1>7. ASSUME NEW d \in Clients, NEW n \in 1..asked[d], NEW p \in Place, Fits(d, n, p)
      PROVE  Fits(d, n, m[p])'
  <2>1. CASE p[1] = "pipe" /\ p[2] = w /\ p[3] = 1
    <3>1. pipe[w][1].from = d /\ pipe[w][1].frames = Script[d][n]
      BY <1>7, <2>1 DEF Fits, Holds
    <3>2. m[p] = <<"owed", w, 1>>
      BY <1>5, <2>1
    <3> QED BY <1>3, <3>1, <3>2 DEF Fits, Holds
  <2>2. CASE p[1] = "pipe" /\ p[2] = w /\ p[3] # 1
    <3>1. pipe[w][p[3]].from = d /\ pipe[w][p[3]].frames = Script[d][n] /\ p[3] \in 2..k
      BY <1>2, <1>7, <2>2 DEF Fits, Holds, Place
    <3>2. m[p] = <<"pipe", w, p[3] - 1>>
      BY <1>5, <2>2
    <3>3. p[3] - 1 \in 1..(k - 1) /\ (p[3] - 1) + 1 = p[3]
      BY <1>3, <3>1
    <3>4. pipe'[w][p[3] - 1] = pipe[w][p[3]]
      BY <1>3, <3>3
    <3> QED BY <1>3, <3>1, <3>2, <3>3, <3>4 DEF Fits, Holds
  <2>3. CASE ~(p[1] = "pipe" /\ p[2] = w)
    <3>1. m[p] = p
      BY <1>5, <2>3
    <3>2. p[1] = "owed" => p[2] # w
      BY <1>4, <1>7 DEF Fits, Holds
    <3>3. Fits(d, n, p)'
      BY <1>1, <1>3, <1>7, <2>3, <3>2 DEF Fits, Holds, Place
    <3> QED BY <3>1, <3>3
  <2> QED BY <2>1, <2>2, <2>3
<1>8. ASSUME NEW d \in Clients, NEW p \in Place, Holds(d, p)'
      PROVE  \E q \in Place : Holds(d, q) /\ m[q] = p
  <2>1. CASE p[1] = "pipe" /\ p[2] = w
    <3>1. p = <<"pipe", w, p[3]>> /\ p[3] \in 1..(k - 1) /\ pipe'[w][p[3]].from = d
      BY <1>3, <1>8, <2>1 DEF Holds, Place
    <3>2. PICK q : q = <<"pipe", w, p[3] + 1>>
      OBVIOUS
    <3>3. q \in Place /\ p[3] + 1 # 1 /\ (p[3] + 1) - 1 = p[3] /\ p[3] + 1 <= k
      BY <1>3, <3>1, <3>2 DEF Place
    <3>4. m[q] = p
      BY <1>5, <3>1, <3>2, <3>3
    <3>5. Holds(d, q)
      BY <1>2, <1>3, <3>1, <3>2, <3>3 DEF Holds
    <3> QED BY <3>3, <3>4, <3>5
  <2>2. CASE p[1] = "owed" /\ p[2] = w
    <3>1. p = <<"owed", w, 1>> /\ pipe[w][1].from = d
      BY <1>3, <1>8, <2>2 DEF Holds, Place
    <3>2. PICK q : q = <<"pipe", w, 1>>
      OBVIOUS
    <3>3. q \in Place /\ Holds(d, q)
      BY <1>2, <1>3, <3>1, <3>2 DEF Place, Holds
    <3>4. m[q] = p
      BY <1>5, <3>1, <3>2, <3>3
    <3> QED BY <3>3, <3>4
  <2>3. CASE ~(p[1] \in {"pipe", "owed"} /\ p[2] = w)
    <3>1. m[p] = p
      BY <1>5, <2>3
    <3>2. Holds(d, p)
      BY <1>1, <1>3, <1>8, <2>3 DEF Holds, Place
    <3> QED BY <3>1, <3>2
  <2> QED BY <2>1, <2>2, <2>3
<1>9. \A p \in Place : p[1] = "got" => m[p] = p
  BY <1>5
<1> QED BY <1>1, <1>6, <1>7, <1>8, <1>9, MovedInOrder

\* The answer to the message a worker owes a reply to goes to its client.
LEMMA TrackedSend ==
  ASSUME TypeOK, Working, Tracked, NEW w \in Workers, Send(w)
  PROVE  Tracked'
<1>1. /\ asked' = asked /\ got' = got /\ front' = front /\ pipe' = pipe
      /\ queue[w] # <<>> /\ owed[w] # None
      /\ back' = [back EXCEPT ![w] = Append(@, [to |-> owed[w].from, frames |-> Head(queue[w])])]
      /\ owed' = [owed EXCEPT ![w] = None]
  BY DEF Send
<1>2. PICK reply \in Frames : queue[w] = <<reply>> /\ Answers(reply, owed[w].frames)
  BY <1>1 DEF Working, WorkingAt
<1>3. PICK k : k = Len(back[w]) + 1
  OBVIOUS
<1>4. /\ k \in Nat \ {0} /\ Len(back'[w]) = k
      /\ back'[w][k].to = owed[w].from /\ back'[w][k].frames = reply
      /\ \A i \in 1..(k - 1) : back'[w][i] = back[w][i]
      /\ \A v \in Workers : v # w => back'[v] = back[v] /\ owed'[v] = owed[v]
      /\ owed'[w] = None
  <2> DEFINE x == [to |-> owed[w].from, frames |-> reply]  s == back[w]
  <2>1. owed[w].from \in Clients
    BY <1>1 DEF TypeOK, Requests
  <2>2. x \in Replies /\ s \in Seq(Replies)
    BY <2>1 DEF Replies, TypeOK
  <2>3. back'[w] = Append(s, x) /\ Len(s) + 1 = k
    BY <1>1, <1>2, <1>3 DEF TypeOK
  <2>4. x.to = owed[w].from /\ x.frames = reply
    OBVIOUS
  <2> HIDE DEF x, s
  <2>5. /\ Len(Append(s, x)) = Len(s) + 1 /\ Append(s, x)[Len(s) + 1] = x /\ Len(s) \in Nat
        /\ \A i \in 1..Len(s) : Append(s, x)[i] = s[i]
    BY <2>2, AppendProperties
  <2>6. k - 1 = Len(s) /\ k \in Nat \ {0}
    BY <2>3, <2>5
  <2>7. \A v \in Workers : v # w => back'[v] = back[v] /\ owed'[v] = owed[v]
    BY <1>1 DEF TypeOK
  <2>8. owed'[w] = None
    BY <1>1 DEF TypeOK
  <2> QED BY <2>3, <2>4, <2>5, <2>6, <2>7, <2>8 DEF s
<1>5. \A c \in Clients : None.from # c
  BY GatewayAssumption DEF None
<1>6. PICK m : m = [p \in Place |-> IF p[1] = "owed" /\ p[2] = w THEN <<"back", w, k>> ELSE p]
  OBVIOUS
<1>7. m \in [Place -> Place]
  BY <1>4, <1>6 DEF Place
<1>8. ASSUME NEW d \in Clients, NEW n \in 1..asked[d], NEW p \in Place, Fits(d, n, p)
      PROVE  Fits(d, n, m[p])'
  <2>1. CASE p[1] = "owed" /\ p[2] = w
    <3>1. owed[w].from = d /\ owed[w].frames = Script[d][n]
      BY <1>8, <2>1 DEF Fits, Holds
    <3>2. m[p] = <<"back", w, k>>
      BY <1>6, <2>1
    <3> QED BY <1>2, <1>4, <3>1, <3>2 DEF Fits, Holds
  <2>2. CASE p[1] = "back"
    <3>1. m[p] = p
      BY <1>6, <2>2
    <3>2. p[2] \in Workers /\ p[3] \in 1..Len(back[p[2]])
      BY <1>8, <2>2 DEF Fits, Holds, Place, TypeOK
    <3>3. back'[p[2]][p[3]] = back[p[2]][p[3]] /\ p[3] <= Len(back'[p[2]])
      BY <1>3, <1>4, <3>2
    <3> QED BY <1>8, <2>2, <3>1, <3>2, <3>3 DEF Fits, Holds
  <2>3. CASE p[1] = "owed" /\ p[2] # w
    <3>1. m[p] = p
      BY <1>6, <2>3
    <3> QED BY <1>4, <1>8, <2>3, <3>1 DEF Fits, Holds
  <2>4. CASE p[1] \notin {"owed", "back"}
    <3>1. m[p] = p
      BY <1>6, <2>4
    <3> QED BY <1>1, <1>8, <2>4, <3>1 DEF Fits, Holds
  <2> QED BY <2>1, <2>2, <2>3, <2>4
<1>9. ASSUME NEW d \in Clients, NEW p \in Place, Holds(d, p)'
      PROVE  \E q \in Place : Holds(d, q) /\ m[q] = p
  <2>1. CASE p = <<"back", w, k>>
    <3>1. owed[w].from = d
      BY <1>4, <1>9, <2>1 DEF Holds
    <3>2. PICK q : q = <<"owed", w, 1>>
      OBVIOUS
    <3>3. q \in Place /\ Holds(d, q) /\ m[q] = p
      BY <1>6, <2>1, <3>1, <3>2 DEF Place, Holds
    <3> QED BY <3>3
  <2>2. CASE p # <<"back", w, k>>
    <3>1. ~(p[1] = "owed" /\ p[2] = w)
      BY <1>4, <1>5, <1>9 DEF Holds
    <3>2. m[p] = p
      BY <1>6, <3>1
    <3>3. p[1] = "back" /\ p[2] = w => p[3] # k
      BY <2>2 DEF Place
    <3>4. Holds(d, p)
      BY <1>1, <1>3, <1>4, <1>9, <3>1, <3>3 DEF Holds, Place
    <3> QED BY <3>2, <3>4
  <2> QED BY <2>1, <2>2
<1>10. \A p \in Place : p[1] = "got" => m[p] = p
  BY <1>6
<1> QED BY <1>1, <1>7, <1>8, <1>9, <1>10, MovedInOrder

\* The first reply of a worker reaches its client; one that waits had only this
\* reply to come.
LEMMA TrackedReply ==
  ASSUME TypeOK, Tracked, ForwardReply
  PROVE  Tracked'
<1>1. PICK w \in Workers :
        /\ back[w] # <<>>
        /\ got' = [got EXCEPT ![Head(back[w]).to] = Append(@, Head(back[w]).frames)]
        /\ back' = [back EXCEPT ![w] = Tail(@)]
  BY DEF ForwardReply
<1>2. asked' = asked /\ owed' = owed /\ front' = front /\ pipe' = pipe
  BY DEF ForwardReply
<1>3. PICK c, b, k : c = back[w][1].to /\ b = Len(back[w]) /\ k = Len(got[c]) + 1
  OBVIOUS
<1>4. /\ b \in Nat \ {0} /\ Len(back'[w]) = b - 1 /\ c \in Clients
      /\ back[w][1].frames \in Frames
      /\ got' = [got EXCEPT ![c] = Append(@, back[w][1].frames)]
      /\ \A i \in 1..(b - 1) : back'[w][i] = back[w][i + 1]
      /\ \A v \in Workers : v # w => back'[v] = back[v]
  <2>1. back[w] \in Seq(Replies) /\ back'[w] = Tail(back[w])
    BY <1>1 DEF TypeOK
  <2>2. /\ Head(back[w]) = back[w][1] /\ back[w][1] \in Replies
        /\ b \in Nat \ {0} /\ Len(back'[w]) = b - 1
        /\ \A i \in 1..(b - 1) : back'[w][i] = back[w][i + 1]
    BY <1>1, <1>3, <2>1, HeadTail
  <2>3. c \in Clients /\ back[w][1].frames \in Frames
    BY <1>3, <2>2 DEF Replies
  <2> QED BY <1>1, <1>3, <2>2, <2>3 DEF TypeOK
<1>5. /\ k \in Nat \ {0} /\ Len(got'[c]) = k /\ got'[c][k] = back[w][1].frames
      /\ \A i \in 1..(k - 1) : got'[c][i] = got[c][i]
      /\ \A d \in Clients : d # c => got'[d] = got[d]
  <2> DEFINE x == back[w][1].frames  s == got[c]
  <2>1. x \in Frames /\ s \in Seq(Frames) /\ got'[c] = Append(s, x) /\ Len(s) + 1 = k
    BY <1>3, <1>4 DEF TypeOK
  <2> HIDE DEF x, s
  <2>2. /\ Len(Append(s, x)) = Len(s) + 1 /\ Append(s, x)[Len(s) + 1] = x /\ Len(s) \in Nat
        /\ \A i \in 1..Len(s) : Append(s, x)[i] = s[i]
    BY <2>1, AppendProperties
  <2>3. k - 1 = Len(s) /\ k \in Nat \ {0}
    BY <2>1, <2>2
  <2>4. \A d \in Clients : d # c => got'[d] = got[d]
    BY <1>4 DEF TypeOK
  <2> QED BY <2>1, <2>2, <2>3, <2>4 DEF x, s
<1>6. PICK m : m = [p \in Place |-> IF p[1] = "back" /\ p[2] = w
                                    THEN IF p[3] = 1 THEN <<"got", c, k>> ELSE <<"back", w, p[3] - 1>>
                                    ELSE p]
  OBVIOUS
<1>7. m \in [Place -> Place]
  BY <1>4, <1>5, <1>6 DEF Place
<1>8. ASSUME NEW d \in Clients, NEW n \in 1..asked[d], NEW p \in Place, Fits(d, n, p)
      PROVE  Fits(d, n, m[p])'
  <2>1. CASE p[1] = "back" /\ p[2] = w /\ p[3] = 1
    <3>1. d = c /\ Answers(back[w][1].frames, Script[d][n])
      BY <1>3, <1>8, <2>1 DEF Fits, Holds
    <3>2. m[p] = <<"got", c, k>>
      BY <1>6, <2>1
    <3> QED BY <1>5, <3>1, <3>2 DEF Fits, Holds
  <2>2. CASE p[1] = "back" /\ p[2] = w /\ p[3] # 1
    <3>1. back[w][p[3]].to = d /\ Answers(back[w][p[3]].frames, Script[d][n]) /\ p[3] \in 2..b
      BY <1>3, <1>8, <2>2 DEF Fits, Holds, Place
    <3>2. m[p] = <<"back", w, p[3] - 1>>
      BY <1>6, <2>2
    <3>3. p[3] - 1 \in 1..(b - 1) /\ (p[3] - 1) + 1 = p[3]
      BY <1>4, <3>1
    <3>4. back'[w][p[3] - 1] = back[w][p[3]]
      BY <1>4, <3>3
    <3>5. m[p][1] = "back" /\ m[p][2] = w /\ m[p][3] = p[3] - 1 /\ m[p][3] <= Len(back'[w])
      BY <1>4, <3>2, <3>3
    <3> HIDE DEF Place
    <3> QED BY <3>1, <3>4, <3>5 DEF Fits, Holds
  <2>3. CASE p[1] = "back" /\ p[2] # w
    <3>1. m[p] = p
      BY <1>6, <2>3
    <3> QED BY <1>4, <1>8, <2>3, <3>1 DEF Fits, Holds
  <2>4. CASE p[1] = "got"
    <3>1. m[p] = p /\ p[2] = d /\ p[3] \in 1..Len(got[d]) /\ Len(got[d]) \in Nat
      BY <1>6, <1>8, <2>4 DEF Fits, Holds, Place, TypeOK
    <3>2. got'[d][p[3]] = got[d][p[3]] /\ p[3] <= Len(got'[d])
      <4>1. CASE d = c
        <5>1. p[3] \in 1..(k - 1) /\ p[3] <= k
          BY <1>3, <1>5, <3>1, <4>1
        <5> QED BY <1>5, <4>1, <5>1
      <4>2. CASE d # c
        BY <1>5, <3>1, <4>2
      <4> QED BY <4>1, <4>2
    <3> QED BY <1>8, <2>4, <3>1, <3>2 DEF Fits, Holds
  <2>5. CASE p[1] \notin {"back", "got"}
    <3>1. m[p] = p
      BY <1>6, <2>5
    <3> QED BY <1>2, <1>8, <2>5, <3>1 DEF Fits, Holds
  <2> QED BY <2>1, <2>2, <2>3, <2>4, <2>5
<1>9. ASSUME NEW d \in Clients, NEW p \in Place, Holds(d, p)'
      PROVE  \E q \in Place : Holds(d, q) /\ m[q] = p
  <2>1. CASE p[1] = "back" /\ p[2] = w
    <3>1. p = <<"back", w, p[3]>> /\ p[3] \in 1..(b - 1) /\ back'[w][p[3]].to = d
      BY <1>4, <1>9, <2>1 DEF Holds, Place
    <3>2. PICK q : q = <<"back", w, p[3] + 1>>
      OBVIOUS
    <3>3. p[3] + 1 \in Nat \ {0} /\ p[3] + 1 # 1 /\ (p[3] + 1) - 1 = p[3] /\ p[3] + 1 <= b
      BY <1>4, <3>1
    <3>6. q \in Place
      BY <3>2, <3>3 DEF Place
    <3>4. m[q] = p
      BY <1>6, <3>1, <3>2, <3>3, <3>6
    <3>5. Holds(d, q)
      BY <1>3, <1>4, <3>1, <3>2, <3>3 DEF Holds
    <3> QED BY <3>4, <3>5, <3>6
  <2>2. CASE p = <<"got", c, k>>
    <3>1. d = c
      BY <1>9, <2>2 DEF Holds
    <3>2. PICK q : q = <<"back", w, 1>>
      OBVIOUS
    <3>3. q \in Place
      BY <3>2 DEF Place
    <3>4. q[1] = "back" /\ q[2] = w /\ q[3] = 1
      BY <3>2
    <3>5. Holds(c, q)
      BY <1>3, <1>4, <3>4 DEF Holds
    <3>6. m[q] = p
      BY <1>6, <2>2, <3>3, <3>4
    <3> QED BY <3>1, <3>3, <3>5, <3>6
  <2>3. CASE ~(p[1] = "back" /\ p[2] = w) /\ p # <<"got", c, k>>
    <3>1. m[p] = p
      BY <1>6, <2>3
    <3>2. p[1] = "got" /\ p[2] = c => p[3] # k
      BY <2>3 DEF Place
    <3>3. Holds(d, p)
      <4>1. CASE p[1] = "got"
        <5>1. p[2] = d /\ p[3] <= Len(got'[d]) /\ p[3] \in Nat
          BY <1>9, <4>1 DEF Holds, Place
        <5>2. p[3] <= Len(got[d])
          <6>1. CASE d = c
            <7>1. p[3] <= k /\ p[3] # k /\ k = Len(got[d]) + 1 /\ Len(got[d]) \in Nat
              BY <1>3, <1>5, <3>2, <4>1, <5>1, <6>1 DEF TypeOK
            <7> QED BY <5>1, <7>1
          <6>2. CASE d # c
            BY <1>5, <5>1, <6>2
          <6> QED BY <6>1, <6>2
        <5> QED BY <4>1, <5>1, <5>2 DEF Holds
      <4>2. CASE p[1] # "got"
        BY <1>2, <1>4, <1>9, <2>3, <4>2 DEF Holds
      <4> QED BY <4>1, <4>2
    <3> QED BY <3>1, <3>3
  <2> QED BY <2>1, <2>2, <2>3
<1>10. SUFFICES ASSUME NEW d \in Clients PROVE TrackedFor(d)'
  BY DEF Tracked
<1>11. PICK at : Assigned(d, at) /\ Ordered(d, at)
  BY DEF Tracked, TrackedFor
<1>12. PICK next : next = [n \in 1..asked[d] |-> m[at[n]]]
  OBVIOUS
<1>13. Assigned(d, next)'
  <2>1. Assigned(d, [n \in 1..asked[d] |-> m[at[n]]])'
    BY <1>2, <1>7, <1>8, <1>9, <1>11, Moved
  <2>2. [n \in 1..asked[d] |-> m[at[n]]]' = next
    BY <1>2, <1>12
  <2> QED BY <2>1, <2>2, Zenon
<1>14. ASSUME d \in Patient, NEW i \in 1..Len(got[d]) PROVE i <= asked[d] /\ next[i] = <<"got", d, i>>
  <2>1. i <= asked[d] /\ at[i] = <<"got", d, i>>
    BY <1>11, <1>14 DEF Ordered
  <2>2. i \in 1..asked[d] /\ at[i] \in Place
    BY <1>11, <2>1 DEF Assigned
  <2>3. m[at[i]] = at[i]
    BY <1>6, <2>1, <2>2
  <2> QED BY <1>12, <2>1, <2>2, <2>3
<1>15. ASSUME d \in Patient, d = c PROVE k <= asked[d] /\ next[k] = <<"got", d, k>>
  <2>1. PICK q : q = <<"back", w, 1>>
    OBVIOUS
  <2>2. q \in Place /\ Holds(d, q) /\ m[q] = <<"got", c, k>>
    BY <1>3, <1>4, <1>6, <1>15, <2>1 DEF Place, Holds
  <2>3. PICK n \in 1..asked[d] : at[n] = q
    BY <1>11, <2>2 DEF Assigned
  <2>4. n > Len(got[d])
    <3>1. \A i \in 1..Len(got[d]) : at[i] # q
      BY <1>11, <1>15, <2>1 DEF Ordered
    <3>2. Len(got[d]) \in Nat
      BY DEF TypeOK
    <3> QED BY <2>3, <3>1, <3>2
  <2>5. asked[d] <= k /\ asked[d] \in Nat /\ Len(got[d]) + 1 = k
    BY <1>3, <1>11, <1>15 DEF Ordered, TypeOK
  <2>6. n = k
    BY <1>5, <2>3, <2>4, <2>5
  <2> QED BY <1>12, <1>15, <2>2, <2>3, <2>6
<1>16. Ordered(d, next)'
  <2> SUFFICES ASSUME d \in Patient
               PROVE  /\ asked[d] <= Len(got'[d]) + 1
                      /\ \A i \in 1..Len(got'[d]) : i <= asked[d] /\ next[i] = <<"got", d, i>>
    BY <1>2 DEF Ordered
  <2>1. asked[d] <= Len(got[d]) + 1 /\ asked[d] \in Nat /\ Len(got[d]) \in Nat
    BY <1>11 DEF Ordered, TypeOK
  <2>2. CASE d # c
    <3>1. got'[d] = got[d]
      BY <1>5, <2>2
    <3> QED BY <1>14, <2>1, <3>1
  <2>3. CASE d = c
    <3>1. Len(got'[d]) = k /\ Len(got[d]) = k - 1
      BY <1>3, <1>5, <2>1, <2>3
    <3>2. ASSUME NEW i \in 1..k PROVE i <= asked[d] /\ next[i] = <<"got", d, i>>
      <4>1. CASE i = k
        BY <1>15, <2>3, <4>1
      <4>2. CASE i # k
        <5>1. i \in 1..Len(got[d])
          BY <1>5, <3>1, <4>2
        <5> QED BY <1>14, <5>1
      <4> QED BY <4>1, <4>2
    <3> QED BY <1>5, <2>1, <3>1, <3>2
  <2> QED BY <2>2, <2>3
<1> QED BY <1>13, <1>16 DEF TrackedFor

----------------------------------------------------------------------------
(* The theorems.                                                           *)

LEMMA InitIInv == Init => IInv
<1> SUFFICES ASSUME Init PROVE IInv
  OBVIOUS
<1>1. TypeOK
  <2>1. \A c \in Clients : Len(Script[c]) \in Nat
    BY FrameAssumption
  <2>2. \A S : <<>> \in Seq(S)
    OBVIOUS
  <2> QED BY <2>1, <2>2 DEF Init, TypeOK
<1>2. Working
  BY DEF Init, Working, WorkingAt
<1>3. ASSUME NEW c \in Clients PROVE TrackedFor(c)
  <2>1. \A p \in Place : ~Holds(c, p)
    BY GatewayAssumption DEF Init, Holds, None, Place
  <2>2. asked[c] = 0 /\ Len(got[c]) = 0
    BY DEF Init
  <2>3. PICK at : at = [n \in 1..0 |-> <<"got", c, 1>>]
    OBVIOUS
  <2>4. at \in [1..0 -> Place] /\ \A n : n \notin 1..0
    BY <2>3
  <2>5. Assigned(c, at)
    BY <2>1, <2>2, <2>4 DEF Assigned
  <2>6. Ordered(c, at)
    BY <2>2, <2>4 DEF Ordered
  <2> QED BY <2>5, <2>6 DEF TrackedFor
<1> QED BY <1>1, <1>2, <1>3 DEF IInv, Tracked

LEMMA TrackedStep ==
  ASSUME TypeOK, Working, Tracked, [Next]_vars
  PROVE  Tracked'
<1>1. ASSUME UNCHANGED <<asked, got, front, pipe, owed, back>> PROVE Tracked'
  <2>1. /\ asked' = asked /\ got' = got /\ front' = front /\ pipe' = pipe
        /\ owed' = owed /\ back' = back
    BY <1>1
  <2>2. ASSUME NEW c, NEW p PROVE Holds(c, p)' <=> Holds(c, p)
    BY <2>1 DEF Holds
  <2>3. ASSUME NEW c, NEW n, NEW p PROVE Fits(c, n, p)' <=> Fits(c, n, p)
    BY <2>1, <2>2 DEF Fits
  <2>4. ASSUME NEW c, NEW at, Assigned(c, at), Ordered(c, at)
        PROVE  Assigned(c, at)' /\ Ordered(c, at)'
    BY <2>1, <2>2, <2>3, <2>4 DEF Assigned, Ordered
  <2> QED BY <2>4 DEF Tracked, TrackedFor
<1>2. CASE \E c \in Clients : ClientSends(c)
  BY <1>2, TrackedSends
<1>3. CASE ForwardRequest
  BY <1>3, TrackedForward
<1>4. CASE ForwardReply
  BY <1>4, TrackedReply
<1>5. CASE \E w \in Workers : Receive(w)
  BY <1>5, TrackedReceive
<1>6. CASE \E w \in Workers : Send(w)
  BY <1>6, TrackedSend
<1>7. CASE Poll \/ (\E w \in Workers : Handle(w)) \/ UNCHANGED vars
  <2>1. UNCHANGED <<asked, got, front, pipe, owed, back>>
    BY <1>7 DEF Poll, Handle, vars
  <2> QED BY <1>1, <2>1
<1> QED BY <1>2, <1>3, <1>4, <1>5, <1>6, <1>7 DEF Next

(* A message that was sent is in one place from then on, as it was sent or *)
(* as its answer: in its client's socket, dealt to a worker, owed a reply  *)
(* by one, on the way back, or received; a panic leaves it owed (gateway.rs*)
(* and reqrep.rs).                                                         *)
THEOREM InductiveInvariant == Spec => []IInv
<1>1. ASSUME IInv, [Next]_vars PROVE IInv'
  <2>1. TypeOK /\ Working /\ Tracked
    BY <1>1 DEF IInv
  <2>2. TypeOK'
    BY <1>1, <2>1, TypeStep
  <2>3. Working'
    BY <1>1, <2>1, WorkingStep
  <2>4. Tracked'
    BY <1>1, <2>1, TrackedStep
  <2> QED BY <2>2, <2>3, <2>4 DEF IInv
<1> QED BY InitIInv, <1>1, PTL DEF Spec

(* The numbers of the messages answered are all different, as each message *)
(* is in one place only.                                                   *)
LEMMA TrackedOwn == TypeOK /\ Tracked => OwnReplies
<1> SUFFICES ASSUME TypeOK, Tracked, NEW c \in Clients
             PROVE  \E f \in [1..Len(got[c]) -> 1..asked[c]] :
                      /\ IsInjective(f)
                      /\ c \in Patient => \A i \in DOMAIN f : f[i] = i
                      /\ \A i \in DOMAIN f : Answers(got[c][i], Script[c][f[i]])
  BY DEF OwnReplies
<1>1. PICK at : Assigned(c, at) /\ Ordered(c, at)
  BY DEF Tracked, TrackedFor
<1>2. ASSUME NEW i \in 1..Len(got[c]) PROVE \E n \in 1..asked[c] : at[n] = <<"got", c, i>>
  <2>1. PICK p : p = <<"got", c, i>>
    OBVIOUS
  <2>2. p \in Place /\ Holds(c, p)
    BY <2>1 DEF Place, Holds, TypeOK
  <2> QED BY <1>1, <2>1, <2>2 DEF Assigned
<1> DEFINE N(i) == IF c \in Patient THEN i ELSE CHOOSE n \in 1..asked[c] : at[n] = <<"got", c, i>>
<1>3. ASSUME NEW i \in 1..Len(got[c]) PROVE N(i) \in 1..asked[c] /\ at[N(i)] = <<"got", c, i>>
  <2>1. CASE c \in Patient
    <3>1. i <= asked[c] /\ at[i] = <<"got", c, i>>
      BY <1>1, <2>1 DEF Ordered
    <3>2. i \in 1..asked[c]
      BY <3>1 DEF TypeOK
    <3> QED BY <2>1, <3>1, <3>2
  <2>2. CASE c \notin Patient
    BY <1>2, <2>2
  <2> QED BY <2>1, <2>2
<1>4. c \in Patient => \A i : N(i) = i
  OBVIOUS
<1> HIDE DEF N
<1>5. PICK f : f = [i \in 1..Len(got[c]) |-> N(i)]
  OBVIOUS
<1>6. f \in [1..Len(got[c]) -> 1..asked[c]] /\ DOMAIN f = 1..Len(got[c])
  BY <1>3, <1>5
<1>7. IsInjective(f)
  <2> SUFFICES ASSUME NEW i \in 1..Len(got[c]), NEW j \in 1..Len(got[c]), f[i] = f[j]
               PROVE  i = j
    BY <1>6, Zenon DEF IsInjective
  <2>1. <<"got", c, i>> = <<"got", c, j>>
    BY <1>3, <1>5
  <2> QED BY <2>1
<1>8. c \in Patient => \A i \in DOMAIN f : f[i] = i
  BY <1>4, <1>5
<1>9. ASSUME NEW i \in DOMAIN f PROVE Answers(got[c][i], Script[c][f[i]])
  <2>1. f[i] \in 1..asked[c] /\ at[f[i]] = <<"got", c, i>>
    BY <1>3, <1>5
  <2>2. Fits(c, f[i], <<"got", c, i>>)
    BY <1>1, <2>1 DEF Assigned
  <2> QED BY <2>2 DEF Fits
<1> QED BY <1>6, <1>7, <1>8, <1>9

(* A client receives replies to its own messages, each at most once and in *)
(* order if it waits for them, whatever the order in which clients, the    *)
(* proxy, workers and their tasks go on and whichever of them panic        *)
(* (gateway.rs:30-43, reqrep.rs:31-54, demowallet.rs:18-19).               *)
THEOREM RepliesSafety == Spec => []OwnReplies
<1>1. IInv => OwnReplies
  BY TrackedOwn DEF IInv
<1> QED BY InductiveInvariant, <1>1, PTL
=============================================================================
