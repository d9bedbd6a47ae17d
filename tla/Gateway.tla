------------------------------- MODULE Gateway -------------------------------
(***************************************************************************)
(* The gateway (src/service/gateway.rs, src/service/reqrep.rs) and its     *)
(* clients (src/bin/demowallet.rs).  A proxy, which is a loop of blocking  *)
(* calls on a thread of its own, hands the requests of all clients to the  *)
(* workers and their replies back.  A worker handles every request in a    *)
(* task of its own; a request of several frames is answered frame by frame.*)
(*                                                                         *)
(* The sockets are those of ZeroMQ: a multipart message arrives whole or   *)
(* not at all; a ROUTER puts the client in front of a message and takes it *)
(* off again; a DEALER gives each message to one worker with room, and     *)
(* waits if none has; a REP has nothing to receive while it owes a reply,  *)
(* and its next message goes to the client it owes it to.  At most one     *)
(* task of a worker can panic, as nothing comes in after it, and that takes*)
(* one of its threads.                                                     *)
(***************************************************************************)
EXTENDS Codec

CONSTANTS
  Clients,
  Patient,    \* those with a REQ socket, which wait for each reply
  Workers,
  Script,     \* the messages each client sends: sequences of frames
  Cap,        \* bound: messages waiting at a worker (the high-water mark)
  Nobody      \* no client

ASSUME GatewayAssumption ==
  /\ Nobody \notin Clients /\ Patient \subseteq Clients
  /\ DOMAIN Script = Clients /\ Cap \in Nat \ {0}

VARIABLES
  asked,      \* number of messages each client sent
  got,        \* the replies it received
  front,      \* messages on their way to the proxy
  proxy,      \* where its loop is: "poll", "requests" or "replies"
  answers,    \* did the last poll see a reply?
  pipe,       \* messages dealt to each worker: [from, frames]
  owed,       \* the message whose reply the socket of a worker owes
  handling,   \* the tasks of a worker: the frames they handle
  queue,      \* its send queue
  panicked,   \* has a task of it panicked?
  back        \* replies on their way to the proxy: [to, frames]

vars == <<asked, got, front, proxy, answers, pipe, owed, handling, queue, panicked, back>>

None == [from |-> Nobody, frames |-> <<>>]
Message(c, n) == [from |-> c, frames |-> Script[c][n]]

----------------------------------------------------------------------------
(* Requests and replies.                                                   *)

EncodeRequest(r) == <<r.command>> \o Le4(r.id) \o EncodeBytes(r.payload)
DecodeRequest(s) ==
  LET c == ReadU8(s)
      i == ReadU32(c.rest)
      p == DecodeBytes(i.rest)
  IN  IF ~c.ok THEN c ELSE IF ~i.ok THEN i ELSE IF ~p.ok THEN p
      ELSE Got([command |-> c.val, id |-> i.val, payload |-> p.val], p.rest)

EncodeReply(r) == Le4(r.id) \o Le4(r.error) \o EncodeBytes(r.payload)
DecodeReply(s) ==
  LET i == ReadU32(s)
      e == ReadU32(i.rest)
      p == DecodeBytes(e.rest)
  IN  IF ~i.ok THEN i ELSE IF ~e.ok THEN e ELSE IF ~p.ok THEN p
      ELSE Got([id |-> i.val, error |-> e.val, payload |-> p.val], p.rest)

Text == <<116, 101, 120, 116>>

\* Frames are strings of bytes.
ASSUME FrameAssumption ==
  /\ Text \in Seq(Byte)
  /\ \A c \in Clients : Script[c] \in Seq(Seq(Seq(Byte)))

ReplyFrom(request, error, payload) == [id |-> request.id, error |-> error, payload |-> payload]

----------------------------------------------------------------------------

Init ==
  /\ asked = [c \in Clients |-> 0]
  /\ got = [c \in Clients |-> <<>>]
  /\ front = [c \in Clients |-> <<>>]
  /\ proxy = "poll" /\ answers = FALSE
  /\ pipe = [w \in Workers |-> <<>>]
  /\ owed = [w \in Workers |-> None]
  /\ handling = [w \in Workers |-> <<>>]
  /\ queue = [w \in Workers |-> <<>>]
  /\ panicked = [w \in Workers |-> FALSE]
  /\ back = [w \in Workers |-> <<>>]

ClientSends(c) ==
  /\ asked[c] < Len(Script[c])
  /\ c \in Patient => Len(got[c]) = asked[c]
  /\ asked' = [asked EXCEPT ![c] = @ + 1]
  /\ front' = [front EXCEPT ![c] = Append(@, Script[c][asked[c] + 1])]
  /\ UNCHANGED <<got, proxy, answers, pipe, owed, handling, queue, panicked, back>>

(* The proxy: one message from each side on which poll saw one.            *)
Readable(pipes) == \E x \in DOMAIN pipes : pipes[x] # <<>>

Poll ==
  /\ proxy = "poll" /\ (Readable(front) \/ Readable(back))
  /\ proxy' = IF Readable(front) THEN "requests" ELSE "replies"
  /\ answers' = Readable(back)
  /\ UNCHANGED <<asked, got, front, pipe, owed, handling, queue, panicked, back>>

\* send blocks until a worker has room.
ForwardRequest ==
  /\ proxy = "requests"
  /\ \E c \in Clients, w \in Workers :
       /\ front[c] # <<>> /\ Len(pipe[w]) < Cap
       /\ pipe' = [pipe EXCEPT ![w] = Append(@, [from |-> c, frames |-> Head(front[c])])]
       /\ front' = [front EXCEPT ![c] = Tail(@)]
  /\ proxy' = IF answers THEN "replies" ELSE "poll"
  /\ UNCHANGED <<asked, got, answers, owed, handling, queue, panicked, back>>

ForwardReply ==
  /\ proxy = "replies"
  /\ \E w \in Workers :
       /\ back[w] # <<>>
       /\ got' = [got EXCEPT ![Head(back[w]).to] = Append(@, Head(back[w]).frames)]
       /\ back' = [back EXCEPT ![w] = Tail(@)]
  /\ proxy' = "poll"
  /\ UNCHANGED <<asked, front, answers, pipe, owed, handling, queue, panicked>>

(* A worker.                                                               *)
Take(w) ==
  /\ pipe[w] # <<>>
  /\ owed' = [owed EXCEPT ![w] = Head(pipe[w])]
  /\ handling' = [handling EXCEPT ![w] = Append(@, Head(pipe[w]).frames)]
  /\ pipe' = [pipe EXCEPT ![w] = Tail(@)]
  /\ UNCHANGED <<asked, got, front, proxy, answers, queue, panicked, back>>
\* Mutant: a socket that takes a request while it owes a reply.
TakeAny(w) == Take(w)
Receive(w) == owed[w] = None /\ Take(w)

Done(w, i) == handling' = [handling EXCEPT ![w] = RemoveAt(@, i)]

\* Mutant: the task returns the error, with no one to see it.
HandleQuietly(w) ==
  /\ \E i \in DOMAIN handling[w] :
       LET decoded == [f \in DOMAIN handling[w][i] |-> Whole(DecodeRequest(handling[w][i][f]))]
       IN  /\ Done(w, i)
           /\ queue' = IF \A f \in DOMAIN decoded : decoded[f].ok
                       THEN [queue EXCEPT ![w] = Append(@, [f \in DOMAIN decoded |->
                                  EncodeReply(ReplyFrom(decoded[f].val, 0, Text))])]
                       ELSE queue
  /\ UNCHANGED <<asked, got, front, proxy, answers, pipe, owed, panicked, back>>
\* handle_request: any frame that does not decode ends it with a panic, and
\* there is no reply then.
Handle(w) ==
  /\ \E i \in DOMAIN handling[w] :
       LET decoded == [f \in DOMAIN handling[w][i] |-> Whole(DecodeRequest(handling[w][i][f]))]
       IN  /\ Done(w, i)
           /\ IF \A f \in DOMAIN decoded : decoded[f].ok
              THEN /\ queue' = [queue EXCEPT ![w] = Append(@, [f \in DOMAIN decoded |->
                                  EncodeReply(ReplyFrom(decoded[f].val, 0, Text))])]
                   /\ UNCHANGED panicked
              ELSE /\ panicked' = [panicked EXCEPT ![w] = TRUE]
                   /\ UNCHANGED queue
  /\ UNCHANGED <<asked, got, front, proxy, answers, pipe, owed, back>>

Send(w) ==
  /\ queue[w] # <<>> /\ owed[w] # None
  /\ back' = [back EXCEPT ![w] = Append(@, [to |-> owed[w].from, frames |-> Head(queue[w])])]
  /\ queue' = [queue EXCEPT ![w] = Tail(@)]
  /\ owed' = [owed EXCEPT ![w] = None]
  /\ UNCHANGED <<asked, got, front, proxy, answers, pipe, handling, panicked>>

Next ==
  \/ \E c \in Clients : ClientSends(c)
  \/ Poll \/ ForwardRequest \/ ForwardReply
  \/ \E w \in Workers : Receive(w) \/ Handle(w) \/ Send(w)

Spec == Init /\ [][Next]_vars

\* The proxy has its thread, and the tasks of a worker the others; no client has
\* to send anything.  The fairness of Handle is the weak one, written with its
\* guard.
FairSpec ==
  /\ Spec
  /\ WF_vars(Poll) /\ WF_vars(ForwardRequest) /\ WF_vars(ForwardReply)
  /\ \A w \in Workers :
       /\ WF_vars(Receive(w)) /\ WF_vars(Send(w))
       /\ []<>(handling[w] = <<>>) \/ []<><<Handle(w)>>_vars

----------------------------------------------------------------------------
(* What holds.                                                             *)

\* A reply answers a message if it has a frame with the same id for each frame.
Answers(reply, frames) ==
  /\ Len(reply) = Len(frames)
  /\ \A f \in DOMAIN frames :
       LET r == Whole(DecodeReply(reply[f]))
           q == Whole(DecodeRequest(frames[f]))
       IN  r.ok /\ q.ok /\ r.val.id = q.val.id /\ r.val.error = 0

\* What a client receives answers messages that it sent, each at most once, and
\* in order if it waits for them: it never gets the reply to another client and
\* never fails to decode one (demowallet.rs:18-19), whatever the order in which
\* tasks, workers and the proxy go on.
OwnReplies ==
  \A c \in Clients :
    \E f \in [1..Len(got[c]) -> 1..asked[c]] :
      /\ IsInjective(f)
      /\ c \in Patient => \A i \in DOMAIN f : f[i] = i
      /\ \A i \in DOMAIN f : Answers(got[c][i], Script[c][f[i]])

Answered(c, n) == \E i \in DOMAIN got[c] : Answers(got[c][i], Script[c][n])
LostAt(w, m) == panicked[w] /\ (owed[w] = m \/ m \in ToSet(pipe[w]))

\* A message that is sent is answered, unless it panics its worker, or was dealt
\* to a worker that panicked before; the proxy, which waits for a worker with
\* room while replies wait for it, holds up no reply for ever unless all workers
\* are gone (gateway.rs:30-43, reqrep.rs:31-54).
Resolved ==
  \A c \in Clients : \A n \in 1..Len(Script[c]) :
    (asked[c] >= n) ~>
      \/ Answered(c, n)
      \/ \E w \in Workers : LostAt(w, Message(c, n))
      \/ \A w \in Workers : panicked[w]
=============================================================================
