----------------------------- MODULE SeedSession -----------------------------
(***************************************************************************)
(* Filling the list of hosts from the seed servers                         *)
(* (src/net/sessions/seed_session.rs, src/net/hosts.rs): a task per seed   *)
(* connects, shakes hands, asks for addresses, stores the answer and stops *)
(* its channel, while the session waits for all of them or for its timer.  *)
(* Hosts::store asks under the lock of the list whether it holds one of    *)
(* the addresses, releases the lock, and takes it again to add them.       *)
(***************************************************************************)
EXTENDS Naturals, Sequences, SequencesExt

CONSTANTS
  Seeds,     \* the configured seeds
  Answers    \* the address lists a seed may send

VARIABLES
  hosts,     \* Hosts.addrs
  task,      \* what the task of each seed is doing
  answer,    \* the list it received
  channel,   \* its connection: "none", "open" or "stopped"
  session,   \* "waiting", or how the session ended
  raced      \* has a store overlapped another one with a common address?

vars == <<hosts, task, answer, channel, session, raced>>

Results == {"ok", "err", "dropped"}

TypeOK ==
  /\ ToSet(hosts) \subseteq UNION {ToSet(a) : a \in Answers}
  /\ task \in [Seeds -> {"connect", "handshake", "ask", "store", "extend", "stop"} \cup Results]
  /\ answer \in [Seeds -> Answers \cup {<<>>}]
  /\ channel \in [Seeds -> {"none", "open", "stopped"}]
  /\ session \in {"waiting", "ok", "empty", "timeout"}
  /\ raced \in BOOLEAN

Init ==
  /\ hosts = <<>>
  /\ task = [s \in Seeds |-> "connect"]
  /\ answer = [s \in Seeds |-> <<>>]
  /\ channel = [s \in Seeds |-> "none"]
  /\ session = "waiting"
  /\ raced = FALSE

Goto(s, t) == task' = [task EXCEPT ![s] = t]

----------------------------------------------------------------------------
(* start_seed                                                              *)

ConnectOk(s) ==
  /\ task[s] = "connect" /\ Goto(s, "handshake")
  /\ channel' = [channel EXCEPT ![s] = "open"]
  /\ UNCHANGED <<hosts, answer, session, raced>>

\* Refused, or out of time.
ConnectFails(s) ==
  /\ task[s] = "connect" /\ Goto(s, "err")
  /\ UNCHANGED <<hosts, answer, channel, session, raced>>

HandshakeOk(s) ==
  /\ task[s] = "handshake" /\ Goto(s, "ask")
  /\ UNCHANGED <<hosts, answer, channel, session, raced>>

\* The `?` after register_channel leaves the channel as it is.
HandshakeTimeout(s) ==
  /\ task[s] = "handshake" /\ Goto(s, "err")
  /\ UNCHANGED <<hosts, answer, channel, session, raced>>

\* The connection breaks: the channel stops itself.
ChannelBreaks(s) ==
  /\ channel[s] = "open" /\ channel' = [channel EXCEPT ![s] = "stopped"]
  /\ UNCHANGED <<hosts, task, answer, session, raced>>

\* ProtocolSeed gets its answer, or the error of a stopped channel.
ReceiveAddrs(s) ==
  /\ task[s] = "ask" /\ channel[s] = "open" /\ Goto(s, "store")
  /\ \E a \in Answers : answer' = [answer EXCEPT ![s] = a]
  /\ UNCHANGED <<hosts, channel, session, raced>>
AskFails(s) ==
  /\ task[s] = "ask" /\ channel[s] = "stopped" /\ Goto(s, "err")
  /\ UNCHANGED <<hosts, answer, channel, session, raced>>

Known(list) == ToSet(hosts) \cap ToSet(list)

\* A store that does not ask.
StoreAlways(s) ==
  /\ task[s] = "store" /\ Goto(s, "extend")
  /\ UNCHANGED <<hosts, answer, channel, session, raced>>
\* all() in the place of any(): true of an empty list.
StoreIfAllKnown(s) ==
  /\ task[s] = "store"
  /\ Goto(s, IF ToSet(hosts) \subseteq ToSet(answer[s]) THEN "stop" ELSE "extend")
  /\ UNCHANGED <<hosts, answer, channel, session, raced>>
\* Hosts::store up to the release of the lock: any known address will do.
CheckContains(s) ==
  /\ task[s] = "store"
  /\ Goto(s, IF Known(answer[s]) # {} THEN "stop" ELSE "extend")
  /\ raced' = (raced \/ \E t \in Seeds \ {s} :
                          task[t] = "extend" /\ ToSet(answer[t]) \cap ToSet(answer[s]) # {})
  /\ UNCHANGED <<hosts, answer, channel, session>>

\* push() in the place of extend().
Push(s) ==
  /\ task[s] = "extend" /\ Goto(s, "stop")
  /\ hosts' = Append(hosts, answer[s])
  /\ UNCHANGED <<answer, channel, session, raced>>
Extend(s) ==
  /\ task[s] = "extend" /\ Goto(s, "stop")
  /\ hosts' = hosts \o answer[s]
  /\ UNCHANGED <<answer, channel, session, raced>>

\* A task that returns without having stopped its channel.
ReturnOpen(s) ==
  /\ task[s] = "stop" /\ Goto(s, "ok")
  /\ UNCHANGED <<hosts, answer, channel, session, raced>>
StopChannel(s) ==
  /\ task[s] = "stop" /\ Goto(s, "ok")
  /\ channel' = [channel EXCEPT ![s] = "stopped"]
  /\ UNCHANGED <<hosts, answer, session, raced>>

----------------------------------------------------------------------------
(* SeedSession::start                                                      *)

\* All tasks have returned, whatever they returned.
AllDone ==
  /\ session = "waiting" /\ \A s \in Seeds : task[s] \in {"ok", "err"}
  /\ session' = IF hosts = <<>> THEN "empty" ELSE "ok"
  /\ UNCHANGED <<hosts, task, answer, channel, raced>>

\* A session without a timer.
NoTimer == FALSE /\ UNCHANGED vars
\* The timer: the tasks are dropped, and with that cancelled.
Timeout ==
  /\ session = "waiting" /\ session' = "timeout"
  /\ task' = [s \in Seeds |-> IF task[s] \in {"ok", "err"} THEN task[s] ELSE "dropped"]
  /\ UNCHANGED <<hosts, answer, channel, raced>>

SeedStep(s) ==
  \/ ConnectOk(s) \/ ConnectFails(s) \/ HandshakeOk(s) \/ HandshakeTimeout(s)
  \/ ReceiveAddrs(s) \/ AskFails(s) \/ CheckContains(s) \/ Extend(s) \/ StopChannel(s)

Next ==
  \/ AllDone \/ Timeout
  \/ \E s \in Seeds : SeedStep(s) \/ ChannelBreaks(s)

Spec == Init /\ [][Next]_vars

\* The session and its timer are scheduled; seeds owe nobody an answer.
FairSpec == Spec /\ WF_vars(AllDone) /\ WF_vars(Timeout)

----------------------------------------------------------------------------
(* What holds.                                                             *)

(* Duplicates in the list have one cause besides an answer that has them:  *)
(* a store between another's check and its extension.                      *)
DuplicatesNeedARace ==
  (\A a \in Answers : IsInjective(a)) => (IsInjective(hosts) \/ raced)

----------------------------------------------------------------------------
(* What the docs say and the code does not do.                             *)

(* protocols/mod.rs: "We add these addresses to our internal store."       *)
AddressesAdded ==
  \A s \in Seeds : task[s] = "ok" => ToSet(answer[s]) \subseteq ToSet(hosts)
=============================================================================
