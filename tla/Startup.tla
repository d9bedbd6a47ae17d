------------------------------- MODULE Startup -------------------------------
(***************************************************************************)
(* The start of a node with its seed session (src/bin/dfi.rs start(),      *)
(* src/net/p2p.rs P2p::start): Node and SeedSession composed.  Node leaves *)
(* open how its seeding ends, and assumes that it ends; here the queries   *)
(* and the timer decide it.  A node without seeds skips them.              *)
(***************************************************************************)
EXTENDS Node

CONSTANTS
  Seeds,     \* the configured seeds
  Answers    \* the address lists a seed may send

ASSUME SeedsAssumption ==
  /\ Seeds # {}
  /\ \A list \in Answers : list \in Seq({list[i] : i \in DOMAIN list})

VARIABLES hosts, task, answer, channel, session, raced      \* of SeedSession

Seed == INSTANCE SeedSession

seedVars == <<hosts, task, answer, channel, session, raced>>
startVars == <<vars, seedVars>>

StartInit == Init /\ Seed!Init

----------------------------------------------------------------------------

\* The tasks of the seeds run until the session ends.
Query ==
  /\ main = "seeding"
  /\ \E s \in Seeds : Seed!SeedStep(s)
  /\ UNCHANGED vars

\* The channel of a seed may outlive the session.
SeedBreaks ==
  /\ Alive
  /\ \E s \in Seeds : Seed!ChannelBreaks(s)
  /\ UNCHANGED vars

\* Mutant: the error of the session is logged and dropped.
ReturnOk == SeedingOk
\* P2p::start hands on what SeedSession::start returns.
Return == IF session' = "ok" THEN SeedingOk ELSE SeedingFails

QueriesEnd == Seed!AllDone /\ Return
QueriesTimeOut == Seed!Timeout /\ Return

NoSeeds ==
  /\ Seed!Init /\ SeedingOk
  /\ UNCHANGED seedVars

\* A stop request may come at any time.
NodeStep ==
  /\ StopRequested \/ Run
  /\ UNCHANGED seedVars

StartNext == Query \/ SeedBreaks \/ QueriesEnd \/ QueriesTimeOut \/ NoSeeds \/ NodeStep

Start == StartInit /\ [][StartNext]_startVars

\* The session and its timer are scheduled, the seeds owe nobody an answer; after
\* the seeding the node is scheduled as Node says.
FairStart ==
  /\ Start
  /\ WF_startVars(QueriesEnd \/ NoSeeds) /\ WF_startVars(QueriesTimeOut)
  /\ RunFairness

----------------------------------------------------------------------------
(* What holds.                                                             *)

(* The pool is "still empty after seeding", and the start fails, only if no*)
(* query that came to its end brought an address; a node that goes on was  *)
(* given one, unless it has no seeds (seed_session.rs:66-70, p2p.rs:54).   *)
StartsIfAnswered ==
  LET answered == {s \in Seeds : task[s] = "ok" /\ answer[s] # <<>>}
  IN /\ session = "empty" => answered = {}
     /\ main \in {"inbound", "outbound", "running"} => session = "waiting" \/ answered # {}

(* Duplicates in the list have one cause besides an answer that has them:  *)
(* a store between another's check and its extension (hosts.rs:34-38).     *)
DuplicatesNeedARace == Seed!DuplicatesNeedARace

(* Node, with its assumption that the seeding ends: the timer discharges it*)
(* even if a seed never answers (seed_session.rs:60-63).                   *)
ImplementsNode == FairSpec

(* protocols/mod.rs: "We add these addresses to our internal store."  The  *)
(* code drops a list of which it holds one address.                        *)
AddressesAdded == Seed!AddressesAdded
=============================================================================
