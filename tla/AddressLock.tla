---------------------------- MODULE AddressLock ----------------------------
(***************************************************************************)
(* What the pending table promises to the connect slots: one lock for each *)
(* address, held by at most one slot, of which a slot holds at most one.   *)
(* A slot may walk away from a lock it holds.  The lock is then lost: no   *)
(* step gives it back.                                                     *)
(***************************************************************************)
CONSTANTS Clients, Resources, Nothing

VARIABLES held, lost

Init == held = [c \in Clients |-> Nothing] /\ lost = {}

Acquire(c, r) ==
  /\ held[c] = Nothing
  /\ r \notin lost
  /\ \A d \in Clients : held[d] # r
  /\ held' = [held EXCEPT ![c] = r]
  /\ lost' = lost

Release(c) ==
  /\ held[c] # Nothing
  /\ held' = [held EXCEPT ![c] = Nothing]
  /\ lost' = lost

Abandon(c) ==
  /\ held[c] # Nothing
  /\ held' = [held EXCEPT ![c] = Nothing]
  /\ lost' = lost \cup {held[c]}

Next ==
  \E c \in Clients : (\E r \in Resources : Acquire(c, r)) \/ Release(c) \/ Abandon(c)

Spec == Init /\ [][Next]_<<held, lost>>
============================================================================
