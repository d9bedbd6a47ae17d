------------------------- MODULE MCOutboundSession -------------------------
(* Small instances of OutboundSession.                                     *)
EXTENDS OutboundSession, TLC

CONSTANTS s1, s2, a1, a2, c1, c2

TwoSlots == {s1, s2}
TwoAddrs == {a1, a2}
OneAddr  == {a1}
TwoChans   == {c1, c2}

Symmetry == Permutations(Slots) \cup Permutations(Chans)
============================================================================
