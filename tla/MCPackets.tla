------------------------------ MODULE MCPackets ------------------------------
(* Two tasks of a channel: one sends a ping and a verack, the other a list *)
(* of 36 addresses, the shortest one whose payload needs a length of three *)
(* bytes, and a pong.                                                      *)
EXTENDS Packets

CONSTANTS quick, slow

Here(port) == [ip |-> <<127, 0, 0, 1>>, port |-> port]
Long == [i \in 1..36 |-> Here(i)]

TwoTasks == {quick, slow}
TwoBoxes == quick :> <<[cmd |-> "ping", body |-> <<7, 0>>], [cmd |-> "verack", body |-> Nothing]>>
         @@ slow  :> <<[cmd |-> "addr", body |-> Long], [cmd |-> "pong", body |-> <<300, 1>>]>>

----------------------------------------------------------------------------
(* All numbers and all short byte strings over the base 4.                 *)

Small == INSTANCE Codec WITH Base <- 4

Strings == BoundedSeq(0..3, 5) \cup {<<3>> \o s : s \in [1..8 -> {0, 3}]}

NumberCheck ==
  /\ \A v \in 0..65535 : Small!RoundTrip(v, <<2>>)
  /\ \A s \in Strings : Small!OneForm(s) /\ Small!CopiesAgree(Len(s), s)
  /\ \A v \in -8..7 : Small!ReadI16(Small!WriteI16(v)) = Small!Got(v, <<>>)
  /\ \A b \in BOOLEAN : Small!ReadBool(Small!WriteBool(b)) = Small!Got(b, <<>>)

\* VarInts are exact: every number of eight bytes comes back from its encoding,
\* no number has two encodings, and the synchronous and the asynchronous copy
\* agree (serial.rs:224-298, async_serial.rs:8-61); signed numbers and booleans
\* come back through the unsigned ones.  This has no state in it and is looked
\* at once, before a packet is begun.
NumbersExact == sent = <<>> => NumberCheck
=============================================================================
