----------------------------- MODULE MCChannel -----------------------------
(* Small instances of Channel.                                             *)
EXTENDS Channel

CONSTANTS p1, r1, r2, w1, w2, addr, ping

OneCaller == {p1}
TwoReaders == {r1, r2}
OneWatcher == {w1}
TwoWatchers == {w1, w2}
OneCommand == {ping}
TwoCommands == {addr, ping}

\* Two subscriptions of one command; the dispatcher of another command may
\* come before or after theirs when errors are handed out.
SameCommand == [r \in TwoReaders |-> ping]
============================================================================
