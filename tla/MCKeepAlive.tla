----------------------------- MODULE MCKeepAlive -----------------------------
(* Two nonces are enough for a wrong one and for one that repeats.         *)
EXTENDS KeepAlive
=============================================================================
