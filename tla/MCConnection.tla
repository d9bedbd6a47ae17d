---------------------------- MODULE MCConnection ----------------------------
(* The two ends of a connection are the whole instance.                    *)
EXTENDS Connection
=============================================================================
