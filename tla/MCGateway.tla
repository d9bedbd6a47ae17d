------------------------------ MODULE MCGateway ------------------------------
(* Two wallets, one of which sends a message of two frames, and a client   *)
(* that does not wait; one of its messages ends in a frame with a byte too *)
(* many.  Two workers with room for one message each.                      *)
EXTENDS Gateway

CONSTANTS wallet, pair, eager, one, two

Request(id) == EncodeRequest([command |-> 0, id |-> id, payload |-> <<1>>])

AllClients == {wallet, pair, eager}
Wallets == {wallet, pair}
TwoWorkers == {one, two}
Messages == wallet :> <<<<Request(1)>>, <<Request(70000)>>>>
         @@ pair   :> <<<<Request(3), Request(4)>>>>
         @@ eager  :> <<<<Request(5)>>, <<Request(6), Request(7) \o <<0>>>>>>
=============================================================================
