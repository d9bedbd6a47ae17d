---------------------------- MODULE MCTransaction ----------------------------
(* A deposit and a payment between a cashier and two wallets, in a tree    *)
(* that takes coins of others before, between and after them.              *)
EXTENDS Transaction

Places == 2 ^ Depth

\* A payment between coins of others; and a deposit at every place of the tree,
\* which is then filled to the end and beyond.
MCSchedules == {<<3, 8, 3>>} \cup {<<k, Places + 1 - k>> : k \in 0 .. Places}
=============================================================================
