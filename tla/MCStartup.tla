------------------------------ MODULE MCStartup ------------------------------
(* Two seeds, whose lists overlap, are disjoint or are empty, and three connections.       *)
EXTENDS Startup

CONSTANTS a, b   \* addresses

TwoSeeds == 1..2
Lists == {<<>>, <<a>>, <<b>>, <<a, b>>}
=============================================================================
