------------------------------ MODULE MerkleTree ------------------------------
(***************************************************************************)
(* The tree of coins and its witnesses (src/crypto/merkle.rs, coin.rs).    *)
(*                                                                         *)
(* CommitmentTree keeps only the frontier: the last one or two leaves, and *)
(* for every level above them the root of a finished left subtree or       *)
(* nothing.  IncrementalWitness keeps the frontier at one leaf, the roots  *)
(* of the subtrees that were finished to the right of it since (filled),   *)
(* and the subtree that is being filled (cursor).  Transaction has them    *)
(* grow coin by coin and compares both with the whole tree.                *)
(***************************************************************************)
EXTENDS Notes, FiniteSets

CONSTANT Depth     \* SAPLING_COMMITMENT_TREE_DEPTH

ASSUME DepthAssumption == Depth \in Nat \ {0}

None == <<"None">>     \* Option::None, for a node
blank == <<"blank">>
combine(d, l, r) == merkle_hash(d, l, r)

empty_root[d \in 0..Depth] ==
  IF d = 0 THEN blank ELSE combine(d - 1, empty_root[d - 1], empty_root[d - 1])

----------------------------------------------------------------------------
(* CommitmentTree                                                          *)

empty == [left |-> None, right |-> None, parents |-> <<>>]

size(t) ==
  LET count(n) == IF n = None THEN 0 ELSE 1
  IN count(t.left) + count(t.right)
       + FoldLeftDomain(LAMBDA acc, i : acc + count(t.parents[i]) * 2^i, 0, t.parents)

is_complete(t, depth) ==
  /\ t.left # None /\ t.right # None
  /\ Len(t.parents) = depth - 1
  /\ \A i \in DOMAIN t.parents : t.parents[i] # None

\* The full pair of leaves is carried up to the first level without a subtree.
Carry(t, node) ==
  LET n == Len(t.parents)
      free == CHOOSE i \in 1..(n + 1) :
                /\ i = n + 1 \/ t.parents[i] = None
                /\ \A j \in 1..(i - 1) : t.parents[j] # None
      up[i \in 0..(free - 1)] ==
        IF i = 0 THEN combine(0, t.left, t.right) ELSE combine(i, t.parents[i], up[i - 1])
  IN [left |-> node, right |-> None,
      parents |-> [i \in 1..(IF free > n THEN free ELSE n) |->
                     IF i < free THEN None ELSE IF i = free THEN up[free - 1] ELSE t.parents[i]]]

\* Mutant: the subtrees that were carried up stay in place.
CarryKeeping(t, node) ==
  LET carried == Carry(t, node)
  IN [carried EXCEPT !.parents =
        [i \in DOMAIN @ |-> IF i \in DOMAIN t.parents /\ t.parents[i] # None
                            THEN t.parents[i] ELSE @[i]]]
AppendKeeping(t, node) ==
  CASE t.left = None                     -> [t EXCEPT !.left = node]
    [] t.left # None /\ t.right = None   -> [t EXCEPT !.right = node]
    [] t.left # None /\ t.right # None   -> CarryKeeping(t, node)

\* append_inner of a tree that is not complete.
AppendNode(t, node) ==
  CASE t.left = None                     -> [t EXCEPT !.left = node]
    [] t.left # None /\ t.right = None   -> [t EXCEPT !.right = node]
    [] t.left # None /\ t.right # None   -> Carry(t, node)

\* PathFiller::next, the n-th time it is called.
next(queue, n, depth) == IF n <= Len(queue) THEN queue[n] ELSE empty_root[depth]

\* What level d of the frontier lacks: only these are taken from the filler.
Lacks(t, d) ==
  IF d = 0 THEN Cardinality({s \in {"left", "right"} : t[s] = None})
  ELSE IF d \in DOMAIN t.parents /\ t.parents[d] # None THEN 0 ELSE 1

\* Mutant: the leaf level is not counted.
CallsAboveLeaves(t, d) == FoldLeft(LAMBDA n, e : n + Lacks(t, e), 0, [i \in 1..(d - 1) |-> i])

\* The number of calls of the filler for the levels below d.
Calls(t, d) == FoldLeft(LAMBDA n, e : n + Lacks(t, e - 1), 0, [i \in 1..d |-> i])

root_inner(t, depth, queue) ==
  LET left == IF t.left = None THEN next(queue, 1, 0) ELSE t.left
      right == IF t.right = None THEN next(queue, Lacks(t, 0), 0) ELSE t.right
      top == IF Len(t.parents) >= depth THEN Len(t.parents) ELSE depth - 1
      root[d \in 0..top] ==
        IF d = 0 THEN combine(0, left, right)
        ELSE IF Lacks(t, d) = 0 THEN combine(d, t.parents[d], root[d - 1])
        ELSE combine(d, root[d - 1], next(queue, Calls(t, d) + 1, d))
  IN root[top]

TreeRoot(t) == root_inner(t, Depth, <<>>)

----------------------------------------------------------------------------
(* IncrementalWitness.  `cursor` is None (the empty sequence) or <<tree>>. *)

from_tree(t) == [tree |-> t, filled |-> <<>>, cursor_depth |-> 0, cursor |-> <<>>]

\* Mutant: the subtree that is being filled is left out.
FilledOnly(w) == w.filled

filler(w) ==
  IF w.cursor = <<>> THEN w.filled
  ELSE Append(w.filled, root_inner(w.cursor[1], w.cursor_depth, <<>>))

\* The levels at which the frontier lacks a node, in the order of the filler;
\* those beyond the frontier follow.
next_depth(w) ==
  LET t == w.tree
      levels == FoldLeft(LAMBDA s, d : s \o [i \in 1..Lacks(t, d - 1) |-> d - 1],
                         <<>>, [i \in 1..(Len(t.parents) + 1) |-> i])
      skip == Len(w.filled)
  IN IF skip < Len(levels) THEN levels[skip + 1]
     ELSE Len(t.parents) + 1 + (skip - Len(levels))

\* append_inner with a cursor: it grows, and once complete becomes a node.
GrowCursor(w, node) ==
  LET cursor == AppendNode(w.cursor[1], node)
  IN IF is_complete(cursor, w.cursor_depth)
     THEN [w EXCEPT !.cursor = <<>>,
                    !.filled = Append(@, root_inner(cursor, w.cursor_depth, <<>>))]
     ELSE [w EXCEPT !.cursor = <<cursor>>]

\* append_inner without one: the next subtree begins, if there is a next one.
StartSubtree(w, node) ==
  LET depth == next_depth(w)
      started == [w EXCEPT !.cursor_depth = depth]
  IN IF depth >= Depth THEN started
     ELSE IF depth = 0 THEN [started EXCEPT !.filled = Append(@, node)]
     ELSE [started EXCEPT !.cursor = <<AppendNode(empty, node)>>]

AppendWitness(w, node) ==
  IF w.cursor # <<>> THEN GrowCursor(w, node) ELSE StartSubtree(w, node)

WitnessRoot(w) == root_inner(w.tree, Depth, filler(w))

\* The sibling at each level and whether the leaf is on its right.
path_inner(w) ==
  LET t == w.tree
      top == IF Len(t.parents) >= Depth THEN Len(t.parents) ELSE Depth - 1
  IN [i \in 1..(top + 1) |->
        LET d == i - 1
            kept == IF d = 0 THEN (IF t.right # None THEN t.left ELSE None)
                    ELSE IF Lacks(t, d) = 0 THEN t.parents[d] ELSE None
        IN IF kept # None THEN [node |-> kept, is_right |-> TRUE]
           ELSE [node |-> next(filler(w), Calls(t, d) + 1, d), is_right |-> FALSE]]

position(w) == size(w.tree) - 1
=============================================================================
