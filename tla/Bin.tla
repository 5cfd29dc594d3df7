-------------------------------- MODULE Bin ---------------------------------
(***************************************************************************)
(* ui::bin packs rectangles in a rectangle by a tree of splits.  The tree  *)
(* is searched from left to right and only its leaves are ever chosen, so  *)
(* it is modelled by the sequence of its leaves: a split puts two leaves   *)
(* where there was one.  A pointer to the rectangle of a full leaf is what *)
(* insert returns.                                                         *)
(***************************************************************************)
EXTENDS Naturals, Sequences, SequencesExt, FiniteSetsExt

CONSTANTS BinWidth, BinHeight

VARIABLES leaves,       \* the leaves of the tree: rectangles, full or not
          placed        \* ghost: what insert returned for what it was asked

binVars == <<leaves, placed>>

Leaf(x, y, width, height) ==
    [x |-> x, y |-> y, width |-> width, height |-> height, full |-> FALSE]

BinInit == leaves = <<Leaf(0, 0, BinWidth, BinHeight)>> /\ placed = {}

Fitting(width, height) == {n \in DOMAIN leaves : /\ ~ leaves[n].full
                                                 /\ width <= leaves[n].width
                                                 /\ height <= leaves[n].height}

(* split_node: a width or a height of zero leaves that side whole. *)
SplitNode(r, width, height) ==
    <<Leaf(r.x, r.y, IF width = 0 THEN r.width ELSE width, IF height = 0 THEN r.height ELSE height),
      Leaf(r.x + width, r.y + height, r.width - width, r.height - height)>>

(* The loop of insert: the leaf is cut across its longer rest, and then    *)
(* what is left of it across the other, until it has the size asked for.   *)
Carve(r, width, height) ==
    LET wide == r.width - width
        tall == r.height - height
        cut == IF wide >= tall THEN SplitNode(r, width, 0) ELSE SplitNode(r, 0, height)
        over == IF wide >= tall THEN SplitNode(cut[1], 0, height)
                                ELSE SplitNode(cut[1], width, 0)
        full == [r EXCEPT !.width = width, !.height = height, !.full = TRUE]
    IN  IF wide = 0 /\ tall = 0 THEN <<full>>
        ELSE IF wide = 0 \/ tall = 0 THEN <<full, cut[2]>>
        ELSE <<[over[1] EXCEPT !.full = TRUE], over[2], cut[2]>>

BinInsert(width, height) ==
    /\ width > 0 /\ height > 0 /\ Fitting(width, height) # {}
    /\ LET n == Min(Fitting(width, height))
           new == Carve(leaves[n], width, height)
       IN  /\ leaves' = SubSeq(leaves, 1, n - 1) \o new \o SubSeq(leaves, n + 1, Len(leaves))
           /\ placed' = placed \union {new[1]}

Clear == leaves' = <<Leaf(0, 0, BinWidth, BinHeight)>> /\ placed' = {}

BinNext == Clear \/ \E w \in 1 .. BinWidth, h \in 1 .. BinHeight : BinInsert(w, h)

-----------------------------------------------------------------------------
Over(r, s) == /\ r.x < s.x + s.width /\ s.x < r.x + r.width
              /\ r.y < s.y + s.height /\ s.y < r.y + r.height

Inside(x, y, r) == x \in r.x .. r.x + r.width - 1 /\ y \in r.y .. r.y + r.height - 1

(* The leaves cover the bin: none is outside of it, no two overlap, and    *)
(* each place of it is in one.  So what insert returns is never used twice *)
(* before clear, and no part of the bin is lost.                           *)
BinPacked ==
    /\ \A n \in DOMAIN leaves :
        /\ leaves[n].x + leaves[n].width <= BinWidth
        /\ leaves[n].y + leaves[n].height <= BinHeight
        /\ \A m \in DOMAIN leaves : m # n => ~ Over(leaves[m], leaves[n])
    /\ \A x \in 0 .. BinWidth - 1, y \in 0 .. BinHeight - 1 :
           \E n \in DOMAIN leaves : Inside(x, y, leaves[n])
    /\ \A r \in placed : r \in Range(leaves) /\ r.full
=============================================================================
