---------------------------- MODULE RStarTreeMC ----------------------------
(* Instances of RStarTree for TLC. *)
EXTENDS RStarTree

B(x, y, u, v) == [lo |-> <<x, y>>, hi |-> <<u, v>>]

\* Sixty-six boxes inserted one after the other into a tree of the program's size.
ManyBoxes ==
  <<
    B(10,4,12,5), B(8,1,10,3), B(3,11,3,11), B(15,11,15,13), B(1,0,2,2),
    B(10,5,10,8), B(2,9,3,9), B(4,14,7,16), B(12,1,14,4), B(1,3,3,6),
    B(12,12,13,15), B(0,8,1,9), B(5,0,5,0), B(5,0,6,3), B(0,14,1,16),
    B(12,1,15,3), B(5,10,8,12), B(3,11,3,13), B(12,0,15,3), B(11,5,14,5),
    B(3,15,5,15), B(7,14,8,15), B(6,8,7,11), B(6,4,9,4), B(6,0,8,3),
    B(8,7,9,9), B(1,5,1,8), B(4,14,7,14), B(10,14,13,14), B(2,4,4,6),
    B(1,6,3,9), B(11,12,14,12), B(7,2,10,4), B(2,11,4,12), B(15,8,16,9),
    B(4,11,7,12), B(7,1,8,2), B(7,0,8,0), B(9,14,10,16), B(10,15,10,18),
    B(10,8,13,10), B(5,5,7,6), B(6,6,6,6), B(4,10,5,10), B(6,6,9,6),
    B(7,7,9,10), B(2,10,2,12), B(4,12,6,14), B(1,5,1,5), B(0,5,2,5),
    B(4,14,7,15), B(5,2,7,2), B(4,10,6,13), B(0,0,3,3), B(5,13,8,15),
    B(8,12,8,13), B(4,7,6,9), B(2,8,3,10), B(5,15,5,15), B(5,15,6,16),
    B(5,10,8,12), B(3,9,4,11), B(6,10,7,13), B(2,12,4,13), B(4,10,7,12),
    B(4,9,5,11)>>
Corners == {B(ManyBoxes[i].lo[1], ManyBoxes[i].lo[2], ManyBoxes[i].lo[1], ManyBoxes[i].lo[2]) : i \in DOMAIN ManyBoxes}
LargeSize == <<100, 100>>

OneByOne == \E id \in Ids : id = Cardinality(registry) + 1 /\ AddValue(id)

OneByOneSpec == Init /\ [][OneByOne]_vars

\* Fifty-two boxes for a tree of the program's size: the forty-second overflows a
\* leaf below a full root, and the first of the two entries taken out splits it.
StackedBoxes ==
  <<
    B(11,14,14,16), B(6,13,6,16), B(4,9,7,9), B(14,9,16,12), B(15,3,18,5),
    B(7,4,7,4), B(9,7,12,8), B(8,4,9,7), B(1,3,2,5), B(1,10,3,10),
    B(11,10,14,10), B(13,9,16,12), B(1,6,2,8), B(6,12,9,12), B(2,5,2,7),
    B(0,14,2,16), B(1,0,3,0), B(2,7,3,9), B(4,1,6,1), B(4,15,5,15),
    B(11,10,14,12), B(5,9,5,9), B(10,9,10,12), B(11,13,12,14), B(4,6,6,6),
    B(13,0,14,0), B(8,7,8,10), B(6,13,9,13), B(1,14,1,15), B(15,7,15,10),
    B(7,8,7,10), B(10,12,12,14), B(4,15,5,15), B(2,0,4,0), B(2,5,3,8),
    B(5,13,8,15), B(9,3,11,4), B(5,6,5,6), B(12,14,14,15), B(14,14,16,15),
    B(7,10,7,10), B(5,3,6,6), B(5,14,5,17), B(10,11,12,13), B(10,14,13,17),
    B(2,12,2,13), B(4,7,6,7), B(6,12,7,14), B(13,1,16,3), B(3,9,3,10),
    B(9,14,12,14), B(2,5,4,7)>>
StackedQueries == {StackedBoxes[i] : i \in DOMAIN StackedBoxes}
=============================================================================
