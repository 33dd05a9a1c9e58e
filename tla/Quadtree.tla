------------------------------ MODULE Quadtree ------------------------------
(***************************************************************************)
(* The quadtree behind the entity map: a fixed square that is split into   *)
(* quadrants on demand, each entry filed at the deepest node that wholly   *)
(* contains its bounds.                                                    *)
(*                                                                         *)
(* A node is named by its path, the quadrants that lead to it from the     *)
(* root; a tree is the set of its nodes' paths, the set of its entries and *)
(* the counter size_.  The order of the entries inside a node is left out. *)
(* Coordinates are integers: the bounds chosen for a model must halve      *)
(* exactly down to MaxDepth.                                               *)
(***************************************************************************)
EXTENDS Integers, Sequences, FiniteSets

CONSTANTS
    Half,        \* the root covers -Half..Half in each direction
    MaxDepth,    \* MAX_DEPTH
    Threshold    \* QUADTREE_CHILDREN_THRESHOLD

ASSUME QuadtreeAssumption ==
    /\ Half \in Nat /\ MaxDepth \in Nat
    /\ Threshold \in Nat \ {0}

-----------------------------------------------------------------------------
(* AABB.                                                                   *)

Box(x1, y1, x2, y2) == [min |-> <<x1, y1>>, max |-> <<x2, y2>>]

\* to_aabb: the box of a size around a position.
ToAABB(size, pos) ==
    LET h == size \div 2 IN Box(pos[1] - h, pos[2] - h, pos[1] + h, pos[2] + h)

ContainsPoint(b, pt) == \A k \in 1..2 : b.min[k] <= pt[k] /\ pt[k] <= b.max[k]

Contains(b, c) == ContainsPoint(b, c.min) /\ ContainsPoint(b, c.max)

Intersects(b, c) == \A k \in 1..2 : b.min[k] <= c.max[k] /\ c.min[k] <= b.max[k]

Territory == Box(-Half, -Half, Half, Half)

-----------------------------------------------------------------------------
(* Nodes.                                                                  *)

AllQuadrants == <<"LOWER_LEFT", "LOWER_RIGHT", "UPPER_LEFT", "UPPER_RIGHT">>

Quadrants == {AllQuadrants[k] : k \in 1..4}

Paths == UNION {[1..n -> Quadrants] : n \in 0..MaxDepth}

\* quadrant_boundary; "upper" is the side of the smaller y.
QuadrantBoundary(b, q) ==
    LET mid == [k \in 1..2 |-> (b.min[k] + b.max[k]) \div 2]
    IN  CASE q = "UPPER_LEFT"  -> [min |-> b.min, max |-> mid]
          [] q = "UPPER_RIGHT" -> Box(mid[1], b.min[2], b.max[1], mid[2])
          [] q = "LOWER_LEFT"  -> Box(b.min[1], mid[2], mid[1], b.max[2])
          [] q = "LOWER_RIGHT" -> [min |-> mid, max |-> b.max]

Parent(p) == SubSeq(p, 1, Len(p) - 1)

Boundary[p \in Paths] ==
    IF p = <<>> THEN Territory
    ELSE QuadrantBoundary(Boundary[Parent(p)], p[Len(p)])

Children(p) == {Append(p, q) : q \in Quadrants}

IsLeaf(nodes, p) == nodes \cap Children(p) = {}

\* containing_quadrant(b) of node p is q: the first that contains b.
LeadsTo(p, q, b) ==
    \E k \in 1..4 :
        /\ q = AllQuadrants[k]
        /\ Contains(QuadrantBoundary(Boundary[p], q), b)
        /\ \A j \in 1..(k - 1) :
              ~Contains(QuadrantBoundary(Boundary[p], AllQuadrants[j]), b)

\* Following containing_quadrant(b) from the root leads through p.
OnChain(p, b) == \A k \in 1..Len(p) : LeadsTo(SubSeq(p, 1, k - 1), p[k], b)

\* ... and ends here, where b is filed.
Landing(nodes, b) ==
    CHOOSE p \in nodes : /\ OnChain(p, b)
                         /\ \A c \in nodes \cap Children(p) : ~OnChain(c, b)

-----------------------------------------------------------------------------
(* Node::insert, remove_impl, find_impl.                                   *)

EntriesAt(t, p) == {e \in t.entries : e.at = p}

\* The nodes that subdivide() when b is inserted: the leaf it lands on, if that
\* is full, and below it the new quadrants on b's way that have received a full
\* set of its entries in turn.  No node at MaxDepth subdivides.
Splits(t, b) ==
    LET leaf == Landing(t.nodes, b)
        here == EntriesAt(t, leaf)
    IN  {p \in Paths : /\ IsLeaf(t.nodes, leaf)
                       /\ Len(leaf) <= Len(p) /\ Len(p) < MaxDepth
                       /\ OnChain(p, b)
                       /\ Cardinality({e \in here : OnChain(p, e.box)}) >= Threshold}

Insert_LeavesEntries(t, id, b) ==
    LET nodes == t.nodes \cup UNION {Children(p) : p \in Splits(t, b)}
    IN  [t EXCEPT !.nodes = nodes,
                  !.entries = @ \cup {[id |-> id, at |-> Landing(nodes, b), box |-> b]}]

\* The entries of the leaf that splits are filed again below it.
Insert(t, id, b) ==
    LET leaf == Landing(t.nodes, b)
        nodes == t.nodes \cup UNION {Children(p) : p \in Splits(t, b)}
        refiled == {[e EXCEPT !.at = Landing(nodes, e.box)] : e \in EntriesAt(t, leaf)}
    IN  [t EXCEPT !.nodes = nodes,
                  !.entries = (@ \ EntriesAt(t, leaf)) \cup refiled
                                \cup {[id |-> id, at |-> Landing(nodes, b), box |-> b]}]

\* What remove(id, old_bound) reaches: nodes off the way of old_bound are not
\* looked at.
Reached(t, id, old) ==
    {e \in t.entries : e.id = id /\ Contains(Territory, old) /\ OnChain(e.at, old)}

IdsIn(t) == {e.id : e \in t.entries}

\* find_impl does not enter a node whose boundary misses the area.
Find(t, area) ==
    {e.id : e \in {f \in t.entries :
                     /\ Intersects(f.box, area)
                     /\ \A k \in 0..Len(f.at) : Intersects(Boundary[SubSeq(f.at, 1, k)], area)}}

-----------------------------------------------------------------------------
(* Quadtree: the operations that keep size_.                               *)

Empty == [nodes |-> {<<>>}, entries |-> {}, size |-> 0]

CanAdd(t, id, b) == id \notin IdsIn(t) /\ Contains(Territory, b)

AddEntry(t, id, b) == [Insert(t, id, b) EXCEPT !.size = @ + 1]

RemoveEntry(t, id) ==
    [t EXCEPT !.entries = {e \in @ : e.id # id},
              !.size = IF id \in IdsIn(t) THEN @ - 1 ELSE @]

\* update(id, new, old) = UPDATED; what fails changes nothing.
CanUpdate(t, id, new, old) == Contains(Territory, new) /\ Reached(t, id, old) # {}

UpdateEntry(t, id, new, old) ==
    Insert([t EXCEPT !.entries = @ \ Reached(t, id, old)], id, new)

-----------------------------------------------------------------------------
(* Quadtree::invariants_hold, and what the search relies on.               *)

InvariantsHold(t) ==
    /\ \A p \in t.nodes : Len(p) <= MaxDepth /\ (p # <<>> => Parent(p) \in t.nodes)
    /\ \A e \in t.entries : e.at \in t.nodes /\ Contains(Boundary[e.at], e.box)
    /\ \A e, f \in t.entries : e.id = f.id => e = f
    /\ Cardinality(t.entries) = t.size

\* Every entry lies where its bounds lead: remove(id, old_bound) finds it.
Filed(t) == \A e \in t.entries : e.at = Landing(t.nodes, e.box)

=============================================================================
