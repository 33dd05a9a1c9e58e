----------------------------- MODULE RStarTree -----------------------------
(***************************************************************************)
(* The R*-tree that indexes soil pieces and natures by their boxes         *)
(* (karkinolution/terrain/rtree) and the service that keeps it beside a    *)
(* registry.                                                               *)
(*                                                                         *)
(* Nodes are held by pointer in the code, and an insertion keeps a path of *)
(* pointers while nested insertions change the tree under it, so nodes     *)
(* live in a heap here: a function from addresses to nodes, the root at    *)
(* address 0.  Coordinates are integers.  std::sort keeps the order of     *)
(* equal keys on the sequences the tree sorts (libstdc++ sorts fewer than  *)
(* 17 elements by insertion).  A node's own box is recomputed before every *)
(* read the tree makes of it and is left out: the boxes that steer a       *)
(* search are those of the entries.                                        *)
(*                                                                         *)
(* An entry may hold an id where a walk expects a node: std::get throws,   *)
(* the operation ends where it stands and the entries it still held are    *)
(* gone.  Operations on the tree return the heap they leave and whether    *)
(* they completed.                                                         *)
(***************************************************************************)
EXTENDS Integers, Sequences, FiniteSets, TLC, SequencesExt

CONSTANTS
  Ids,          \* ids a caller may add
  Shape,        \* Shape[id]: the box of the value added under id
  Queries,      \* boxes a caller may search
  Size,         \* width and height of the service, a pair of even numbers
  MaxEntries,   \* RStarTree::MAX_ENTRIES
  MinEntries    \* RStarTree::MIN_ENTRIES

ASSUME OccupancyAssumption ==
  /\ MinEntries \in Nat \ {0, 1}
  /\ MaxEntries \in Nat
  /\ 2 * MinEntries <= MaxEntries + 1

VARIABLES
  heap,      \* address -> [leaf, es]
  registry,  \* ids in the service's registry
  thrown,    \* history: an operation has thrown since the last clear
  deep       \* history: the tree has had three levels since the last clear

vars == <<heap, registry, thrown, deep>>

Root == 0
Axes == 1..2
IsNode(e) == "kid" \in DOMAIN e

-----------------------------------------------------------------------------
(* Box2DMotor *)

Greater(a, b) == IF a > b THEN a ELSE b
Lesser(a, b)  == IF a < b THEN a ELSE b

Width(b, a) == b.hi[a] - b.lo[a]
Area(b)     == Width(b, 1) * Width(b, 2)
Margin(b)   == 2 * (Width(b, 1) + Width(b, 2))

Combine(b, c) == [lo |-> [a \in Axes |-> Lesser(b.lo[a], c.lo[a])],
                  hi |-> [a \in Axes |-> Greater(b.hi[a], c.hi[a])]]

Overlap(b, c) ==
  LET side(a) == Lesser(b.hi[a], c.hi[a]) - Greater(b.lo[a], c.lo[a])
  IN  IF side(1) <= 0 \/ side(2) <= 0 THEN 0 ELSE side(1) * side(2)

Enlargement(b, c) == Area(Combine(b, c)) - Area(b)
Intersect(b, c)   == \A a \in Axes : b.lo[a] <= c.hi[a] /\ b.hi[a] >= c.lo[a]
Encloses(b, c)    == \A a \in Axes : b.lo[a] <= c.lo[a] /\ b.hi[a] >= c.hi[a]

Mbr(es) == FoldLeft(LAMBDA box, e : Combine(box, e.box), es[1].box, es)

-----------------------------------------------------------------------------
(* Choices the algorithms make: the first of the least. *)

\* p comes before q in dictionary order.
Before(p, q) == \E k \in DOMAIN p :
                  p[k] < q[k] /\ \A j \in DOMAIN p : j < k => p[j] = q[j]

\* The smallest index with the least key.
Least(key) == CHOOSE i \in DOMAIN key :
                \A j \in DOMAIN key : ~Before(key[j], key[i]) /\ (j < i => key[j] # key[i])

Total(f, S) == FoldSet(LAMBDA i, sum : sum + f[i], 0, S)

\* The child whose box grows least; ties go to the smaller area.
ChooseByEnlargement(es, box) ==
  Least([i \in DOMAIN es |-> <<Enlargement(es[i].box, box), Area(es[i].box)>>])

\* The child whose overlap with its siblings grows least, candidates taken by
\* enlargement (the 32 candidates of the code are more than a node has).
ChooseByOverlap(es, box) ==
  LET growth(j) == LET others == DOMAIN es \ {j}
                       grown  == Combine(es[j].box, box)
                   IN  Total([i \in others |-> Overlap(grown, es[i].box)
                                              - Overlap(es[j].box, es[i].box)], others)
  IN  Least([j \in DOMAIN es |-> <<growth(j), Enlargement(es[j].box, box)>>])

\* Distance of the doubled centres, squared.
FromCentre(b, c) == LET d(a) == b.lo[a] + b.hi[a] - c.lo[a] - c.hi[a]
                    IN  d(1) * d(1) + d(2) * d(2)

\* std::round(0.3f * MAX_ENTRIES)
Evicted == (3 * MaxEntries + 5) \div 10

\* Indices of the entries farthest from the centre of the node.
Farthest(es) ==
  LET far == [i \in DOMAIN es |-> <<- FromCentre(es[i].box, Mbr(es)), i>>]
  IN  {i \in DOMAIN es : Cardinality({j \in DOMAIN es : Before(far[j], far[i])}) < Evicted}

-----------------------------------------------------------------------------
(* RStarTreeMotor::split *)

\* The entries by upper (1) or lower (2) bound along an axis.
Ordered(es, a, bound) ==
  LET key(e) == IF bound = 1 THEN <<e.box.hi[a], e.box.lo[a]>> ELSE <<e.box.lo[a], e.box.hi[a]>>
      order  == SortSeq([i \in DOMAIN es |-> i],
                        LAMBDA i, j : Before(Append(key(es[i]), i), Append(key(es[j]), j)))
  IN  [i \in DOMAIN es |-> es[order[i]]]

\* What a split into two boxes costs.
Cost(by, b, c) == IF by = "margin" THEN <<Margin(b) + Margin(c)>>
                  ELSE <<Overlap(b, c), Area(b) + Area(c)>>

\* Cost of every admissible split point of an ordering.
Splits(o, by) ==
  [i \in MinEntries..(Len(o) - MinEntries) |->
     Cost(by, Mbr(SubSeq(o, 1, i)), Mbr(SubSeq(o, i + 1, Len(o))))]

\* get_best_ordenation: least total margin over x by max, x by min, y by max, y by min.
BestOrdering(es) ==
  LET orderings == <<Ordered(es, 1, 1), Ordered(es, 1, 2), Ordered(es, 2, 1), Ordered(es, 2, 2)>>
      margin(o) == LET costs == Splits(o, "margin")
                    IN  FoldSet(LAMBDA i, sum : sum + costs[i][1], 0, DOMAIN costs)
  IN  orderings[Least([k \in 1..4 |-> <<margin(orderings[k])>>])]

Cut(o, i) == [left |-> SubSeq(o, 1, i), right |-> SubSeq(o, i + 1, Len(o))]

\* find_best_split_intersection: least overlap, then least area.
CutBest(o) == Cut(o, Least(Splits(o, "overlap")))

Halves(es) == CutBest(BestOrdering(es))

-----------------------------------------------------------------------------
(* Nodes in the heap *)

Fresh(h) == CHOOSE n \in 1..(Cardinality(DOMAIN h) + 1) : n \notin DOMAIN h

\* p's entry for n takes the box of what n holds now, if p has such an entry.
Refresh(h, p, n) ==
  LET here == {i \in DOMAIN h[p].es : IsNode(h[p].es[i]) /\ h[p].es[i].kid = n}
  IN  IF here = {} \/ h[n].es = <<>> THEN h
      ELSE [h EXCEPT ![p].es[CHOOSE i \in here : TRUE].box = Mbr(h[n].es)]

RefreshPath_NotRoot(h, path) ==
  FoldLeft(LAMBDA g, k : Refresh(g, path[Len(path) - k], path[Len(path) - k + 1]),
           h, [k \in 1..(Len(path) - 2) |-> k])

\* refresh_path_mbrs: from the last node of the path to the root.
RefreshPath(h, path) ==
  FoldLeft(LAMBDA g, k : Refresh(g, path[Len(path) - k], path[Len(path) - k + 1]),
           h, [k \in 1..(Len(path) - 1) |-> k])

\* RStarTree::split: n keeps the left half, its parent gets a new node.
Divide(h, n, parent, half) ==
  LET new == Fresh(h)
      g   == [h EXCEPT ![n].es = half.left] @@ (new :> [leaf |-> h[n].leaf, es |-> half.right])
  IN  [Refresh(g, parent, n) EXCEPT
         ![parent].es = Append(@, [box |-> Mbr(half.right), kid |-> new])]

Split(h, n, parent) == Divide(h, n, parent, Halves(h[n].es))

\* split_root: the root object stays and gets two new children; kid is the one
\* an insertion takes for the next node of its path.
DivideRoot(h, half) ==
  LET left  == Fresh(h)
      g     == h @@ (left :> [leaf |-> h[Root].leaf, es |-> half.left])
      right == Fresh(g)
      nodes(es) == \E i \in DOMAIN es : IsNode(es[i])
  IN  [heap |-> [g EXCEPT ![Root] =
                   [leaf |-> FALSE, es |-> <<[box |-> Mbr(half.left), kid |-> left],
                                             [box |-> Mbr(half.right), kid |-> right]>>]]
                @@ (right :> [leaf |-> h[Root].leaf, es |-> half.right]),
       kid  |-> IF nodes(half.left) /\ ~nodes(half.right) THEN left ELSE right]

SplitRoot(h) == DivideRoot(h, Halves(h[Root].es))

\* One step down, by overlap when the children are leaves; no path if the entry
\* chosen holds an id.
Down(h, path, box) ==
  LET es == h[Last(path)].es
      i  == IF IsNode(es[1]) /\ h[es[1].kid].leaf
            THEN ChooseByOverlap(es, box) ELSE ChooseByEnlargement(es, box)
  IN  IF path = <<>> \/ ~IsNode(es[i]) THEN <<>> ELSE Append(path, es[i].kid)

RECURSIVE ChooseLeaf(_, _, _)
ChooseLeaf(h, path, box) ==
  IF path = <<>> \/ h[Last(path)].leaf THEN path ELSE ChooseLeaf(h, Down(h, path, box), box)

ChooseNodeAtDepth(h, box, depth) ==
  FoldLeft(LAMBDA path, k : Down(h, path, box), <<Root>>, [k \in 1..depth |-> k])

-----------------------------------------------------------------------------
(* Operations of the tree *)

\* Nodes of the path above the last one and below the root that overflow.
SplitUp(h, path) ==
  FoldLeft(LAMBDA g, k : LET i == Len(path) - k
                         IN  IF Len(g[path[i]].es) > MaxEntries
                             THEN Split(g, path[i], path[i - 1]) ELSE g,
           h, [k \in 1..(Len(path) - 2) |-> k])

\* The end of an insertion that has not thrown: the root is split if it
\* overflows, and the path refreshed.
Finish(t, path) ==
  LET grown == IF Len(t.heap[Root].es) > MaxEntries THEN SplitRoot(t.heap)
               ELSE [heap |-> t.heap, kid |-> Root]
  IN  IF t.threw THEN t
      ELSE [t EXCEPT !.heap = RefreshPath(grown.heap, IF grown.kid = Root THEN path
                                                      ELSE <<Root, grown.kid>> \o Tail(path))]

\* An entry goes into the last node of the path.  An overflow splits it or,
\* the first time, takes out the farthest entries and inserts them again, each
\* at the depth noted before the first of them went in, before the boxes of
\* this path are refreshed.
RECURSIVE InsertEntry(_, _, _, _)
InsertEntry(h, e, path, reinserted) ==
  LET n     == Last(path)
      full  == [h EXCEPT ![n].es = Append(@, e)]
      es    == full[n].es
      over  == Len(es) > MaxEntries
      out   == IF over /\ ~reinserted THEN Farthest(es) ELSE {}
      keep  == [full EXCEPT ![n].es = FoldLeft(LAMBDA s, i : IF i \in out THEN s ELSE Append(s, es[i]),
                                               <<>>, [i \in DOMAIN es |-> i])]
      made  == IF ~(over /\ reinserted) THEN keep
               ELSE IF Len(path) > 1 THEN Split(full, n, path[Len(path) - 1])
               ELSE SplitRoot(full).heap
      reinsert(g, i) == InsertEntry(g, es[i], ChooseNodeAtDepth(g, es[i].box, Len(path) - 1), TRUE)
      again == FoldLeft(LAMBDA t, i : IF t.threw \/ i \notin out THEN t ELSE reinsert(t.heap, i),
                        [heap |-> SplitUp(made, path), threw |-> FALSE],
                        Reverse([i \in DOMAIN es |-> i]))
  IN  IF path = <<>> THEN [heap |-> h, threw |-> TRUE] ELSE Finish(again, path)

InsertId(h, id, box) ==
  InsertEntry(h, [box |-> box, id |-> id], ChooseLeaf(h, <<Root>>, box), FALSE)

\* get_all_ids, exists
RECURSIVE Under(_, _)
Under(h, n) == UNION {IF IsNode(e) THEN Under(h, e.kid) ELSE {e.id} : e \in ToSet(h[n].es)}

\* find(box)
RECURSIVE Search(_, _, _)
Search(h, n, box) ==
  UNION {IF IsNode(e) THEN Search(h, e.kid, box) ELSE {e.id} :
           e \in {x \in ToSet(h[n].es) : Intersect(box, x.box)}}

\* find_node: the path of nodes to the one that holds id.
RECURSIVE PathTo(_, _, _)
PathTo(h, n, id) ==
  LET es == ToSet(h[n].es)
  IN  IF \E e \in es : ~IsNode(e) /\ e.id = id THEN <<n>>
      ELSE LET e == CHOOSE x \in es : IsNode(x) /\ id \in Under(h, x.kid)
           IN  <<n>> \o PathTo(h, e.kid, id)

Dissolve_LosesOrphans(st, path, i) ==
  LET n == path[i]
  IN  IF Len(st.heap[n].es) >= MinEntries THEN st
      ELSE [st EXCEPT !.heap = [a \in DOMAIN st.heap \ {n} |->
              IF a = path[i - 1]
              THEN [st.heap[a] EXCEPT !.es = SelectSeq(@, LAMBDA e : ~IsNode(e) \/ e.kid # n)]
              ELSE st.heap[a]]]

\* One node of a removal's path: an underfull one leaves its parent and the
\* tree, its entries becoming orphans of its depth.
Dissolve(st, path, i) ==
  LET n == path[i]
  IN  IF Len(st.heap[n].es) >= MinEntries THEN st
      ELSE [heap    |-> [a \in DOMAIN st.heap \ {n} |->
                           IF a = path[i - 1]
                           THEN [st.heap[a] EXCEPT !.es = SelectSeq(@, LAMBDA e : ~IsNode(e) \/ e.kid # n)]
                           ELSE st.heap[a]],
            orphans |-> st.orphans \o [k \in DOMAIN st.heap[n].es |->
                          [entry |-> Reverse(st.heap[n].es)[k], depth |-> i - 1]]]

Collapse_Never(t) == t

\* The end of a removal that has not thrown: a root with a single node below it
\* takes that node's place.
Collapse(t) ==
  LET h  == t.heap
      es == h[Root].es
  IN  IF ~t.threw /\ Len(es) = 1 /\ IsNode(es[1])
      THEN [t EXCEPT !.heap = [a \in DOMAIN h \ {es[1].kid} |->
                                 IF a = Root THEN h[es[1].kid] ELSE h[a]]]
      ELSE t

\* An orphaned node goes in at the depth it had, an id wherever it belongs now.
GiveBack(h, o) ==
  InsertEntry(h, o.entry,
              IF IsNode(o.entry) THEN ChooseNodeAtDepth(h, o.entry.box, o.depth)
              ELSE ChooseLeaf(h, <<Root>>, o.entry.box),
              IsNode(o.entry))

GiveAllBack(st) ==
  FoldLeft(LAMBDA t, o : IF t.threw THEN t ELSE GiveBack(t.heap, o),
           [heap |-> st.heap, threw |-> FALSE], st.orphans)

RemoveId(h, id) ==
  LET path  == PathTo(h, Root, id)
      taken == [h EXCEPT ![Last(path)].es = SelectSeq(@, LAMBDA e : IsNode(e) \/ e.id # id)]
  IN  Collapse(GiveAllBack(
        FoldLeft(LAMBDA st, k : Dissolve(st, path, Len(path) - k + 1),
                 [heap |-> taken, orphans |-> <<>>], [k \in 1..(Len(path) - 1) |-> k])))

-----------------------------------------------------------------------------
(* RSTService: the tree beside a registry *)

\* to_box(size, {0, 0}): the service lies around the origin.
ServiceBox == [lo |-> [a \in Axes |-> - (Size[a] \div 2)], hi |-> [a \in Axes |-> Size[a] \div 2]]

EmptyTree == Root :> [leaf |-> TRUE, es |-> <<>>]

Init == heap = EmptyTree /\ registry = {} /\ thrown = FALSE /\ deep = FALSE

\* The levels at which the leaves below n lie, n being at `level'.
RECURSIVE LeafLevels(_, _, _)
LeafLevels(h, n, level) ==
  IF h[n].leaf THEN {level}
  ELSE UNION {LeafLevels(h, e.kid, level + 1) : e \in {x \in ToSet(h[n].es) : IsNode(x)}}

\* The tree becomes what an operation left, and the registry what the operation
\* has made of it if it completed, or if it threw.
Becomes(t, done, cut) ==
  /\ heap' = t.heap
  /\ registry' = IF t.threw THEN cut ELSE done
  /\ thrown' = (thrown \/ t.threw)
  /\ deep' = (deep \/ \E level \in LeafLevels(heap', Root, 1) : level > 2)

\* The registry takes the value before the tree does.
AddValue(id) ==
  /\ Encloses(ServiceBox, Shape[id])
  /\ id \notin registry
  /\ id \notin Under(heap, Root)
  /\ Becomes(InsertId(heap, id, Shape[id]), registry \cup {id}, registry \cup {id})

\* The registry lets the value go only after the tree has.
RemoveValue(id) ==
  /\ id \in Under(heap, Root)
  /\ id \in registry
  /\ Becomes(RemoveId(heap, id), registry \ {id}, registry)

Clear ==
  /\ registry # {}
  /\ heap' = EmptyTree
  /\ registry' = {}
  /\ thrown' = FALSE
  /\ deep' = FALSE

Next == (\E id \in Ids : AddValue(id) \/ RemoveValue(id)) \/ Clear

Spec == Init /\ [][Next]_vars

-----------------------------------------------------------------------------
(* Properties *)

Nodes == DOMAIN heap
Kids(n) == {e.kid : e \in {x \in ToSet(heap[n].es) : IsNode(x)}}

\* The heap is a tree of well filled nodes after every operation that completes:
\* each node but the root is the child of exactly one entry and holds
\* MIN_ENTRIES..MAX_ENTRIES entries, an inner root at least two.  It stays so
\* when an entry lands at a level that is not its own (an id beside nodes, a
\* subtree in a leaf), which overflows, splits and condensing then meet.
WellFormed ==
  /\ registry \subseteq Ids /\ thrown \in BOOLEAN /\ deep \in BOOLEAN
  /\ ~thrown =>
       /\ \A n \in Nodes :
            /\ heap[n].leaf \in BOOLEAN /\ Kids(n) \subseteq Nodes \ {Root}
            /\ Len(heap[n].es) <= MaxEntries
            /\ n # Root => Len(heap[n].es) >= MinEntries
            /\ n = Root /\ ~heap[n].leaf => Len(heap[n].es) >= 2
       /\ \A n \in Nodes \ {Root} :
            Cardinality({<<p, i>> \in UNION {{p} \X DOMAIN heap[p].es : p \in Nodes} :
                           IsNode(heap[p].es[i]) /\ heap[p].es[i].kid = n}) = 1

\* Forced reinsertion, splits and condensing take entries out of nodes and put
\* them back one by one, at a depth noted before the tree changed: as long as
\* no walk has thrown, no id is lost or doubled on the way, each keeps its box,
\* and the registry and the tree hold the same ids.
IdsKept ==
  ~thrown =>
    /\ Under(heap, Root) = registry
    /\ Total([n \in Nodes |-> Len(heap[n].es) - Cardinality(Kids(n))], Nodes)
         = Cardinality(registry)
    /\ \A n \in Nodes : \A i \in DOMAIN heap[n].es :
         IsNode(heap[n].es[i]) \/ heap[n].es[i].box = Shape[heap[n].es[i].id]

\* A search returns exactly the ids whose boxes meet the query's.
FindExact ==
  \A q \in Queries : Search(heap, Root, q) = {id \in registry : Intersect(q, Shape[id])}

\* Inner nodes hold nodes and leaves hold ids, and all leaves lie on one level:
\* what the tests of the tree assert of every node after every operation.
EntriesInPlace ==
  /\ \A n \in Nodes : \A i \in DOMAIN heap[n].es : IsNode(heap[n].es[i]) = ~heap[n].leaf
  /\ Cardinality(LeafLevels(heap, Root, 1)) = 1

\* Until the tree first has three levels, reinsertion during an overflow and
\* the return of orphans leave no entry at a foreign level and no box of the
\* path too small: no operation throws and a search is exact.
SoundUntilDeep == ~deep => ~thrown /\ EntriesInPlace /\ FindExact
=============================================================================
