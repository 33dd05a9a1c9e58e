---------------------------- MODULE WorldProofs ----------------------------
(***************************************************************************)
(* The registry and the entity map agree, every entity is indexed once, at *)
(* its position and at a size it had, and moves are whole: for any sets of *)
(* entities, places and sizes, and any depth and threshold of the quadtree.*)
(*                                                                         *)
(* The first half does not depend on where the quadtree files an entry: it *)
(* uses what Insert and the removals do to the set of entries, and leaves  *)
(* nodes, boundaries and landing places unexpanded.  The second half       *)
(* shows that the index is exact: boundaries nest, every box has one way   *)
(* from the root and lands where it ends, and a subdivision moves only the *)
(* entries of the leaf it divides.                                         *)
(***************************************************************************)
EXTENDS World, Tallies, SequenceTheorems, TLAPS

IsTree(t) == t = [nodes |-> t.nodes, entries |-> t.entries, size |-> t.size]

IsEntry(e) == e = [id |-> e.id, at |-> e.at, box |-> e.box]

Entries(t) == IsTree(t) /\ \A e \in t.entries : IsEntry(e)

\* Each id has one entry.
Once(t) == \A e, f \in t.entries : e.id = f.id => e = f

\* What an entry says, wherever in the tree it is filed.
Says(t, i, b) == \E e \in t.entries : e.id = i /\ e.box = b

-----------------------------------------------------------------------------
(* The operations of the quadtree, seen through Says.                      *)

\* Filing an entry elsewhere changes nothing else of it.
LEMMA Refile ==
    ASSUME NEW e, IsEntry(e), NEW p
    PROVE  [e EXCEPT !.at = p] = [id |-> e.id, at |-> p, box |-> e.box]
  BY DEF IsEntry

\* The nodes once b is inserted, and how an entry is filed among nodes.
NodesWith(t, b) == t.nodes \cup UNION {Children(p) : p \in Splits(t, b)}

Filing(nodes, i, b) == [id |-> i, at |-> Landing(nodes, b), box |-> b]

\* The parts of an entry that is filed.
LEMMA FilingIs ==
    \A nodes, i, b : LET f == Filing(nodes, i, b)
                     IN  f.id = i /\ f.box = b /\ f.at = Landing(nodes, b) /\ IsEntry(f)
  BY DEF Filing, IsEntry

\* Insert files the new entry, and again those of the leaf it lands on.
LEMMA InsertIs ==
    ASSUME NEW t, Entries(t), NEW i, NEW b
    PROVE  LET u == Insert(t, i, b)
               here == EntriesAt(t, Landing(t.nodes, b))
           IN  /\ IsTree(u) /\ u.nodes = NodesWith(t, b) /\ u.size = t.size
               /\ \A f : f \in u.entries <=>
                            \/ f \in t.entries /\ f \notin here
                            \/ \E e \in here : f = Filing(u.nodes, e.id, e.box)
                            \/ f = Filing(u.nodes, i, b)
<1> DEFINE nodes == NodesWith(t, b)
           here == EntriesAt(t, Landing(t.nodes, b))
           refiled == {[e EXCEPT !.at = Landing(nodes, e.box)] : e \in here}
           F(id, box) == Filing(nodes, id, box)
           entries == (t.entries \ here) \cup refiled \cup {F(i, b)}
           u == Insert(t, i, b)
<1>1. u = [nodes |-> nodes, entries |-> entries, size |-> t.size]
  <2>1. u = [t EXCEPT !.nodes = nodes, !.entries = entries]
    BY DEF Insert, NodesWith, Filing
  <2> HIDE DEF u, nodes, entries
  <2> QED
    BY <2>1 DEF Entries, IsTree
<1>2. \A e \in here : IsEntry(e)
  BY DEF Entries, EntriesAt
<1>3. \A e \in here : [e EXCEPT !.at = Landing(nodes, e.box)] = F(e.id, e.box)
  BY <1>2, Refile DEF Filing
<1>4. \A f : f \in refiled <=> \E e \in here : f = F(e.id, e.box)
  <2>1. \A f : f \in refiled <=> \E e \in here : f = [e EXCEPT !.at = Landing(nodes, e.box)]
    OBVIOUS
  <2>2. ASSUME NEW f \in refiled PROVE \E e \in here : f = F(e.id, e.box)
    <3>1. PICK e \in here : f = [e EXCEPT !.at = Landing(nodes, e.box)]
      BY <2>1
    <3>2. f = F(e.id, e.box)
      BY <3>1, <1>3
    <3> QED
      BY <3>2
  <2>3. ASSUME NEW e \in here PROVE F(e.id, e.box) \in refiled
    <3>1. [e EXCEPT !.at = Landing(nodes, e.box)] \in refiled
      OBVIOUS
    <3> QED
      BY <3>1, <1>3
  <2> HIDE DEF nodes, here, F, refiled
  <2> QED
    BY <2>2, <2>3
<1>5. \A f : f \in entries <=> \/ f \in t.entries /\ f \notin here
                               \/ \E e \in here : f = F(e.id, e.box)
                               \/ f = F(i, b)
  <2> HIDE DEF here, F, refiled
  <2> QED
    BY <1>4
<1>6. IsTree(u) /\ u.entries = entries /\ u.nodes = nodes /\ u.size = t.size
  <2> HIDE DEF nodes, entries, u
  <2> QED
    BY <1>1 DEF IsTree
<1> QED
  BY <1>5, <1>6

\* Inserting adds what the new entry says and changes no other.
LEMMA InsertSays ==
    ASSUME NEW t, Entries(t), NEW i, NEW b
    PROVE  /\ Entries(Insert(t, i, b))
           /\ \A j, c : Says(Insert(t, i, b), j, c) <=> Says(t, j, c) \/ (j = i /\ c = b)
           /\ Once(t) /\ i \notin IdsIn(t) => Once(Insert(t, i, b))
<1> DEFINE u == Insert(t, i, b)
           here == EntriesAt(t, Landing(t.nodes, b))
           F(id, box) == Filing(u.nodes, id, box)
<1>1. here \subseteq t.entries /\ \A e \in t.entries : IsEntry(e)
  BY DEF Entries, EntriesAt
<1>2. /\ IsTree(u)
      /\ \A f : f \in u.entries <=> \/ f \in t.entries /\ f \notin here
                                    \/ \E e \in here : f = F(e.id, e.box)
                                    \/ f = F(i, b)
  BY InsertIs
<1>3. \A id, box : LET f == F(id, box) IN f.id = id /\ f.box = box /\ IsEntry(f)
  BY FilingIs
<1> HIDE DEF here, F, u
<1>4. Entries(u)
  BY <1>1, <1>2, <1>3 DEF Entries
<1>5. ASSUME NEW j, NEW c PROVE Says(u, j, c) <=> Says(t, j, c) \/ (j = i /\ c = b)
  <2>1. ASSUME Says(u, j, c) PROVE Says(t, j, c) \/ (j = i /\ c = b)
    BY <2>1, <1>1, <1>2, <1>3 DEF Says
  <2>2. ASSUME Says(t, j, c) PROVE Says(u, j, c)
    <3>1. PICK e \in t.entries : e.id = j /\ e.box = c
      BY <2>2 DEF Says
    <3>2. CASE e \notin here
      BY <3>1, <3>2, <1>2 DEF Says
    <3>3. CASE e \in here
      <4>1. F(e.id, e.box) \in u.entries
        BY <3>3, <1>2
      <4> QED
        BY <4>1, <3>1, <1>3 DEF Says
    <3> QED
      BY <3>2, <3>3
  <2>3. Says(u, i, b)
    <3>1. F(i, b) \in u.entries
      BY <1>2
    <3> QED
      BY <3>1, <1>3 DEF Says
  <2> QED
    BY <2>1, <2>2, <2>3
<1>6. ASSUME Once(t), i \notin IdsIn(t) PROVE Once(u)
  BY <1>1, <1>2, <1>3, <1>6 DEF Once, IdsIn
<1> QED
  BY <1>4, <1>5, <1>6 DEF u

\* An id is in the tree when some entry of it says something.
LEMMA SaysIds == \A t, i : i \in IdsIn(t) <=> \E b : Says(t, i, b)
  BY DEF Says, IdsIn

\* The counter is of no consequence for the entries.
LEMMA CountedSays ==
    ASSUME NEW t, Entries(t), NEW n
    PROVE  LET u == [t EXCEPT !.size = n] IN Entries(u) /\ u.entries = t.entries
  BY DEF Entries, IsTree

\* So does an addition, whose id was not there before.
LEMMA AddSays ==
    ASSUME NEW t, Entries(t), NEW i, NEW b, CanAdd(t, i, b)
    PROVE  /\ Entries(AddEntry(t, i, b))
           /\ \A j, c : Says(AddEntry(t, i, b), j, c) <=> Says(t, j, c) \/ (j = i /\ c = b)
           /\ Once(t) => Once(AddEntry(t, i, b))
<1> DEFINE u == Insert(t, i, b)
<1>1. AddEntry(t, i, b) = [u EXCEPT !.size = u.size + 1]
  BY DEF AddEntry
<1>2. Entries(u) /\ i \notin IdsIn(t)
  BY InsertSays DEF CanAdd
<1> HIDE DEF u
<1>3. Entries(AddEntry(t, i, b)) /\ AddEntry(t, i, b).entries = u.entries
  BY <1>1, <1>2, CountedSays
<1>4. /\ \A j, c : Says(u, j, c) <=> Says(t, j, c) \/ (j = i /\ c = b)
      /\ Once(t) => Once(u)
  BY <1>2, InsertSays DEF u
<1> QED
  BY <1>3, <1>4 DEF Says, Once

\* A tree with other entries.
LEMMA WithEntries ==
    ASSUME NEW t, IsTree(t), NEW s
    PROVE  LET w == [t EXCEPT !.entries = s] IN IsTree(w) /\ w.entries = s
  BY DEF IsTree

\* Dropping every entry of an id.
LEMMA WithoutSays ==
    ASSUME NEW t, Entries(t), NEW i, NEW w,
           w = [t EXCEPT !.entries = {e \in t.entries : e.id # i}]
    PROVE  /\ Entries(w) /\ i \notin IdsIn(w)
           /\ \A j, c : Says(w, j, c) <=> Says(t, j, c) /\ j # i
           /\ Once(t) => Once(w)
<1> DEFINE kept == {e \in t.entries : e.id # i}
<1>1. IsTree(w) /\ w.entries = kept
  <2>1. w = [t EXCEPT !.entries = kept]
    OBVIOUS
  <2> QED
    BY <2>1, WithEntries DEF Entries
<1>2. \A e : e \in kept <=> e \in t.entries /\ e.id # i
  OBVIOUS
<1> HIDE DEF kept
<1> QED
  BY <1>1, <1>2 DEF Entries, Says, Once, IdsIn

\* A removal drops what the entries of the id say, and no more.
LEMMA RemoveSays ==
    ASSUME NEW t, Entries(t), NEW i
    PROVE  /\ Entries(RemoveEntry(t, i))
           /\ \A j, c : Says(RemoveEntry(t, i), j, c) <=> Says(t, j, c) /\ j # i
           /\ Once(t) => Once(RemoveEntry(t, i))
<1> DEFINE w == [t EXCEPT !.entries = {e \in t.entries : e.id # i}]
           n == IF i \in IdsIn(t) THEN t.size - 1 ELSE t.size
<1>1. RemoveEntry(t, i) = [w EXCEPT !.size = n]
  BY DEF RemoveEntry, Entries, IsTree
<1>2. /\ Entries(w)
      /\ \A j, c : Says(w, j, c) <=> Says(t, j, c) /\ j # i
      /\ Once(t) => Once(w)
  BY WithoutSays
<1> HIDE DEF w, n
<1>3. Entries(RemoveEntry(t, i)) /\ RemoveEntry(t, i).entries = w.entries
  BY <1>1, <1>2, CountedSays
<1> QED
  BY <1>2, <1>3 DEF Says, Once

\* An update that reaches the entry replaces it, and is refused otherwise.
LEMMA UpdateSays ==
    ASSUME NEW t, Entries(t), Once(t), NEW i, NEW new, NEW old, CanUpdate(t, i, new, old)
    PROVE  /\ Entries(UpdateEntry(t, i, new, old))
           /\ \A j, c : Says(UpdateEntry(t, i, new, old), j, c)
                          <=> (j # i /\ Says(t, j, c)) \/ (j = i /\ c = new)
           /\ Once(UpdateEntry(t, i, new, old))
           /\ i \in IdsIn(t)
<1> DEFINE w == [t EXCEPT !.entries = @ \ Reached(t, i, old)]
<1>1. Reached(t, i, old) = {e \in t.entries : e.id = i}
  BY DEF CanUpdate, Reached, Once
<1>2. w = [t EXCEPT !.entries = {e \in t.entries : e.id # i}]
  <2>1. t.entries \ {e \in t.entries : e.id = i} = {e \in t.entries : e.id # i}
    OBVIOUS
  <2> QED
    BY <1>1, <2>1
<1>3. Entries(w) /\ Once(w) /\ i \notin IdsIn(w)
  BY <1>2, WithoutSays
<1>4. \A j, c : Says(w, j, c) <=> j # i /\ Says(t, j, c)
  BY <1>2, WithoutSays
<1>5. i \in IdsIn(t)
  BY <1>1 DEF CanUpdate, IdsIn
<1> HIDE DEF w
<1>6. UpdateEntry(t, i, new, old) = Insert(w, i, new)
  BY DEF UpdateEntry, w
<1> QED
  BY <1>3, <1>4, <1>5, <1>6, InsertSays

-----------------------------------------------------------------------------
(* The registry and the map, together.                                     *)

\* A box that entity i may be filed under: where it is, at a size it had.
Had(r, i, b) == \E s \in Sizes : s <= r[i].size /\ b = ToAABB(s, r[i].pos)

Agree(r, t) ==
    /\ r \in [Ids -> Entity \cup {NoEntity}]
    /\ Entries(t) /\ Once(t)
    /\ \A i \in Ids : r[i] # NoEntity <=> i \in IdsIn(t)
    /\ \A i, b : Says(t, i, b) => i \in Ids /\ Had(r, i, b)

\* Replacing registered entities by ones at the same place and no smaller keeps
\* the agreement: what entities do to themselves and to their meals.
LEMMA ChangesAgree ==
    ASSUME NEW r, NEW t, Agree(r, t), NEW q \in [Ids -> Entity \cup {NoEntity}],
           \A i \in Ids : /\ r[i] = NoEntity <=> q[i] = NoEntity
                          /\ q[i] # NoEntity => q[i].pos = r[i].pos /\ q[i].size >= r[i].size
    PROVE  Agree(q, t)
<1>1. \A i \in Ids : q[i] # NoEntity <=> i \in IdsIn(t)
  BY DEF Agree
<1>2. ASSUME NEW i, NEW b, Says(t, i, b) PROVE i \in Ids /\ Had(q, i, b)
  <2>1. i \in Ids /\ Had(r, i, b) /\ i \in IdsIn(t)
    BY <1>2, SaysIds DEF Agree
  <2>2. r[i] \in Entity /\ q[i] \in Entity
    BY <2>1, <1>1 DEF Agree
  <2>3. PICK s \in Sizes : s <= r[i].size /\ b = ToAABB(s, r[i].pos)
    BY <2>1 DEF Had
  <2>4. s \in Nat /\ r[i].size \in Nat /\ q[i].size \in Nat /\ q[i].size >= r[i].size /\ q[i].pos = r[i].pos
    BY <2>1, <2>2, <1>1, WorldAssumption DEF Entity
  <2>5. s <= q[i].size
    BY <2>3, <2>4
  <2> QED
    BY <2>1, <2>3, <2>4, <2>5 DEF Had
<1> QED
  BY <1>1, <1>2 DEF Agree

\* An addition, accepted or refused, keeps registry and map in agreement.
LEMMA AddAgrees ==
    ASSUME Agree(registry, tree), NEW i \in Ids, NEW e \in Entity, Add(i, e)
    PROVE  Agree(registry', tree')
<1>1. CASE ~CanAdd(tree, i, Bounds(e))
  BY <1>1 DEF Add, Agree, Entries, IsTree, Once, IdsIn, Says, Had
<1>2. CASE CanAdd(tree, i, Bounds(e))
  <2>1. i \notin IdsIn(tree) /\ registry[i] = NoEntity
    BY <1>2 DEF CanAdd, Agree
  <2>2. tree' = AddEntry(tree, i, Bounds(e)) /\ registry' = [registry EXCEPT ![i] = e]
    BY <1>2, <2>1 DEF Add, InRegistry
  <2>3. /\ Entries(tree') /\ Once(tree')
        /\ \A j, c : Says(tree', j, c) <=> Says(tree, j, c) \/ (j = i /\ c = Bounds(e))
    BY <1>2, <2>2, AddSays DEF Agree
  <2>4. registry' \in [Ids -> Entity \cup {NoEntity}] /\ registry'[i] = e /\ e # NoEntity
    BY <2>2, WorldAssumption DEF Agree
  <2>5. \A j \in Ids : j # i => registry'[j] = registry[j]
    BY <2>2 DEF Agree
  <2>6. \A j \in Ids : registry'[j] # NoEntity <=> j \in IdsIn(tree')
    BY <2>3, <2>4, <2>5, SaysIds DEF Agree
  <2>7. ASSUME NEW j, NEW c, Says(tree', j, c) PROVE j \in Ids /\ Had(registry', j, c)
    <3>1. CASE Says(tree, j, c)
      <4>1. j \in Ids /\ j # i /\ Had(registry, j, c)
        BY <3>1, <2>1, SaysIds DEF Agree
      <4> QED
        BY <4>1, <2>5 DEF Had
    <3>2. CASE j = i /\ c = Bounds(e)
      <4>1. e.size \in Sizes
        BY DEF Entity
      <4>2. e.size \in Nat
        BY <4>1, WorldAssumption
      <4>3. e.size <= e.size
        BY <4>2
      <4> QED
        BY <4>1, <4>3, <3>2, <2>4 DEF Had, Bounds
    <3> QED
      BY <3>1, <3>2, <2>3, <2>7
  <2> QED
    BY <2>3, <2>4, <2>6, <2>7 DEF Agree
<1> QED
  BY <1>1, <1>2

\* So does a removal.
LEMMA RemovedAgrees ==
    ASSUME Agree(registry, tree), NEW i \in Ids
    PROVE  Agree(Removed(i).registry, Removed(i).tree)
<1> DEFINE r == Removed(i).registry
           t == Removed(i).tree
<1>1. CASE ~Exists(i)
  BY <1>1 DEF Removed
<1>2. CASE Exists(i)
  <2>1. r = [registry EXCEPT ![i] = NoEntity] /\ t = RemoveEntry(tree, i)
    BY <1>2 DEF Removed
  <2>2. /\ Entries(t) /\ Once(t)
        /\ \A j, c : Says(t, j, c) <=> Says(tree, j, c) /\ j # i
    BY <2>1, RemoveSays DEF Agree
  <2> HIDE DEF r, t
  <2>3. /\ r \in [Ids -> Entity \cup {NoEntity}] /\ r[i] = NoEntity
        /\ \A j \in Ids : j # i => r[j] = registry[j]
    BY <2>1 DEF Agree
  <2>4. \A j \in Ids : r[j] # NoEntity <=> j \in IdsIn(t)
    BY <2>2, <2>3, SaysIds DEF Agree
  <2>5. \A j, c : Says(t, j, c) => j \in Ids /\ Had(r, j, c)
    BY <2>2, <2>3 DEF Agree, Had
  <2> QED
    BY <2>2, <2>3, <2>4, <2>5 DEF Agree, r, t
<1> QED
  BY <1>1, <1>2

\* An accepted move has the entity indexed at its new place and its size now.
LEMMA UpdateAgrees ==
    ASSUME NEW r, Agree(r, tree), NEW i \in Ids, NEW p \in Positions, Update(r, i, p)
    PROVE  /\ Agree(registry', tree')
           /\ \/ registry' = r /\ tree' = tree
              \/ /\ registry' = [r EXCEPT ![i].pos = p]
                 /\ \A j, c : Says(tree', j, c)
                       <=> (j # i /\ Says(tree, j, c)) \/ (j = i /\ c = ToAABB(r[i].size, p))
<1>1. CASE ~Accepts(r, i, p)
  BY <1>1 DEF Update
<1>2. CASE Accepts(r, i, p)
  <2> DEFINE new == ToAABB(r[i].size, p)
  <2>1. /\ registry' = [r EXCEPT ![i].pos = p]
        /\ tree' = UpdateEntry(tree, i, new, Bounds(r[i]))
        /\ CanUpdate(tree, i, new, Bounds(r[i])) /\ r[i] # NoEntity
    BY <1>2 DEF Update, Accepts
  <2>2. r[i] \in Entity
    BY <2>1 DEF Agree
  <2> HIDE DEF new
  <2>3. /\ Entries(tree') /\ Once(tree') /\ i \in IdsIn(tree)
        /\ \A j, c : Says(tree', j, c) <=> (j # i /\ Says(tree, j, c)) \/ (j = i /\ c = new)
    BY <2>1, UpdateSays DEF Agree
  <2>4. [r[i] EXCEPT !.pos = p] \in Entity
    BY <2>2 DEF Entity
  <2>5. registry' = [r EXCEPT ![i] = [r[i] EXCEPT !.pos = p]]
    BY <2>1
  <2>6. /\ registry' \in [Ids -> Entity \cup {NoEntity}]
        /\ registry'[i] # NoEntity
        /\ \A j \in Ids : j # i => registry'[j] = r[j]
    BY <2>4, <2>5, WorldAssumption DEF Agree
  <2>7. registry'[i].size = r[i].size /\ registry'[i].pos = p
    BY <2>2, <2>5 DEF Agree, Entity
  <2>8. \A j \in Ids : registry'[j] # NoEntity <=> j \in IdsIn(tree')
    BY <2>1, <2>3, <2>6, SaysIds DEF Agree
  <2>9. ASSUME NEW j, NEW c, Says(tree', j, c) PROVE j \in Ids /\ Had(registry', j, c)
    <3>1. CASE j # i /\ Says(tree, j, c)
      BY <3>1, <2>6 DEF Agree, Had
    <3>2. CASE j = i /\ c = new
      <4>1. r[i].size \in Sizes
        BY <2>2 DEF Entity
      <4>2. r[i].size \in Nat
        BY <4>1, WorldAssumption
      <4>3. r[i].size <= r[i].size
        BY <4>2
      <4> QED
        BY <3>2, <4>1, <4>3, <2>7 DEF Had, new
    <3> QED
      BY <3>1, <3>2, <2>3, <2>9
  <2>10. Agree(registry', tree')
    BY <2>3, <2>6, <2>8, <2>9 DEF Agree
  <2> QED
    BY <2>1, <2>3, <2>10 DEF new
<1> QED
  BY <1>1, <1>2

\* An entity that stays where it is and does not shrink.
LEMMA OneChangeAgrees ==
    ASSUME NEW r, NEW t, Agree(r, t), NEW i \in Ids, r[i] # NoEntity, NEW e \in Entity,
           e.pos = r[i].pos, e.size >= r[i].size
    PROVE  Agree([r EXCEPT ![i] = e], t)
<1> DEFINE q == [r EXCEPT ![i] = e]
<1>1. q \in [Ids -> Entity \cup {NoEntity}] /\ e # NoEntity
  BY WorldAssumption DEF Agree
<1>2. q[i] = e /\ \A j \in Ids : j # i => q[j] = r[j]
  BY DEF Agree
<1>3. \A j \in Ids : r[j] # NoEntity => r[j].size \in Nat /\ r[j].size >= r[j].size
  <2> TAKE j \in Ids
  <2> HAVE r[j] # NoEntity
  <2>1. r[j] \in Entity
    BY DEF Agree
  <2>2. r[j].size \in Nat
    BY <2>1, WorldAssumption DEF Entity
  <2> QED
    BY <2>2
<1> HIDE DEF q
<1>4. \A j \in Ids : /\ r[j] = NoEntity <=> q[j] = NoEntity
                     /\ q[j] # NoEntity => q[j].pos = r[j].pos /\ q[j].size >= r[j].size
  BY <1>1, <1>2, <1>3
<1>5. Agree(q, t)
  BY <1>1, <1>4, ChangesAgree
<1> QED
  BY <1>5 DEF q

\* A meal changes a corpse's meat and nothing else.
LEMMA MealsAgree ==
    ASSUME NEW r, NEW t, Agree(r, t), NEW seen, NEW q \in Meals(r, seen)
    PROVE  /\ Agree(q, t)
           /\ \A i \in Ids : r[i] # NoEntity => q[i].pos = r[i].pos
<1>1. CASE q = r
  BY <1>1
<1>2. CASE q # r
  <2>1. PICK c \in {x \in seen \cap Corpses : r[x] # NoEntity} :
              q \in {[r EXCEPT ![c].meat = m] : m \in 0..r[c].meat}
    BY <1>2 DEF Meals
  <2>2. PICK m \in 0..r[c].meat : q = [r EXCEPT ![c].meat = m]
    BY <2>1
  <2>3. c \in Ids /\ r[c] \in Entity
    BY <2>1 DEF Ids, Agree
  <2>4. m \in 0..MaxMeat
    <3>1. r[c].meat \in 0..MaxMeat
      BY <2>3 DEF Entity
    <3> QED
      BY <3>1, <2>2, WorldAssumption
  <2> DEFINE e == [r[c] EXCEPT !.meat = m]
  <2>5. e \in Entity /\ e.pos = r[c].pos /\ e.size = r[c].size
    BY <2>3, <2>4 DEF Entity
  <2>6. e.size >= r[c].size
    <3>1. r[c].size \in Nat
      BY <2>3, WorldAssumption DEF Entity
    <3> QED
      BY <3>1, <2>5
  <2>7. q = [r EXCEPT ![c] = e]
    BY <2>2
  <2> HIDE DEF e
  <2>8. Agree(q, t)
    BY <2>1, <2>3, <2>5, <2>6, <2>7, OneChangeAgrees
  <2>9. \A i \in Ids : r[i] # NoEntity => q[i].pos = r[i].pos
    BY <2>3, <2>5, <2>7 DEF Agree
  <2> QED
    BY <2>8, <2>9
<1> QED
  BY <1>1, <1>2

\* An entity that has grown.
LEMMA GrownAgrees ==
    ASSUME NEW r, NEW t, Agree(r, t), NEW i \in Ids, r[i] # NoEntity, NEW e \in Grown(r[i])
    PROVE  e \in Entity /\ e.pos = r[i].pos /\ Agree([r EXCEPT ![i] = e], t)
<1>1. r[i] \in Entity
  BY DEF Agree
<1>2. PICK s \in {z \in Sizes : z >= r[i].size} : e = [r[i] EXCEPT !.size = s]
  BY DEF Grown
<1>3. s \in Sizes /\ s >= r[i].size
  OBVIOUS
<1>4. e \in Entity /\ e.pos = r[i].pos /\ e.size = s
  BY <1>1, <1>2, <1>3 DEF Entity
<1> QED
  BY <1>3, <1>4, OneChangeAgrees

\* One field that is neither place nor size.
LEMMA LifeAgrees ==
    ASSUME NEW r, NEW t, Agree(r, t), NEW i \in Ids, r[i] # NoEntity, NEW a \in BOOLEAN
    PROVE  Agree([r EXCEPT ![i].alive = a], t)
<1>1. r[i] \in Entity
  BY DEF Agree
<1>2. r[i].size \in Nat
  BY <1>1, WorldAssumption DEF Entity
<1> DEFINE e == [r[i] EXCEPT !.alive = a]
<1>3. e \in Entity /\ e.pos = r[i].pos /\ e.size = r[i].size
  BY <1>1 DEF Entity
<1>4. e.size >= r[i].size
  BY <1>2, <1>3
<1>5. [r EXCEPT ![i].alive = a] = [r EXCEPT ![i] = e]
  OBVIOUS
<1> HIDE DEF e
<1> QED
  BY <1>3, <1>4, <1>5, OneChangeAgrees

\* A corpse that has rotted.
LEMMA MeatAgrees ==
    ASSUME NEW r, NEW t, Agree(r, t), NEW i \in Ids, r[i] # NoEntity, r[i].meat > 1
    PROVE  Agree([r EXCEPT ![i].meat = @ - 1], t)
<1>1. r[i] \in Entity
  BY DEF Agree
<1>2. r[i].size \in Nat /\ r[i].meat \in 0..MaxMeat
  BY <1>1, WorldAssumption DEF Entity
<1>3. r[i].meat - 1 \in 0..MaxMeat
  BY <1>2, WorldAssumption
<1> DEFINE e == [r[i] EXCEPT !.meat = r[i].meat - 1]
<1>4. e \in Entity /\ e.pos = r[i].pos /\ e.size = r[i].size
  BY <1>1, <1>3 DEF Entity
<1>5. e.size >= r[i].size
  BY <1>2, <1>4
<1>6. [r EXCEPT ![i].meat = @ - 1] = [r EXCEPT ![i] = e]
  OBVIOUS
<1> HIDE DEF e
<1> QED
  BY <1>4, <1>5, <1>6, OneChangeAgrees

-----------------------------------------------------------------------------
(* Steps.                                                                  *)

SamePlaces ==
    \A j \in Ids : registry[j] # NoEntity /\ registry'[j] # NoEntity
                      => registry'[j].pos = registry[j].pos

\* At most one entity moved, and it is indexed where it went.
MovedOne ==
    \E i \in Ids :
        /\ \A j \in Ids : j # i /\ registry[j] # NoEntity /\ registry'[j] # NoEntity
                            => registry'[j].pos = registry[j].pos
        /\ registry'[i] # NoEntity
              => Says(tree', i, ToAABB(registry'[i].size, registry'[i].pos))
        /\ \A j, c : j # i /\ Says(tree, j, c) => Says(tree', j, c)

Kept == Agree(registry', tree') /\ (SamePlaces \/ MovedOne)

\* An addition moves nobody.
LEMMA AddKeeps ==
    ASSUME Agree(registry, tree), NEW i \in Ids, NEW e \in Entity, Add(i, e)
    PROVE  Kept
<1>1. SamePlaces
  BY DEF Add, Agree, SamePlaces, InRegistry
<1> QED
  BY <1>1, AddAgrees DEF Kept

\* Nor does a removal.
LEMMA RemovedKeeps ==
    ASSUME Agree(registry, tree), NEW i \in Ids, Remove(i)
    PROVE  Kept
<1>1. SamePlaces
  BY DEF Remove, Removed, Agree, SamePlaces
<1> QED
  BY <1>1, RemovedAgrees DEF Kept, Remove

\* What a creature that grew into e does: nothing, a meal, a move.
LEMMA CreatureKeeps ==
    ASSUME Agree(registry, tree), NEW i \in Ids, RunCreature(i)
    PROVE  Kept
<1>1. registry[i] # NoEntity
  BY DEF RunCreature, Runs, InRegistry
<1>2. PICK e \in Grown(registry[i]) :
          \/ Acts(i, e)
          \/ registry' = [registry EXCEPT ![i] = e] /\ UNCHANGED tree
  BY DEF RunCreature
<1> DEFINE r == [registry EXCEPT ![i] = e]
<1>3. Agree(r, tree) /\ e \in Entity /\ e.pos = registry[i].pos
  BY <1>1, GrownAgrees
<1>4. /\ r[i] = e /\ e # NoEntity
      /\ \A j \in Ids : j # i => r[j] = registry[j]
  BY <1>3, WorldAssumption DEF Agree
<1>5. /\ \A j \in Ids : r[j] # NoEntity <=> registry[j] # NoEntity
      /\ \A j \in Ids : r[j] # NoEntity => r[j].pos = registry[j].pos
  BY <1>1, <1>3, <1>4
<1> HIDE DEF r
<1>6. CASE registry' = r /\ UNCHANGED tree
  BY <1>3, <1>5, <1>6 DEF Kept, SamePlaces
<1>7. CASE registry' \in Meals(r, Sees(tree, e)) /\ UNCHANGED tree
  <2>1. Agree(registry', tree) /\ \A j \in Ids : r[j] # NoEntity => registry'[j].pos = r[j].pos
    BY <1>3, <1>7, MealsAgree
  <2> QED
    BY <2>1, <1>5, <1>7 DEF Kept, SamePlaces
<1>8. ASSUME NEW p \in Positions, Update(r, i, p) PROVE Kept
  <2>1. /\ Agree(registry', tree')
        /\ \/ registry' = r /\ tree' = tree
           \/ /\ registry' = [r EXCEPT ![i].pos = p]
              /\ \A j, c : Says(tree', j, c)
                    <=> (j # i /\ Says(tree, j, c)) \/ (j = i /\ c = ToAABB(r[i].size, p))
    BY <1>3, <1>8, UpdateAgrees
  <2>2. CASE registry' = r /\ tree' = tree
    BY <1>6, <2>2
  <2>3. CASE registry' = [r EXCEPT ![i].pos = p]
    <3>1. registry'[i].pos = p /\ registry'[i].size = r[i].size
      BY <1>3, <1>4, <2>3 DEF Agree, Entity
    <3>2. \A j \in Ids : j # i => registry'[j] = r[j]
      BY <1>3, <2>3 DEF Agree
    <3>3. MovedOne \/ (registry' = r /\ tree' = tree)
      BY <2>1, <3>1, <3>2, <1>5 DEF MovedOne
    <3> QED
      BY <2>1, <2>2, <3>3 DEF Kept
  <2> QED
    BY <2>1, <2>2, <2>3
<1> QED
  BY <1>2, <1>6, <1>7, <1>8 DEF Acts, r

\* Nor does what is left of a dead creature, which may still eat.
LEMMA DeadCreatureKeeps ==
    ASSUME Agree(registry, tree), NEW i \in Ids, RunDeadCreature(i)
    PROVE  Kept
<1> DEFINE w == Removed(i)
<1>1. Agree(w.registry, w.tree)
  BY RemovedAgrees
<1>2. \A j \in Ids : w.registry[j] # NoEntity => registry[j] = w.registry[j]
  BY DEF Removed, Agree
<1>3. tree' = w.tree /\ \E seen : registry' \in Meals(w.registry, seen)
  BY DEF RunDeadCreature, Meals
<1> HIDE DEF w
<1>4. PICK seen : registry' \in Meals(w.registry, seen)
  BY <1>3
<1>5. /\ Agree(registry', w.tree)
      /\ \A j \in Ids : w.registry[j] # NoEntity => registry'[j].pos = w.registry[j].pos
  BY <1>1, <1>4, MealsAgree
<1>6. \A j \in Ids : registry'[j] # NoEntity => w.registry[j] # NoEntity
  BY <1>1, <1>5 DEF Agree
<1>7. SamePlaces
  BY <1>2, <1>5, <1>6 DEF SamePlaces
<1> QED
  BY <1>3, <1>5, <1>7 DEF Kept

\* Every step keeps the agreement, and moves one entity at most.
LEMMA NextKeeps ==
    ASSUME Agree(registry, tree), [Next]_vars
    PROVE  Kept
<1>1. ASSUME UNCHANGED <<registry, tree>> PROVE Kept
  BY <1>1 DEF Kept, SamePlaces
<1>2. CASE UNCHANGED vars
  BY <1>1, <1>2 DEF vars
<1>3. CASE AddEntity
  <2>1. PICK i \in Ids, p \in Positions, s \in Sizes :
            Add(i, [pos |-> p, size |-> s, alive |-> TRUE,
                    meat |-> IF i \in Corpses THEN MaxMeat ELSE 0])
    BY <1>3 DEF AddEntity
  <2>2. [pos |-> p, size |-> s, alive |-> TRUE,
         meat |-> IF i \in Corpses THEN MaxMeat ELSE 0] \in Entity
    BY WorldAssumption DEF Entity
  <2> QED
    BY <2>1, <2>2, AddKeeps
<1>4. ASSUME NEW i \in Creatures, MakeCreature(i) PROVE Kept
  <2>1. PICK p \in Positions, s \in Sizes :
            Add(i, [pos |-> p, size |-> s, alive |-> TRUE, meat |-> 0])
    BY <1>4 DEF MakeCreature
  <2>2. [pos |-> p, size |-> s, alive |-> TRUE, meat |-> 0] \in Entity
    BY WorldAssumption DEF Entity
  <2> QED
    BY <2>1, <2>2, AddKeeps DEF Ids
<1>5. ASSUME NEW i \in Creatures, Attack(i) PROVE Kept
  <2>1. i \in Ids /\ registry[i] # NoEntity
    BY <1>5 DEF Attack, InRegistry, Ids
  <2>2. Agree(registry', tree')
    BY <1>5, <2>1, LifeAgrees DEF Attack
  <2>3. SamePlaces
    BY <1>5, <2>1 DEF Attack, SamePlaces, Agree, Entity
  <2> QED
    BY <2>2, <2>3 DEF Kept
<1>6. CASE BeginTick
  BY <1>1, <1>6 DEF BeginTick
<1>7. ASSUME NEW i \in Ids, Run(i) PROVE Kept
  <2>1. registry[i] # NoEntity
    BY <1>7 DEF Run, RunCreature, RunDeadCreature, RunEmbryo, RunDeadEmbryo, RunCorpse, RunEgg,
                Runs, InRegistry
  <2>2. CASE RunCreature(i)
    BY <2>2, CreatureKeeps
  <2>3. CASE RunDeadCreature(i)
    BY <2>3, DeadCreatureKeeps
  <2>4. CASE RunEmbryo(i)
    <3>1. PICK e \in Grown(registry[i]), a \in BOOLEAN :
              registry' = [registry EXCEPT ![i] = [e EXCEPT !.alive = a]] /\ tree' = tree
      BY <2>4 DEF RunEmbryo
    <3> DEFINE r == [registry EXCEPT ![i] = e]
    <3>2. Agree(r, tree) /\ e \in Entity /\ e.pos = registry[i].pos
      BY <2>1, GrownAgrees
    <3>3. r[i] = e /\ e # NoEntity /\ registry' = [r EXCEPT ![i].alive = a]
      BY <3>1, <3>2, WorldAssumption DEF Agree
    <3> HIDE DEF r
    <3>4. Agree([r EXCEPT ![i].alive = a], tree)
      BY <3>2, <3>3, LifeAgrees
    <3>5. SamePlaces
      BY <3>1, <3>2 DEF SamePlaces, Agree, Entity
    <3> QED
      BY <3>1, <3>3, <3>4, <3>5 DEF Kept
  <2>5. CASE RunDeadEmbryo(i)
    BY <2>5, RemovedKeeps DEF RunDeadEmbryo
  <2>6. CASE RunCorpse(i)
    <3>1. CASE registry[i].meat <= 1
      BY <2>6, <3>1, RemovedKeeps DEF RunCorpse
    <3>2. CASE ~(registry[i].meat <= 1)
      <4>1. registry' = [registry EXCEPT ![i].meat = @ - 1] /\ tree' = tree
        BY <2>6, <3>2 DEF RunCorpse
      <4>2. registry[i].meat \in 0..MaxMeat
        BY <2>1 DEF Agree, Entity
      <4>3. registry[i].meat > 1
        BY <3>2, <4>2, WorldAssumption
      <4>4. Agree(registry', tree')
        BY <2>1, <4>1, <4>3, MeatAgrees
      <4>5. SamePlaces
        BY <2>1, <4>1 DEF SamePlaces, Agree, Entity
      <4> QED
        BY <4>4, <4>5 DEF Kept
    <3> QED
      BY <3>1, <3>2
  <2>7. CASE RunEgg(i)
    BY <2>7, <1>1 DEF RunEgg
  <2> QED
    BY <1>7, <2>2, <2>3, <2>4, <2>5, <2>6, <2>7 DEF Run
<1> QED
  BY <1>2, <1>3, <1>4, <1>5, <1>6, <1>7 DEF Next

\* The agreement holds in every state.
LEMMA Agreement == Spec => []Agree(registry, tree)
<1>1. Init => Agree(registry, tree)
  BY DEF Init, Empty, Agree, Entries, IsTree, Once, IdsIn, Says
<1>2. Agree(registry, tree) /\ [Next]_vars => Agree(registry, tree)'
  BY NextKeeps DEF Kept
<1> QED
  BY <1>1, <1>2, PTL DEF Spec

\* The registry and the entity map hold the same entities in every state:
\* refused additions and moves, deaths, meals and aborted ticks included.
THEOREM RegistryAgrees == Spec => []RegistryMatchesMap
<1>1. Agree(registry, tree) => RegistryMatchesMap
  BY DEF Agree, RegistryMatchesMap, InRegistry
<1> QED
  BY <1>1, Agreement, PTL

\* An entity is indexed at its position, at its size or one it has outgrown.
THEOREM IndexFollows == Spec => []IndexedWherePlaced
<1>1. Agree(registry, tree) => IndexedWherePlaced
  BY DEF Agree, Says, Had, IndexedWherePlaced
<1> QED
  BY <1>1, Agreement, PTL

\* A step that changes a position has the entity indexed there, at its size, and
\* leaves the entries of all others.
THEOREM MovesAreWhole == Spec => MovesWhole
<1>1. Agree(registry, tree) /\ [Next]_vars =>
          [\A i \in Ids :
             InRegistry(i) /\ registry'[i] # NoEntity /\ registry'[i].pos # registry[i].pos =>
                 /\ \E e \in tree'.entries : e.id = i /\ e.box = ToAABB(registry'[i].size, registry'[i].pos)
                 /\ \A e \in tree.entries : e.id # i => \E f \in tree'.entries : f.id = e.id /\ f.box = e.box]_vars
  BY NextKeeps DEF Kept, SamePlaces, MovedOne, Says, InRegistry
<1> QED
  BY <1>1, Agreement, PTL DEF Spec, MovesWhole

-----------------------------------------------------------------------------
(* Paths and prefixes.                                                     *)

Prefix(p, k) == SubSeq(p, 1, k)

\* The paths of the quadtree are the sequences of quadrants that are no longer
\* than it is deep.
LEMMA PathIs == \A p : p \in Paths <=> p \in Seq(Quadrants) /\ Len(p) <= MaxDepth
<1>1. ASSUME NEW p \in Paths PROVE p \in Seq(Quadrants) /\ Len(p) <= MaxDepth
  <2>1. PICK n \in 0..MaxDepth : p \in [1..n -> Quadrants]
    BY DEF Paths
  <2>2. n \in Nat /\ n <= MaxDepth
    BY <2>1, QuadtreeAssumption
  <2>3. p \in Seq(Quadrants)
    BY <2>1, <2>2, SeqDef
  <2>4. Len(p) = n
    BY <2>1, <2>2, <2>3, LenProperties
  <2> QED
    BY <2>2, <2>3, <2>4
<1>2. ASSUME NEW p \in Seq(Quadrants), Len(p) <= MaxDepth PROVE p \in Paths
  <2>1. Len(p) \in Nat /\ p \in [1..Len(p) -> Quadrants]
    BY LenProperties
  <2>2. Len(p) \in 0..MaxDepth
    BY <1>2, <2>1, QuadtreeAssumption
  <2> QED
    BY <2>1, <2>2 DEF Paths
<1> QED
  BY <1>1, <1>2

\* The root is a path, and the length of a path a number up to the depth.
LEMMA PathLength ==
    /\ <<>> \in Paths /\ Len(<<>>) = 0
    /\ \A p \in Paths : /\ Len(p) \in Nat /\ Len(p) <= MaxDepth
                        /\ p = <<>> <=> Len(p) = 0
                        /\ \A k \in 1..Len(p) : p[k] \in Quadrants
<1>1. <<>> \in Paths /\ Len(<<>>) = 0
  <2>1. <<>> \in Seq(Quadrants) /\ Len(<<>>) = 0
    BY EmptySeq
  <2>2. 0 <= MaxDepth
    BY QuadtreeAssumption
  <2>3. <<>> \in Seq(Quadrants) /\ Len(<<>>) <= MaxDepth => <<>> \in Paths
    BY PathIs
  <2> QED
    BY <2>1, <2>2, <2>3
<1>2. ASSUME NEW p \in Paths
      PROVE  /\ Len(p) \in Nat /\ Len(p) <= MaxDepth
             /\ p = <<>> <=> Len(p) = 0
             /\ \A k \in 1..Len(p) : p[k] \in Quadrants
  BY PathIs, EmptySeq, LenProperties, ElementOfSeq
<1> QED
  BY <1>1, <1>2

\* What a prefix of a path is.
LEMMA PrefixIs ==
    ASSUME NEW p \in Paths, NEW k \in 0..Len(p)
    PROVE  /\ Prefix(p, k) \in Paths /\ Len(Prefix(p, k)) = k
           /\ \A j \in 1..k : Prefix(p, k)[j] = p[j]
<1>1. Len(p) \in Nat /\ Len(p) <= MaxDepth /\ \A j \in 1..Len(p) : p[j] \in Quadrants
  BY PathLength
<1>2. k \in Int /\ 1 \in Int /\ k \in Nat /\ k <= Len(p) /\ k <= MaxDepth
  BY <1>1, QuadtreeAssumption
<1>3. \A i \in 1..k : p[i] \in Quadrants
  BY <1>1, <1>2
<1>4. /\ SubSeq(p, 1, k) \in Seq(Quadrants)
      /\ Len(SubSeq(p, 1, k)) = IF 1 <= k THEN k - 1 + 1 ELSE 0
      /\ \A i \in 1..(k - 1 + 1) : SubSeq(p, 1, k)[i] = p[1 + i - 1]
  BY <1>2, <1>3, SubSeqProperties
<1>5. Len(SubSeq(p, 1, k)) = k
  BY <1>2, <1>4
<1>6. \A j \in 1..k : SubSeq(p, 1, k)[j] = p[j]
  BY <1>2, <1>4
<1> QED
  BY <1>2, <1>4, <1>5, <1>6, PathIs DEF Prefix

\* Two paths of the same length and the same quadrants are one.
LEMMA SamePath ==
    ASSUME NEW p \in Paths, NEW q \in Paths, Len(p) = Len(q), \A k \in 1..Len(p) : p[k] = q[k]
    PROVE  p = q
  BY PathIs, SeqEqual

\* A prefix of a prefix; the whole of a path; none of it.
LEMMA PrefixOfPrefix ==
    ASSUME NEW p \in Paths, NEW k \in 0..Len(p)
    PROVE  /\ \A j \in 0..k : Prefix(Prefix(p, k), j) = Prefix(p, j)
           /\ Prefix(p, Len(p)) = p
           /\ Prefix(p, 0) = <<>>
<1>1. Len(p) \in Nat /\ k \in Nat /\ k <= Len(p)
  BY PathLength
<1>2. ASSUME NEW j \in 0..k PROVE Prefix(Prefix(p, k), j) = Prefix(p, j)
  <2>1. j \in 0..Len(p) /\ \A i \in 1..j : i \in 1..k
    BY <1>1
  <2>2. /\ Prefix(p, k) \in Paths /\ Len(Prefix(p, k)) = k
        /\ \A i \in 1..k : Prefix(p, k)[i] = p[i]
    BY PrefixIs
  <2>3. /\ Prefix(p, j) \in Paths /\ Len(Prefix(p, j)) = j
        /\ \A i \in 1..j : Prefix(p, j)[i] = p[i]
    BY <2>1, PrefixIs
  <2> DEFINE r == Prefix(p, k)
  <2> HIDE DEF r
  <2>4. r \in Paths /\ Len(r) = k /\ \A i \in 1..k : r[i] = p[i]
    BY <2>2 DEF r
  <2>5. /\ Prefix(r, j) \in Paths /\ Len(Prefix(r, j)) = j
        /\ \A i \in 1..j : Prefix(r, j)[i] = r[i]
    BY <2>4, PrefixIs
  <2>6. \A i \in 1..j : Prefix(r, j)[i] = Prefix(p, j)[i]
    BY <2>1, <2>3, <2>4, <2>5
  <2>7. Prefix(r, j) = Prefix(p, j)
    BY <2>3, <2>5, <2>6, SamePath
  <2> QED
    BY <2>7 DEF r
<1>3. Prefix(p, Len(p)) = p
  <2>1. Len(p) \in 0..Len(p)
    BY <1>1
  <2> QED
    BY <2>1, PrefixIs, SamePath
<1>4. Prefix(p, 0) = <<>>
  <2>1. 0 \in 0..Len(p)
    BY <1>1
  <2> QED
    BY <2>1, PrefixIs, PathLength
<1> QED
  BY <1>2, <1>3, <1>4

\* A child is one quadrant longer, and its parent is what it was made from.
LEMMA ChildIs ==
    ASSUME NEW p \in Paths, NEW c \in Children(p)
    PROVE  /\ Len(c) = Len(p) + 1 /\ c # <<>> /\ Parent(c) = p
           /\ Len(p) < MaxDepth => c \in Paths
           /\ \E q \in Quadrants : c[Len(c)] = q /\ c = Append(p, q)
<1>1. PICK q \in Quadrants : c = Append(p, q)
  BY DEF Children
<1>2. p \in Seq(Quadrants) /\ Len(p) \in Nat
  BY PathIs, PathLength
<1>3. /\ c \in Seq(Quadrants) /\ Len(c) = Len(p) + 1
      /\ \A i \in 1..Len(p) : c[i] = p[i]
      /\ c[Len(p) + 1] = q /\ c # <<>>
  BY <1>1, <1>2, AppendProperties
<1>4. Len(c) - 1 = Len(p)
  BY <1>2, <1>3
<1>5. SubSeq(c, 1, Len(p)) = p
  <2>1. \A i \in 1..Len(p) : c[i] \in Quadrants
    BY <1>3, PathLength
  <2>2. /\ SubSeq(c, 1, Len(p)) \in Seq(Quadrants)
        /\ Len(SubSeq(c, 1, Len(p))) = IF 1 <= Len(p) THEN Len(p) - 1 + 1 ELSE 0
        /\ \A i \in 1..(Len(p) - 1 + 1) : SubSeq(c, 1, Len(p))[i] = c[1 + i - 1]
    BY <2>1, <1>2, SubSeqProperties
  <2>3. Len(SubSeq(c, 1, Len(p))) = Len(p)
    BY <2>2, <1>2
  <2>4. \A i \in 1..Len(p) : SubSeq(c, 1, Len(p))[i] = p[i]
    BY <2>2, <1>2, <1>3
  <2> QED
    BY <2>2, <2>3, <2>4, <1>2, SeqEqual
<1>6. Parent(c) = p
  BY <1>4, <1>5 DEF Parent
<1>7. Len(p) < MaxDepth => c \in Paths
  <2>1. Len(p) < MaxDepth => Len(p) + 1 <= MaxDepth
    BY <1>2, QuadtreeAssumption
  <2> QED
    BY <2>1, <1>3, PathIs
<1> QED
  BY <1>1, <1>3, <1>6, <1>7

\* Every path but the root is a child of its parent, the prefix that lacks one.
LEMMA ParentIs ==
    ASSUME NEW p \in Paths, p # <<>>
    PROVE  /\ Parent(p) \in Paths /\ Len(Parent(p)) = Len(p) - 1
           /\ Parent(p) = Prefix(p, Len(p) - 1)
           /\ p \in Children(Parent(p))
           /\ Len(p) \in 1..Len(p) /\ p[Len(p)] \in Quadrants
<1>1. Len(p) \in Nat /\ Len(p) # 0
  BY PathLength
<1>2. Len(p) - 1 \in 0..Len(p) /\ Len(p) \in 1..Len(p)
  BY <1>1
<1>3. Parent(p) = Prefix(p, Len(p) - 1)
  BY DEF Parent, Prefix
<1> DEFINE n == Len(p) - 1
           r == Parent(p)
<1>4. /\ r \in Paths /\ Len(r) = n
      /\ \A j \in 1..n : r[j] = p[j]
  BY <1>2, <1>3, PrefixIs
<1>5. p[Len(p)] \in Quadrants
  BY <1>2, PathLength
<1>6. Append(r, p[Len(p)]) = p
  <2> HIDE DEF r
  <2>1. p \in Seq(Quadrants) /\ r \in Seq(Quadrants)
    BY <1>4, PathIs
  <2>2. /\ Append(r, p[Len(p)]) \in Seq(Quadrants)
        /\ Len(Append(r, p[Len(p)])) = Len(r) + 1
        /\ \A i \in 1..Len(r) : Append(r, p[Len(p)])[i] = r[i]
        /\ Append(r, p[Len(p)])[Len(r) + 1] = p[Len(p)]
    BY <2>1, <1>5, AppendProperties
  <2>3. Len(r) + 1 = Len(p)
    BY <1>1, <1>4
  <2>4. \A i \in 1..Len(p) : i \in 1..Len(r) \/ i = Len(r) + 1
    BY <1>1, <2>3
  <2>5. \A i \in 1..Len(p) : Append(r, p[Len(p)])[i] = p[i]
    BY <1>4, <2>2, <2>3, <2>4
  <2> QED
    BY <2>1, <2>2, <2>3, <2>5, SeqEqual
<1> QED
  BY <1>2, <1>3, <1>4, <1>5, <1>6 DEF Children

-----------------------------------------------------------------------------
(* The boundaries of the nodes.                                            *)

\* What Boundary's equation makes of a path, given f for shorter ones.
BoundaryStep(f, p) ==
    IF p = <<>> THEN Territory ELSE QuadrantBoundary(f[Parent(p)], p[Len(p)])

\* f is as Boundary on the paths of at most n quadrants.
BoundsTo(f, n) == \A p \in Paths : Len(p) <= n => f[p] = BoundaryStep(f, p)

\* The recursion is well founded: Boundary satisfies its equation.
LEMMA BoundaryIs == \A p \in Paths : Boundary[p] = BoundaryStep(Boundary, p)
<1> DEFINE T == {n \in Nat : \E f : BoundsTo(f, n)}
<1>1. 0 \in T
  <2> DEFINE f == [p \in Paths |-> Territory]
  <2>1. BoundsTo(f, 0)
    <3>1. \A p \in Paths : Len(p) <= 0 => p = <<>>
      BY PathLength
    <3> QED
      BY <3>1 DEF BoundsTo, BoundaryStep
  <2> QED
    BY <2>1
<1>2. ASSUME NEW n \in T PROVE n + 1 \in T
  <2>1. PICK f : BoundsTo(f, n)
    OBVIOUS
  <2> DEFINE g == [p \in Paths |-> BoundaryStep(f, p)]
  <2>2. ASSUME NEW p \in Paths, Len(p) <= n + 1 PROVE g[p] = BoundaryStep(g, p)
    <3>1. CASE p = <<>>
      BY <3>1 DEF BoundaryStep
    <3>2. CASE p # <<>>
      <4>1. Parent(p) \in Paths /\ Len(Parent(p)) <= n
        BY <2>2, <3>2, ParentIs, PathLength
      <4>2. g[Parent(p)] = f[Parent(p)]
        BY <4>1, <2>1 DEF BoundsTo
      <4>3. g[p] = BoundaryStep(f, p)
        OBVIOUS
      <4> HIDE DEF g
      <4> QED
        BY <3>2, <4>2, <4>3 DEF BoundaryStep
    <3> QED
      BY <3>1, <3>2
  <2>3. BoundsTo(g, n + 1)
    BY <2>2 DEF BoundsTo
  <2> QED
    BY <2>3
<1>3. T = Nat
  <2>1. T \in SUBSET Nat
    OBVIOUS
  <2> HIDE DEF T
  <2> QED
    BY <1>1, <1>2, <2>1, NaturalInduction
<1>4. PICK f : BoundsTo(f, MaxDepth)
  BY <1>3, QuadtreeAssumption
<1> DEFINE g == [p \in Paths |-> BoundaryStep(f, p)]
<1>5. \A p \in Paths : BoundaryStep(g, p) = BoundaryStep(f, p)
  <2> TAKE p \in Paths
  <2>1. CASE p = <<>>
    BY <2>1 DEF BoundaryStep
  <2>2. CASE p # <<>>
    <3>1. Parent(p) \in Paths /\ Len(Parent(p)) <= MaxDepth
      BY <2>2, ParentIs, PathLength
    <3>2. g[Parent(p)] = f[Parent(p)]
      BY <3>1, <1>4 DEF BoundsTo
    <3> HIDE DEF g
    <3> QED
      BY <2>2, <3>2 DEF BoundaryStep
  <2> QED
    BY <2>1, <2>2
<1>6. g = [p \in Paths |-> BoundaryStep(g, p)]
  BY <1>5
<1> HIDE DEF g
<1>7. Boundary = CHOOSE h : h = [p \in Paths |-> BoundaryStep(h, p)]
  BY DEF Boundary, BoundaryStep
<1>8. Boundary = [p \in Paths |-> BoundaryStep(Boundary, p)]
  BY <1>6, <1>7
<1> QED
  BY <1>8

\* A box has whole coordinates.
IsBox(b) ==
    /\ b.min[1] \in Int /\ b.min[2] \in Int
    /\ b.max[1] \in Int /\ b.max[2] \in Int

\* Contains and Intersects, coordinate by coordinate.
LEMMA Coordinatewise ==
    ASSUME NEW b, NEW c
    PROVE  /\ Contains(b, c) <=> /\ b.min[1] <= c.min[1] /\ c.min[1] <= b.max[1]
                                 /\ b.min[2] <= c.min[2] /\ c.min[2] <= b.max[2]
                                 /\ b.min[1] <= c.max[1] /\ c.max[1] <= b.max[1]
                                 /\ b.min[2] <= c.max[2] /\ c.max[2] <= b.max[2]
           /\ Intersects(b, c) <=> /\ b.min[1] <= c.max[1] /\ c.min[1] <= b.max[1]
                                   /\ b.min[2] <= c.max[2] /\ c.min[2] <= b.max[2]
<1>1. \A k : k \in 1..2 <=> k = 1 \/ k = 2
  OBVIOUS
<1> QED
  BY <1>1 DEF Contains, ContainsPoint, Intersects

\* A quadrant of a box is a box.
LEMMA QuadrantIsBox ==
    ASSUME NEW b, IsBox(b), NEW q \in Quadrants
    PROVE  IsBox(QuadrantBoundary(b, q))
<1> DEFINE mid == [k \in 1..2 |-> (b.min[k] + b.max[k]) \div 2]
<1>1. mid[1] \in Int /\ mid[2] \in Int
  BY DEF IsBox
<1>2. q \in {"UPPER_LEFT", "UPPER_RIGHT", "LOWER_LEFT", "LOWER_RIGHT"}
  BY DEF Quadrants, AllQuadrants
<1>3. QuadrantBoundary(b, q) =
        CASE q = "UPPER_LEFT"  -> [min |-> b.min, max |-> mid]
          [] q = "UPPER_RIGHT" -> Box(mid[1], b.min[2], b.max[1], mid[2])
          [] q = "LOWER_LEFT"  -> Box(b.min[1], mid[2], mid[1], b.max[2])
          [] q = "LOWER_RIGHT" -> [min |-> mid, max |-> b.max]
  BY DEF QuadrantBoundary
<1> HIDE DEF mid
<1> QED
  BY <1>1, <1>2, <1>3 DEF IsBox, Box

\* The boundary of every node is a box.
LEMMA BoundaryIsBox == \A p \in Paths : IsBox(Boundary[p])
<1> DEFINE T == {n \in Nat : \A p \in Paths : Len(p) = n => IsBox(Boundary[p])}
<1>1. 0 \in T
  <2>1. IsBox(Territory)
    BY QuadtreeAssumption DEF Territory, Box, IsBox
  <2>2. \A p \in Paths : Len(p) = 0 => Boundary[p] = Territory
    BY BoundaryIs, PathLength DEF BoundaryStep
  <2> QED
    BY <2>1, <2>2
<1>2. ASSUME NEW n \in T PROVE n + 1 \in T
  <2>1. ASSUME NEW p \in Paths, Len(p) = n + 1 PROVE IsBox(Boundary[p])
    <3>1. p # <<>>
      BY <2>1, PathLength
    <3>2. Parent(p) \in Paths /\ Len(Parent(p)) = n /\ p[Len(p)] \in Quadrants
      BY <2>1, <3>1, ParentIs
    <3>3. IsBox(Boundary[Parent(p)])
      BY <3>2
    <3>4. Boundary[p] = QuadrantBoundary(Boundary[Parent(p)], p[Len(p)])
      BY <3>1, BoundaryIs DEF BoundaryStep
    <3> QED
      BY <3>2, <3>3, <3>4, QuadrantIsBox
  <2> QED
    BY <2>1
<1>3. T = Nat
  <2>1. T \in SUBSET Nat
    OBVIOUS
  <2> HIDE DEF T
  <2> QED
    BY <1>1, <1>2, <2>1, NaturalInduction
<1> QED
  BY <1>3, PathLength

\* A node that contains a box meets every area that the box meets.
LEMMA MeetsToo ==
    ASSUME NEW a, IsBox(a), NEW b, IsBox(b), NEW c, IsBox(c), Contains(a, b), Intersects(b, c)
    PROVE  Intersects(a, c)
  BY Coordinatewise DEF IsBox

-----------------------------------------------------------------------------
(* The way of a box from the root.                                         *)

\* Of the quadrants that contain a box the first is taken, so it is one.
LEMMA LeadsToOne ==
    ASSUME NEW p, NEW b, NEW q, NEW r, LeadsTo(p, q, b), LeadsTo(p, r, b)
    PROVE  q = r
<1> DEFINE In(k) == Contains(QuadrantBoundary(Boundary[p], AllQuadrants[k]), b)
<1>1. PICK k \in 1..4 : q = AllQuadrants[k] /\ In(k) /\ \A j \in 1..(k - 1) : ~In(j)
  BY DEF LeadsTo
<1>2. PICK l \in 1..4 : r = AllQuadrants[l] /\ In(l) /\ \A j \in 1..(l - 1) : ~In(j)
  BY DEF LeadsTo
<1> HIDE DEF In
<1>3. ~ (k < l) /\ ~ (l < k)
  BY <1>1, <1>2
<1>4. k = l
  BY <1>3
<1> QED
  BY <1>1, <1>2, <1>4

\* A box that lies in the territory lies in every node on its way.
LEMMA ChainContains ==
    ASSUME NEW p \in Paths, NEW b, Contains(Territory, b), OnChain(p, b)
    PROVE  Contains(Boundary[p], b)
<1>1. CASE p = <<>>
  BY <1>1, BoundaryIs DEF BoundaryStep
<1>2. CASE p # <<>>
  <2>1. Len(p) \in 1..Len(p) /\ Parent(p) = SubSeq(p, 1, Len(p) - 1)
    BY <1>2, ParentIs DEF Parent
  <2>2. LeadsTo(Parent(p), p[Len(p)], b)
    BY <2>1 DEF OnChain
  <2>3. Contains(QuadrantBoundary(Boundary[Parent(p)], p[Len(p)]), b)
    BY <2>2 DEF LeadsTo
  <2> QED
    BY <1>2, <2>3, BoundaryIs DEF BoundaryStep
<1> QED
  BY <1>1, <1>2

\* What lies on the way to a node on the way does so too.
LEMMA ChainPrefix ==
    ASSUME NEW p \in Paths, NEW b, OnChain(p, b), NEW k \in 0..Len(p)
    PROVE  OnChain(Prefix(p, k), b)
<1> DEFINE r == Prefix(p, k)
<1>1. r \in Paths /\ Len(r) = k /\ \A j \in 1..k : r[j] = p[j]
  BY PrefixIs
<1>2. \A j \in 0..k : Prefix(r, j) = Prefix(p, j)
  BY PrefixOfPrefix
<1>3. Len(p) \in Nat
  BY PathLength
<1>4. ASSUME NEW j \in 1..k PROVE LeadsTo(SubSeq(r, 1, j - 1), r[j], b)
  <2>1. j \in 1..Len(p) /\ j - 1 \in 0..k
    BY <1>3
  <2>2. LeadsTo(SubSeq(p, 1, j - 1), p[j], b)
    BY <2>1 DEF OnChain
  <2>3. SubSeq(r, 1, j - 1) = SubSeq(p, 1, j - 1)
    BY <2>1, <1>2 DEF Prefix
  <2> QED
    BY <2>2, <2>3, <1>1
<1> QED
  BY <1>1, <1>4 DEF OnChain

\* There is one way: of two nodes on it the shorter is a prefix of the longer.
LEMMA OneWay ==
    ASSUME NEW p \in Paths, NEW q \in Paths, NEW b, OnChain(p, b), OnChain(q, b),
           Len(p) <= Len(q)
    PROVE  p = Prefix(q, Len(p))
<1> DEFINE T == {n \in Nat : n <= Len(p) => Prefix(p, n) = Prefix(q, n)}
<1>1. Len(p) \in Nat /\ Len(q) \in Nat
  BY PathLength
<1>2. 0 \in T
  <2>1. Prefix(p, 0) = <<>> /\ Prefix(q, 0) = <<>>
    <3>1. 0 \in 0..Len(p) /\ 0 \in 0..Len(q)
      BY <1>1
    <3> QED
      BY <3>1, PrefixOfPrefix
  <2> QED
    BY <2>1
<1>3. ASSUME NEW n \in T PROVE n + 1 \in T
  <2>1. SUFFICES ASSUME n + 1 <= Len(p) PROVE Prefix(p, n + 1) = Prefix(q, n + 1)
    OBVIOUS
  <2>2. n \in Nat /\ Prefix(p, n) = Prefix(q, n)
    BY <2>1, <1>1
  <2>3. n + 1 \in 1..Len(p) /\ n + 1 \in 1..Len(q) /\ (n + 1) - 1 = n
    BY <2>1, <2>2, <1>1
  <2>4. LeadsTo(Prefix(p, n), p[n + 1], b) /\ LeadsTo(Prefix(q, n), q[n + 1], b)
    BY <2>3 DEF OnChain, Prefix
  <2>5. p[n + 1] = q[n + 1]
    BY <2>2, <2>4, LeadsToOne
  <2>6. n + 1 \in 0..Len(p) /\ n + 1 \in 0..Len(q) /\ n \in 0..Len(p) /\ n \in 0..Len(q)
    BY <2>3, <1>1
  <2>7. /\ Prefix(p, n + 1) \in Paths /\ Prefix(q, n + 1) \in Paths
        /\ Len(Prefix(p, n + 1)) = n + 1 /\ Len(Prefix(q, n + 1)) = n + 1
        /\ \A j \in 1..(n + 1) : Prefix(p, n + 1)[j] = p[j] /\ Prefix(q, n + 1)[j] = q[j]
    BY <2>6, PrefixIs
  <2>8. \A j \in 1..n : p[j] = q[j]
    BY <2>2, <2>6, PrefixIs
  <2>9. \A j \in 1..(n + 1) : p[j] = q[j]
    BY <2>2, <2>5, <2>8
  <2> QED
    BY <2>7, <2>9, SamePath
<1>4. T = Nat
  <2>1. T \in SUBSET Nat
    OBVIOUS
  <2> HIDE DEF T
  <2> QED
    BY <1>2, <1>3, <2>1, NaturalInduction
<1>5. Prefix(p, Len(p)) = Prefix(q, Len(p))
  BY <1>1, <1>4
<1>6. Len(p) \in 0..Len(p)
  BY <1>1
<1> QED
  BY <1>5, <1>6, PrefixOfPrefix
-----------------------------------------------------------------------------
(* Where a box lands.                                                      *)

\* A set of nodes that hangs together: with each node the ones above it.
Rooted(nodes) ==
    /\ nodes \subseteq Paths /\ <<>> \in nodes
    /\ \A p \in nodes : p # <<>> => Parent(p) \in nodes

\* The prefixes of a node are nodes.
LEMMA NodesAbove ==
    ASSUME NEW nodes, Rooted(nodes), NEW p \in nodes, NEW k \in 0..Len(p)
    PROVE  Prefix(p, k) \in nodes
<1> DEFINE T == {n \in Nat : n <= Len(p) => Prefix(p, Len(p) - n) \in nodes}
<1>1. p \in Paths /\ Len(p) \in Nat
  BY PathLength DEF Rooted
<1>2. 0 \in T
  <2>1. Len(p) \in 0..Len(p) /\ Len(p) - 0 = Len(p)
    BY <1>1
  <2>2. Prefix(p, Len(p)) = p
    BY <1>1, <2>1, PrefixOfPrefix
  <2> QED
    BY <2>1, <2>2
<1>3. ASSUME NEW n \in T PROVE n + 1 \in T
  <2> SUFFICES ASSUME n + 1 <= Len(p) PROVE Prefix(p, Len(p) - (n + 1)) \in nodes
    OBVIOUS
  <2>1. n \in Nat
    OBVIOUS
  <2>2. n <= Len(p)
    <3> HIDE DEF T
    <3> QED
      BY <1>1, <2>1
  <2>3. Prefix(p, Len(p) - n) \in nodes
    BY <2>2, Zenon
  <2> HIDE DEF T
  <2>4. PICK m \in 0..Len(p) : m = Len(p) - n
    <3>1. Len(p) - n \in 0..Len(p)
      BY <1>1, <2>1, <2>2
    <3> QED
      BY <3>1, Zenon
  <2>5. m - 1 \in 0..m /\ m # 0 /\ Len(p) - (n + 1) = m - 1
    BY <1>1, <2>1, <2>4
  <2> DEFINE r == Prefix(p, m)
  <2>6. r \in nodes
    BY <2>3, <2>4
  <2>7. r \in Paths /\ Len(r) = m
    BY <1>1, PrefixIs
  <2>8. Prefix(r, m - 1) = Prefix(p, m - 1)
    BY <1>1, <2>5, PrefixOfPrefix
  <2> HIDE DEF r
  <2>9. r # <<>>
    BY <2>5, <2>7, PathLength
  <2>10. Parent(r) = Prefix(r, m - 1)
    BY <2>7, <2>9, ParentIs
  <2>11. Parent(r) \in nodes
    BY <2>6, <2>9 DEF Rooted
  <2> QED
    BY <2>5, <2>8, <2>10, <2>11
<1>4. T = Nat
  <2>1. T \in SUBSET Nat
    OBVIOUS
  <2> HIDE DEF T
  <2> QED
    BY <1>2, <1>3, <2>1, NaturalInduction
<1>5. Len(p) - k \in Nat /\ Len(p) - k <= Len(p) /\ Len(p) - (Len(p) - k) = k
  BY <1>1
<1>6. Len(p) - k \in T
  <2> HIDE DEF T
  <2> QED
    BY <1>4, <1>5
<1> QED
  BY <1>5, <1>6

\* The way goes from a node on it to any longer one through a child.
LEMMA NextNode ==
    ASSUME NEW nodes, Rooted(nodes), NEW b,
           NEW p \in Paths, OnChain(p, b), NEW q \in nodes, OnChain(q, b), Len(p) < Len(q)
    PROVE  \E c \in nodes \cap Children(p) : OnChain(c, b)
<1> DEFINE n == Len(p)
           c == Prefix(q, n + 1)
<1>1. q \in Paths /\ n \in Nat /\ Len(q) \in Nat
  BY PathLength DEF Rooted
<1>2. n + 1 \in 0..Len(q) /\ n \in 0..(n + 1) /\ n <= Len(q) /\ (n + 1) - 1 = n /\ n + 1 # 0
  BY <1>1
<1>3. c \in Paths /\ Len(c) = n + 1 /\ c \in nodes /\ OnChain(c, b)
  BY <1>1, <1>2, PrefixIs, NodesAbove, ChainPrefix
<1>4. p = Prefix(q, n)
  BY <1>1, <1>2, OneWay
<1>5. Prefix(c, n) = Prefix(q, n)
  BY <1>1, <1>2, PrefixOfPrefix
<1> HIDE DEF c, n
<1>6. c # <<>>
  BY <1>2, <1>3, PathLength
<1>7. Parent(c) = Prefix(c, n) /\ c \in Children(Parent(c))
  BY <1>2, <1>3, <1>6, ParentIs
<1>8. c \in Children(p)
  BY <1>4, <1>5, <1>7
<1> QED
  BY <1>3, <1>8

\* p is where the way of b ends.
Lands(nodes, b, p) ==
    /\ p \in nodes /\ OnChain(p, b)
    /\ \A c \in nodes \cap Children(p) : ~OnChain(c, b)

\* It ends once.
LEMMA LandsOnce ==
    ASSUME NEW nodes, Rooted(nodes), NEW b, NEW p, NEW q, Lands(nodes, b, p), Lands(nodes, b, q)
    PROVE  p = q
<1>1. /\ p \in nodes /\ q \in nodes /\ p \in Paths /\ q \in Paths
      /\ OnChain(p, b) /\ OnChain(q, b)
  BY DEF Lands, Rooted
<1>2. Len(p) \in Nat /\ Len(q) \in Nat
  BY <1>1, PathLength
<1>3. ~ (Len(p) < Len(q)) /\ ~ (Len(q) < Len(p))
  BY <1>1, NextNode DEF Lands
<1>4. Len(p) = Len(q) /\ Len(p) <= Len(q) /\ Len(q) \in 0..Len(q)
  BY <1>2, <1>3
<1>5. p = Prefix(q, Len(q)) /\ Prefix(q, Len(q)) = q
  BY <1>1, <1>4, OneWay, PrefixOfPrefix
<1> QED
  BY <1>5

\* It ends somewhere: no way is longer than the tree is deep.
LEMMA LandsSomewhere ==
    ASSUME NEW nodes, Rooted(nodes), NEW b
    PROVE  \E p \in nodes : Lands(nodes, b, p)
<1> SUFFICES ASSUME \A p \in nodes : ~Lands(nodes, b, p) PROVE FALSE
  OBVIOUS
<1> DEFINE T == {n \in Nat : \E p \in nodes : Len(p) = n /\ OnChain(p, b)}
<1>1. 0 \in T
  <2>1. <<>> \in nodes /\ Len(<<>>) = 0
    BY PathLength DEF Rooted
  <2>2. OnChain(<<>>, b)
    BY <2>1 DEF OnChain
  <2> QED
    BY <2>1, <2>2
<1>2. ASSUME NEW n \in T PROVE n + 1 \in T
  <2>1. PICK p \in nodes : Len(p) = n /\ OnChain(p, b)
    OBVIOUS
  <2>2. PICK c \in nodes \cap Children(p) : OnChain(c, b)
    BY <2>1 DEF Lands
  <2>3. p \in Paths
    BY DEF Rooted
  <2>4. Len(c) = n + 1
    BY <2>1, <2>3, ChildIs
  <2> QED
    BY <2>2, <2>4
<1>3. T = Nat
  <2>1. T \in SUBSET Nat
    OBVIOUS
  <2> HIDE DEF T
  <2> QED
    BY <1>1, <1>2, <2>1, NaturalInduction
<1>4. MaxDepth + 1 \in T
  <2>1. MaxDepth + 1 \in Nat
    BY QuadtreeAssumption
  <2> HIDE DEF T
  <2> QED
    BY <1>3, <2>1
<1>5. PICK p \in nodes : Len(p) = MaxDepth + 1
  BY <1>4
<1>6. Len(p) <= MaxDepth
  BY PathLength DEF Rooted
<1> QED
  BY <1>5, <1>6, QuadtreeAssumption

\* So Landing is where it ends.
LEMMA LandingIs ==
    ASSUME NEW nodes, Rooted(nodes), NEW b
    PROVE  Lands(nodes, b, Landing(nodes, b))
<1> DEFINE Good(p) == OnChain(p, b) /\ \A c \in nodes \cap Children(p) : ~OnChain(c, b)
<1>1. \E p \in nodes : Good(p)
  BY LandsSomewhere DEF Lands
<1>2. Landing(nodes, b) = CHOOSE p \in nodes : Good(p)
  BY DEF Landing
<1> HIDE DEF Good
<1>3. Landing(nodes, b) \in nodes /\ Good(Landing(nodes, b))
  BY <1>1, <1>2
<1> QED
  BY <1>3 DEF Good, Lands

-----------------------------------------------------------------------------
(* Subdividing.                                                            *)

\* A new node is the child of one that subdivides.
LEMMA NewNode ==
    ASSUME NEW t, NEW b
    PROVE  \A c : c \in NodesWith(t, b) <=> c \in t.nodes \/ \E p \in Splits(t, b) : c \in Children(p)
  BY DEF NodesWith

\* What subdivides is the leaf that b lands on, or has a parent that does so.
LEMMA SplitIs ==
    ASSUME NEW t, Rooted(t.nodes), IsFiniteSet(t.entries), NEW b, NEW p \in Splits(t, b)
    PROVE  LET leaf == Landing(t.nodes, b)
           IN  /\ p \in Paths /\ Len(p) < MaxDepth /\ OnChain(p, b)
               /\ IsLeaf(t.nodes, leaf) /\ Len(leaf) <= Len(p)
               /\ p = leaf \/ (p # <<>> /\ Parent(p) \in Splits(t, b))
<1> DEFINE leaf == Landing(t.nodes, b)
           At(r) == {e \in EntriesAt(t, leaf) : OnChain(r, e.box)}
<1>1. /\ p \in Paths /\ Len(p) < MaxDepth /\ OnChain(p, b)
      /\ IsLeaf(t.nodes, leaf) /\ Len(leaf) <= Len(p) /\ Cardinality(At(p)) >= Threshold
  BY DEF Splits
<1>2. /\ leaf \in Paths /\ OnChain(leaf, b) /\ Len(leaf) \in Nat /\ Len(p) \in Nat
      /\ Len(p) <= MaxDepth
  BY <1>1, LandingIs, PathLength DEF Lands, Rooted
<1>3. CASE Len(p) = Len(leaf)
  <2>1. Len(p) \in 0..Len(p) /\ Len(leaf) <= Len(p)
    BY <1>2, <1>3
  <2>2. leaf = Prefix(p, Len(leaf)) /\ Prefix(p, Len(p)) = p
    BY <1>1, <1>2, <2>1, OneWay, PrefixOfPrefix
  <2> QED
    BY <1>1, <1>3, <2>2
<1>4. CASE Len(p) # Len(leaf)
  <2>1. p # <<>>
    BY <1>1, <1>2, <1>4, PathLength
  <2> DEFINE r == Parent(p)
             m == Len(p) - 1
  <2>2. m \in 0..Len(p) /\ Len(leaf) <= m /\ m < MaxDepth
    BY <1>1, <1>2, <1>4, QuadtreeAssumption
  <2>3. r \in Paths /\ Len(r) = m /\ r = Prefix(p, m)
    BY <1>1, <2>1, ParentIs
  <2>4. \A a : OnChain(p, a) => OnChain(r, a)
    BY <1>1, <2>2, <2>3, ChainPrefix
  <2> HIDE DEF r, m
  <2>5. At(p) \subseteq At(r) /\ At(r) \subseteq t.entries
    BY <2>4 DEF EntriesAt
  <2> HIDE DEF At
  <2>6. IsFiniteSet(At(r)) /\ IsFiniteSet(At(p))
    BY <2>5, FS_Subset
  <2>7. Cardinality(At(p)) <= Cardinality(At(r)) /\ Cardinality(At(p)) \in Nat /\ Cardinality(At(r)) \in Nat
    BY <2>5, <2>6, FS_Subset, FS_CardinalityType
  <2>8. Cardinality(At(r)) >= Threshold
    BY <1>1, <2>7, QuadtreeAssumption
  <2>9. r \in Splits(t, b)
    BY <1>1, <2>2, <2>3, <2>4, <2>8 DEF Splits, At
  <2> QED
    BY <1>1, <2>1, <2>9 DEF r
<1> QED
  BY <1>3, <1>4

\* The nodes hang together after a subdivision.
LEMMA StaysRooted ==
    ASSUME NEW t, Rooted(t.nodes), IsFiniteSet(t.entries), NEW b
    PROVE  Rooted(NodesWith(t, b))
<1>1. ASSUME NEW p \in Splits(t, b), NEW c \in Children(p)
      PROVE  c \in Paths /\ Parent(c) = p
  BY SplitIs, ChildIs
<1>2. \A p \in Splits(t, b) : p \in NodesWith(t, b)
  <2> TAKE p \in Splits(t, b)
  <2>1. CASE p = Landing(t.nodes, b)
    BY <2>1, LandingIs, NewNode DEF Lands
  <2>2. CASE p # <<>> /\ Parent(p) \in Splits(t, b)
    <3>1. p \in Children(Parent(p))
      BY <2>2, SplitIs, ParentIs
    <3> QED
      BY <2>2, <3>1, NewNode
  <2> QED
    BY <2>1, <2>2, SplitIs
<1>3. NodesWith(t, b) \subseteq Paths /\ <<>> \in NodesWith(t, b)
  BY <1>1, NewNode DEF Rooted
<1>4. ASSUME NEW c \in NodesWith(t, b), c # <<>> PROVE Parent(c) \in NodesWith(t, b)
  <2>1. CASE c \in t.nodes
    BY <1>4, <2>1, NewNode DEF Rooted
  <2>2. ASSUME NEW p \in Splits(t, b), c \in Children(p) PROVE Parent(c) \in NodesWith(t, b)
    BY <1>1, <1>2, <2>2
  <2> QED
    BY <2>1, <2>2, NewNode
<1> QED
  BY <1>3, <1>4 DEF Rooted

\* Only where b lands does a node of the tree get children: what has landed
\* elsewhere stays where it is.
LEMMA StaysLanded ==
    ASSUME NEW t, Rooted(t.nodes), IsFiniteSet(t.entries), NEW b, NEW a, NEW p,
           Lands(t.nodes, a, p), p # Landing(t.nodes, b)
    PROVE  Lands(NodesWith(t, b), a, p)
<1> DEFINE leaf == Landing(t.nodes, b)
<1>1. p \in t.nodes /\ p \in Paths /\ OnChain(p, a)
  BY DEF Lands, Rooted
<1>2. p \notin Splits(t, b)
  <2> SUFFICES ASSUME p \in Splits(t, b) PROVE FALSE
    OBVIOUS
  <2>1. OnChain(p, b) /\ Len(leaf) <= Len(p) /\ IsLeaf(t.nodes, leaf)
    BY SplitIs
  <2>2. leaf \in t.nodes /\ leaf \in Paths /\ OnChain(leaf, b) /\ Len(leaf) \in Nat /\ Len(p) \in Nat
    BY <1>1, LandingIs, PathLength DEF Lands, Rooted
  <2>3. CASE Len(leaf) < Len(p)
    BY <1>1, <2>1, <2>2, <2>3, NextNode DEF IsLeaf
  <2>4. CASE Len(leaf) = Len(p)
    <3>1. Len(p) \in 0..Len(p)
      BY <2>2
    <3>2. leaf = Prefix(p, Len(leaf)) /\ Prefix(p, Len(p)) = p
      BY <1>1, <2>1, <2>2, <3>1, OneWay, PrefixOfPrefix
    <3> QED
      BY <2>4, <3>2
  <2> QED
    BY <2>1, <2>2, <2>3, <2>4
<1>3. ASSUME NEW c \in NodesWith(t, b) \cap Children(p) PROVE ~OnChain(c, a)
  <2>1. CASE c \in t.nodes
    BY <2>1 DEF Lands
  <2>2. ASSUME NEW q \in Splits(t, b), c \in Children(q) PROVE FALSE
    <3>1. q \in Paths
      BY SplitIs
    <3>2. Parent(c) = q /\ Parent(c) = p
      BY <1>1, <2>2, <3>1, ChildIs
    <3> QED
      BY <1>2, <3>2
  <2> QED
    BY <2>1, <2>2, NewNode
<1> QED
  BY <1>1, <1>3, NewNode DEF Lands

-----------------------------------------------------------------------------
(* Every entry is filed where its box lands, and counted.                  *)

Housed(t) ==
    /\ Rooted(t.nodes)
    /\ \A e \in t.entries : /\ IsBox(e.box) /\ Contains(Territory, e.box)
                            /\ Lands(t.nodes, e.box, e.at)

Shaped(t) ==
    /\ Housed(t)
    /\ IsFiniteSet(IdsIn(t)) /\ t.size = Cardinality(IdsIn(t))

\* With one entry for each id there are as many entries as ids.
LEMMA EntriesCounted ==
    ASSUME NEW t, Once(t), IsFiniteSet(IdsIn(t))
    PROVE  IsFiniteSet(t.entries) /\ Cardinality(t.entries) = Cardinality(IdsIn(t))
<1> DEFINE f == [e \in t.entries |-> e.id]
<1>1. f \in [t.entries -> IdsIn(t)]
  BY DEF IdsIn
<1>2. \A e, g \in t.entries : f[e] = f[g] => e = g
  BY DEF Once
<1>3. \A i \in IdsIn(t) : \E e \in t.entries : f[e] = i
  BY DEF IdsIn
<1> HIDE DEF f
<1>4. f \in Injection(t.entries, IdsIn(t)) /\ f \in Surjection(t.entries, IdsIn(t))
  BY <1>1, <1>2, <1>3 DEF Injection, Surjection, IsInjective
<1> QED
  BY <1>4, FS_Injection

\* Inserting files the new entry and those of the leaf anew, and disturbs no other.
LEMMA InsertFiles ==
    ASSUME NEW t, Entries(t), Once(t), Housed(t), IsFiniteSet(IdsIn(t)),
           NEW i, NEW b, IsBox(b), Contains(Territory, b)
    PROVE  Housed(Insert(t, i, b)) /\ Insert(t, i, b).size = t.size
<1> DEFINE u == Insert(t, i, b)
           leaf == Landing(t.nodes, b)
           here == EntriesAt(t, leaf)
<1>1. Rooted(t.nodes) /\ IsFiniteSet(t.entries)
  BY EntriesCounted DEF Housed
<1>2. /\ u.nodes = NodesWith(t, b) /\ u.size = t.size
      /\ \A f : f \in u.entries <=> \/ f \in t.entries /\ f \notin here
                                    \/ \E e \in here : f = Filing(u.nodes, e.id, e.box)
                                    \/ f = Filing(u.nodes, i, b)
  BY InsertIs
<1>3. here \subseteq t.entries /\ \A e \in t.entries : e \notin here => e.at # leaf
  BY DEF EntriesAt
<1> HIDE DEF u, leaf, here
<1>4. Rooted(u.nodes)
  BY <1>1, <1>2, StaysRooted
<1>5. \A j, c : LET f == Filing(u.nodes, j, c) IN f.box = c /\ Lands(u.nodes, c, f.at)
  BY <1>4, LandingIs, FilingIs
<1>6. ASSUME NEW e \in t.entries, e \notin here PROVE Lands(u.nodes, e.box, e.at)
  <2>1. Lands(t.nodes, e.box, e.at) /\ e.at # Landing(t.nodes, b)
    BY <1>3, <1>6 DEF Housed, leaf
  <2> QED
    BY <1>1, <1>2, <2>1, StaysLanded
<1>7. \A e \in t.entries : IsBox(e.box) /\ Contains(Territory, e.box)
  BY DEF Housed
<1>8. ASSUME NEW f \in u.entries
      PROVE  IsBox(f.box) /\ Contains(Territory, f.box) /\ Lands(u.nodes, f.box, f.at)
  <2>1. CASE f \in t.entries /\ f \notin here
    BY <1>6, <1>7, <2>1
  <2>2. ASSUME NEW e \in here, f = Filing(u.nodes, e.id, e.box)
        PROVE  IsBox(f.box) /\ Contains(Territory, f.box) /\ Lands(u.nodes, f.box, f.at)
    <3>1. f.box = e.box /\ Lands(u.nodes, e.box, f.at)
      BY <1>5, <2>2
    <3> QED
      BY <1>3, <1>7, <3>1
  <2>3. CASE f = Filing(u.nodes, i, b)
    <3>1. f.box = b /\ Lands(u.nodes, b, f.at)
      BY <1>5, <2>3
    <3> QED
      BY <3>1
  <2> QED
    BY <1>2, <2>1, <2>2, <2>3
<1> QED
  BY <1>2, <1>4, <1>8 DEF Housed, u

\* The new id is counted.
LEMMA AddShaped ==
    ASSUME NEW t, Entries(t), Once(t), Shaped(t), NEW i, NEW b, IsBox(b), CanAdd(t, i, b)
    PROVE  Shaped(AddEntry(t, i, b))
<1> DEFINE u == Insert(t, i, b)
           w == AddEntry(t, i, b)
<1>1. i \notin IdsIn(t) /\ Contains(Territory, b)
  BY DEF CanAdd
<1>2. Housed(u) /\ u.size = t.size /\ IsTree(u)
  BY <1>1, InsertFiles, InsertIs DEF Shaped
<1>3. w = [u EXCEPT !.size = u.size + 1]
  BY DEF AddEntry
<1>4. IdsIn(w) = IdsIn(t) \cup {i}
  <2>1. \A j, c : Says(w, j, c) <=> Says(t, j, c) \/ (j = i /\ c = b)
    BY AddSays
  <2> HIDE DEF w
  <2>2. \A j : j \in IdsIn(w) <=> j \in IdsIn(t) \/ j = i
    BY <2>1, SaysIds
  <2> QED
    BY <2>2
<1> HIDE DEF u, w
<1>5. w.nodes = u.nodes /\ w.entries = u.entries /\ w.size = t.size + 1
  BY <1>2, <1>3 DEF IsTree
<1>6. IsFiniteSet(IdsIn(w)) /\ Cardinality(IdsIn(w)) = t.size + 1
  BY <1>1, <1>4, FS_AddElement DEF Shaped
<1>7. Shaped(w)
  BY <1>2, <1>5, <1>6 DEF Housed, Shaped
<1> QED
  BY <1>7 DEF w

\* Taking entries away leaves the others filed.
LEMMA FewerFiled ==
    ASSUME NEW t, Housed(t), NEW s, s \subseteq t.entries, NEW n
    PROVE  Housed([nodes |-> t.nodes, entries |-> s, size |-> n])
  BY DEF Housed

\* The removed id is not counted any more.
LEMMA RemoveShaped ==
    ASSUME NEW t, Entries(t), Once(t), Shaped(t), NEW i
    PROVE  Shaped(RemoveEntry(t, i))
<1> DEFINE w == RemoveEntry(t, i)
           s == {e \in t.entries : e.id # i}
           n == IF i \in IdsIn(t) THEN t.size - 1 ELSE t.size
<1>1. w = [nodes |-> t.nodes, entries |-> s, size |-> n]
  <2>1. w = [[t EXCEPT !.entries = s] EXCEPT !.size = n]
    BY DEF RemoveEntry, Entries, IsTree
  <2> HIDE DEF w, s, n
  <2> QED
    BY <2>1 DEF Entries, IsTree
<1>2. s \subseteq t.entries
  OBVIOUS
<1>3. IdsIn(w) = IdsIn(t) \ {i}
  <2>1. \A j, c : Says(w, j, c) <=> Says(t, j, c) /\ j # i
    BY RemoveSays
  <2> HIDE DEF w
  <2>2. \A j : j \in IdsIn(w) <=> j \in IdsIn(t) /\ j # i
    BY <2>1, SaysIds
  <2> QED
    BY <2>2
<1>4. Housed(t) /\ IsFiniteSet(IdsIn(t)) /\ t.size = Cardinality(IdsIn(t))
  BY DEF Shaped
<1>5. IsFiniteSet(IdsIn(w)) /\ Cardinality(IdsIn(w)) = n
  <2> HIDE DEF w
  <2> QED
    BY <1>3, <1>4, FS_RemoveElement
<1> HIDE DEF w, s, n
<1>6. Housed(w)
  BY <1>1, <1>2, <1>4, FewerFiled
<1>7. w.size = n
  BY <1>1
<1>8. Shaped(w)
  BY <1>5, <1>6, <1>7 DEF Shaped
<1> QED
  BY <1>8 DEF w

\* A move takes the entry out and files it anew: the count is the same.
LEMMA UpdateShaped ==
    ASSUME NEW t, Entries(t), Once(t), Shaped(t), NEW i, NEW new, IsBox(new), NEW old,
           CanUpdate(t, i, new, old)
    PROVE  Shaped(UpdateEntry(t, i, new, old))
<1> DEFINE w == [t EXCEPT !.entries = @ \ Reached(t, i, old)]
           s == {e \in t.entries : e.id # i}
           u == UpdateEntry(t, i, new, old)
<1>1. Reached(t, i, old) = {e \in t.entries : e.id = i}
  BY DEF CanUpdate, Reached, Once
<1>2. w = [t EXCEPT !.entries = s]
  <2>1. t.entries \ {e \in t.entries : e.id = i} = s
    OBVIOUS
  <2> QED
    BY <1>1, <2>1
<1>3. IsTree(t) /\ w = [nodes |-> t.nodes, entries |-> s, size |-> t.size]
  <2> HIDE DEF w, s
  <2> QED
    BY <1>2 DEF Entries, IsTree
<1>4. /\ Entries(w) /\ Once(w) /\ i \notin IdsIn(w)
      /\ \A j, c : Says(w, j, c) <=> Says(t, j, c) /\ j # i
  <2>1. Entries(w) /\ Once(w) /\ i \notin IdsIn(w)
    BY <1>2, WithoutSays
  <2>2. \A j, c : Says(w, j, c) <=> Says(t, j, c) /\ j # i
    BY <1>2, WithoutSays
  <2> QED
    BY <2>1, <2>2
<1>5. Housed(t) /\ IsFiniteSet(IdsIn(t)) /\ t.size = Cardinality(IdsIn(t))
  BY DEF Shaped
<1>6. /\ i \in IdsIn(t) /\ Contains(Territory, new)
      /\ \A j, c : Says(u, j, c) <=> (j # i /\ Says(t, j, c)) \/ (j = i /\ c = new)
  BY UpdateSays DEF CanUpdate
<1>7. u = Insert(w, i, new)
  BY DEF UpdateEntry
<1>8. s \subseteq t.entries
  OBVIOUS
<1> HIDE DEF w, s, u
<1>9. \A j : j \in IdsIn(w) <=> j \in IdsIn(t) /\ j # i
  BY <1>4, SaysIds
<1>10. IdsIn(w) \subseteq IdsIn(t)
  BY <1>9
<1>11. IsFiniteSet(IdsIn(w))
  BY <1>5, <1>10, FS_Subset
<1>12. Housed(w) /\ w.size = t.size
  BY <1>3, <1>5, <1>8, FewerFiled
<1>13. Housed(u) /\ u.size = t.size
  BY <1>4, <1>6, <1>7, <1>11, <1>12, InsertFiles
<1>14. IdsIn(u) = IdsIn(t)
  <2>1. \A j : j \in IdsIn(u) <=> j \in IdsIn(t)
    BY <1>6, SaysIds
  <2> QED
    BY <2>1
<1>15. Shaped(u)
  BY <1>5, <1>13, <1>14 DEF Shaped
<1> QED
  BY <1>15 DEF u

\* A tree in this shape is exact: what IndexExact says.
LEMMA ShapedIsExact ==
    ASSUME NEW t, Once(t), Shaped(t)
    PROVE  /\ InvariantsHold(t) /\ Filed(t)
           /\ \A a : IsBox(a) =>
                 Find(t, a) = {e.id : e \in {f \in t.entries : Intersects(f.box, a)}}
<1>1. /\ Rooted(t.nodes) /\ IsFiniteSet(IdsIn(t)) /\ t.size = Cardinality(IdsIn(t))
      /\ \A e \in t.entries : /\ IsBox(e.box) /\ Contains(Territory, e.box)
                              /\ Lands(t.nodes, e.box, e.at)
  BY DEF Shaped, Housed
<1>2. \A e \in t.entries : e.at \in t.nodes /\ e.at \in Paths /\ OnChain(e.at, e.box)
  BY <1>1 DEF Lands, Rooted
<1>3. \A p \in t.nodes : Len(p) <= MaxDepth /\ (p # <<>> => Parent(p) \in t.nodes)
  BY <1>1, PathLength DEF Rooted
<1>4. InvariantsHold(t)
  <2>1. \A e \in t.entries : Contains(Boundary[e.at], e.box)
    BY <1>1, <1>2, ChainContains
  <2>2. Cardinality(t.entries) = t.size
    BY <1>1, EntriesCounted
  <2> QED
    BY <1>2, <1>3, <2>1, <2>2 DEF InvariantsHold, Once
<1>5. Filed(t)
  BY <1>1, LandingIs, LandsOnce DEF Filed
<1>6. ASSUME NEW a, IsBox(a)
      PROVE  Find(t, a) = {e.id : e \in {f \in t.entries : Intersects(f.box, a)}}
  <2>1. ASSUME NEW e \in t.entries, Intersects(e.box, a), NEW k \in 0..Len(e.at)
        PROVE  Intersects(Boundary[SubSeq(e.at, 1, k)], a)
    <3> DEFINE p == SubSeq(e.at, 1, k)
    <3>1. p \in Paths /\ OnChain(p, e.box)
      BY <1>2, PrefixIs, ChainPrefix DEF Prefix
    <3> HIDE DEF p
    <3>2. Contains(Boundary[p], e.box) /\ IsBox(Boundary[p]) /\ IsBox(e.box)
      BY <1>1, <3>1, ChainContains, BoundaryIsBox
    <3>3. Intersects(Boundary[p], a)
      BY <1>6, <2>1, <3>2, MeetsToo
    <3> QED
      BY <3>3 DEF p
  <2>2. {f \in t.entries :
           /\ Intersects(f.box, a)
           /\ \A k \in 0..Len(f.at) : Intersects(Boundary[SubSeq(f.at, 1, k)], a)}
         = {f \in t.entries : Intersects(f.box, a)}
    BY <2>1
  <2> QED
    BY <2>2 DEF Find
<1> QED
  BY <1>4, <1>5, <1>6

\* The box of a position and a size.
LEMMA BoxOf ==
    ASSUME NEW p \in Positions, NEW s \in Sizes \cup {Vision}
    PROVE  IsBox(ToAABB(s, p))
<1>1. s \in Nat /\ p[1] \in Int /\ p[2] \in Int
  BY WorldAssumption
<1>2. s \div 2 \in Int
  BY <1>1
<1> DEFINE h == s \div 2
<1> HIDE DEF h
<1>3. ToAABB(s, p) = Box(p[1] - h, p[2] - h, p[1] + h, p[2] + h) /\ h \in Int
  BY <1>2 DEF ToAABB, h
<1> QED
  BY <1>1, <1>3 DEF Box, IsBox

\* What a step makes of the map: nothing, an addition, a removal or a move, of an
\* entity with a position and a size.
TreeStep ==
    \/ tree' = tree
    \/ \E i \in Ids, e \in Entity :
          CanAdd(tree, i, Bounds(e)) /\ tree' = AddEntry(tree, i, Bounds(e))
    \/ \E i \in Ids : tree' = RemoveEntry(tree, i)
    \/ \E i \in Ids, e \in Entity, p \in Positions : \E old :
          /\ CanUpdate(tree, i, ToAABB(e.size, p), old)
          /\ tree' = UpdateEntry(tree, i, ToAABB(e.size, p), old)

\* A removal, or nothing when the entity does not exist.
LEMMA RemovedSteps ==
    ASSUME NEW i \in Ids, tree' = Removed(i).tree
    PROVE  TreeStep
  BY DEF Removed, TreeStep

\* An addition, or nothing when the map refuses it.
LEMMA AddSteps ==
    ASSUME Agree(registry, tree), NEW i \in Ids, NEW e \in Entity, Add(i, e)
    PROVE  TreeStep
<1>1. CASE ~CanAdd(tree, i, Bounds(e))
  BY <1>1 DEF Add, TreeStep
<1>2. CASE CanAdd(tree, i, Bounds(e))
  <2>1. registry[i] = NoEntity
    BY <1>2 DEF CanAdd, Agree
  <2>2. tree' = AddEntry(tree, i, Bounds(e))
    BY <1>2, <2>1 DEF Add, InRegistry
  <2> QED
    BY <1>2, <2>2 DEF TreeStep
<1> QED
  BY <1>1, <1>2

\* A move, or nothing when it is refused.
LEMMA UpdateSteps ==
    ASSUME NEW r, Agree(r, tree), NEW i \in Ids, NEW p \in Positions, Update(r, i, p)
    PROVE  TreeStep
<1>1. CASE ~Accepts(r, i, p)
  BY <1>1 DEF Update, TreeStep
<1>2. CASE Accepts(r, i, p)
  <2>1. /\ CanUpdate(tree, i, ToAABB(r[i].size, p), Bounds(r[i]))
        /\ tree' = UpdateEntry(tree, i, ToAABB(r[i].size, p), Bounds(r[i]))
        /\ r[i] # NoEntity
    BY <1>2 DEF Update, Accepts
  <2>2. r[i] \in Entity
    BY <2>1 DEF Agree
  <2> QED
    BY <2>1, <2>2 DEF TreeStep
<1> QED
  BY <1>1, <1>2

\* These are the only changes of the map.
LEMMA NextSteps ==
    ASSUME Agree(registry, tree), [Next]_vars
    PROVE  TreeStep
<1>1. CASE UNCHANGED tree
  BY <1>1 DEF TreeStep
<1>2. CASE UNCHANGED vars
  BY <1>1, <1>2 DEF vars
<1>3. CASE AddEntity
  <2>1. PICK i \in Ids, p \in Positions, s \in Sizes :
            Add(i, [pos |-> p, size |-> s, alive |-> TRUE,
                    meat |-> IF i \in Corpses THEN MaxMeat ELSE 0])
    BY <1>3 DEF AddEntity
  <2>2. [pos |-> p, size |-> s, alive |-> TRUE,
         meat |-> IF i \in Corpses THEN MaxMeat ELSE 0] \in Entity
    BY WorldAssumption DEF Entity
  <2> QED
    BY <2>1, <2>2, AddSteps
<1>4. ASSUME NEW i \in Creatures, MakeCreature(i) PROVE TreeStep
  <2>1. PICK p \in Positions, s \in Sizes :
            Add(i, [pos |-> p, size |-> s, alive |-> TRUE, meat |-> 0])
    BY <1>4 DEF MakeCreature
  <2>2. [pos |-> p, size |-> s, alive |-> TRUE, meat |-> 0] \in Entity
    BY WorldAssumption DEF Entity
  <2> QED
    BY <2>1, <2>2, AddSteps DEF Ids
<1>5. ASSUME NEW i \in Creatures, Attack(i) PROVE TreeStep
  BY <1>1, <1>5 DEF Attack
<1>6. CASE BeginTick
  BY <1>1, <1>6 DEF BeginTick
<1>7. ASSUME NEW i \in Ids, RunCreature(i) PROVE TreeStep
  <2>1. PICK e \in Grown(registry[i]) : Acts(i, e) \/ UNCHANGED tree
    BY <1>7 DEF RunCreature
  <2> DEFINE r == [registry EXCEPT ![i] = e]
  <2>2. registry[i] # NoEntity
    BY <1>7 DEF RunCreature, Runs, InRegistry
  <2>3. Agree(r, tree)
    BY <2>2, GrownAgrees
  <2>4. UNCHANGED tree \/ \E p \in Positions : Update(r, i, p)
    BY <2>1 DEF Acts
  <2> HIDE DEF r
  <2> QED
    BY <1>1, <2>3, <2>4, UpdateSteps
<1>8. ASSUME NEW i \in Ids, Run(i), ~RunCreature(i) PROVE TreeStep
  <2>1. UNCHANGED tree \/ tree' = Removed(i).tree
    BY <1>8 DEF Run, RunDeadCreature, RunEmbryo, RunDeadEmbryo, RunCorpse, RunEgg, Remove
  <2> QED
    BY <1>1, <2>1, RemovedSteps
<1> QED
  BY <1>2, <1>3, <1>4, <1>5, <1>6, <1>7, <1>8 DEF Next

\* Every such step keeps the tree in shape.
LEMMA StepShaped ==
    ASSUME Agree(registry, tree), Shaped(tree), TreeStep
    PROVE  Shaped(tree')
<1>1. Entries(tree) /\ Once(tree)
  BY DEF Agree
<1>2. ASSUME NEW i \in Ids, NEW e \in Entity, CanAdd(tree, i, Bounds(e)),
             tree' = AddEntry(tree, i, Bounds(e))
      PROVE  Shaped(tree')
  <2>1. IsBox(Bounds(e))
    BY BoxOf DEF Bounds, Entity
  <2> QED
    BY <1>1, <1>2, <2>1, AddShaped
<1>3. ASSUME NEW i \in Ids, tree' = RemoveEntry(tree, i) PROVE Shaped(tree')
  BY <1>1, <1>3, RemoveShaped
<1>4. ASSUME NEW i \in Ids, NEW e \in Entity, NEW p \in Positions, NEW old,
             CanUpdate(tree, i, ToAABB(e.size, p), old),
             tree' = UpdateEntry(tree, i, ToAABB(e.size, p), old)
      PROVE  Shaped(tree')
  <2>1. IsBox(ToAABB(e.size, p))
    BY BoxOf DEF Entity
  <2> QED
    BY <1>1, <1>4, <2>1, UpdateShaped
<1> QED
  BY <1>2, <1>3, <1>4 DEF TreeStep

\* The empty tree is in shape.
LEMMA EmptyShaped == Shaped(Empty)
<1>1. Empty.nodes = {<<>>} /\ Empty.entries = {} /\ Empty.size = 0 /\ IdsIn(Empty) = {}
  BY DEF Empty, IdsIn
<1>2. Rooted(Empty.nodes)
  BY <1>1, PathLength DEF Rooted
<1> QED
  BY <1>1, <1>2, FS_EmptySet DEF Shaped, Housed

\* Through splits, moves and removals nothing in the quadtree is lost, doubled or
\* outside its node, every entry can be removed by its bounds, and the search that
\* prunes nodes finds what a search of all entries would.
THEOREM IndexIsExact == Spec => []IndexExact
<1> DEFINE Inv == Agree(registry, tree) /\ Shaped(tree)
<1>1. Init => Inv
  <2>1. Init => Agree(registry, tree)
    BY DEF Init, Empty, Agree, Entries, IsTree, Once, IdsIn, Says
  <2>2. Init => Shaped(tree)
    BY EmptyShaped DEF Init
  <2> QED
    BY <2>1, <2>2
<1>2. Inv /\ [Next]_vars => Inv'
  <2>1. Agree(registry, tree) /\ [Next]_vars => Agree(registry, tree)'
    BY NextKeeps DEF Kept
  <2>2. Agree(registry, tree) /\ Shaped(tree) /\ [Next]_vars => Shaped(tree)'
    BY NextSteps, StepShaped
  <2> QED
    BY <2>1, <2>2
<1>3. Inv => IndexExact
  <2> SUFFICES ASSUME Inv PROVE IndexExact
    OBVIOUS
  <2>1. Once(tree) /\ Shaped(tree)
    BY DEF Agree
  <2>2. InvariantsHold(tree) /\ Filed(tree)
    BY <2>1, ShapedIsExact
  <2>3. \A p \in Positions, s \in Sizes \cup {Vision} :
          Find(tree, ToAABB(s, p)) = {e.id : e \in {f \in tree.entries :
                                          Intersects(f.box, ToAABB(s, p))}}
    BY <2>1, BoxOf, ShapedIsExact
  <2> QED
    BY <2>2, <2>3 DEF IndexExact
<1> HIDE DEF Inv
<1> QED
  BY <1>1, <1>2, <1>3, PTL DEF Spec

=============================================================================
