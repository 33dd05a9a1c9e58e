------------------------------- MODULE World -------------------------------
(***************************************************************************)
(* The world: the registry of entities and the entity map (a quadtree of   *)
(* their bounds), which World keeps together; the lifecycle that runs      *)
(* every entity once per tick; and the API call that makes a creature for  *)
(* a client.  All of it runs on one thread, but a tick is a sequence of    *)
(* runs, each of which may remove, move, grow or throw.                    *)
(***************************************************************************)
EXTENDS Quadtree

CONSTANTS
    Creatures, Corpses, Embryos, Eggs,   \* an EntityId carries its type
    Positions,    \* where entities are put and move to (a bound)
    Sizes,        \* the sizes they have (a bound)
    Vision,       \* vision_radius of every creature
    MaxMeat,      \* bound: how many times raw_meat can shrink before it is ~0
    NoEntity

Ids == Creatures \cup Corpses \cup Embryos \cup Eggs

Entity == [pos : Positions, size : Sizes, alive : BOOLEAN, meat : 0..MaxMeat]

ASSUME WorldAssumption ==
    /\ Positions \subseteq Int \X Int
    /\ Sizes \subseteq Nat
    /\ Vision \in Nat /\ MaxMeat \in Nat
    /\ NoEntity \notin Entity

VARIABLES
    registry,    \* EntitiesRegistry
    tree,        \* EntityMap::quadtree
    turn,        \* the ids this tick still has to run
    reply,       \* what the last create request was answered
    halted       \* the process is gone

vars == <<registry, tree, turn, reply, halted>>

NoReply == [of |-> NoEntity, what |-> "nothing"]

RegistryTypeOK == registry \in [Ids -> Entity \cup {NoEntity}]

Init ==
    /\ registry = [i \in Ids |-> NoEntity]
    /\ tree = Empty
    /\ turn = {}
    /\ reply = NoReply
    /\ halted = FALSE

-----------------------------------------------------------------------------
(* World::add, remove, update.                                             *)

InRegistry(i) == registry[i] # NoEntity

Exists(i) == InRegistry(i) /\ i \in IdsIn(tree)

Bounds(e) == ToAABB(e.size, e.pos)

\* The map first, then the registry; if that refuses, the map is rolled back.
Add(i, e) ==
    IF ~CanAdd(tree, i, Bounds(e)) THEN UNCHANGED <<registry, tree>>
    ELSE IF InRegistry(i)
         THEN tree' = RemoveEntry(AddEntry(tree, i, Bounds(e)), i) /\ UNCHANGED registry
         ELSE /\ tree' = AddEntry(tree, i, Bounds(e))
              /\ registry' = [registry EXCEPT ![i] = e]

Added(i, e) == CanAdd(tree, i, Bounds(e)) /\ ~InRegistry(i)

Removed_RegistryOnly(i) ==
    [registry |-> IF Exists(i) THEN [registry EXCEPT ![i] = NoEntity] ELSE registry,
     tree |-> tree]

\* World::remove: what it leaves.
Removed(i) ==
    IF Exists(i)
    THEN [registry |-> [registry EXCEPT ![i] = NoEntity], tree |-> RemoveEntry(tree, i)]
    ELSE [registry |-> registry, tree |-> tree]

Remove(i) == registry' = Removed(i).registry /\ tree' = Removed(i).tree

\* Does World::update accept the move?  The old bounds are computed from the
\* size the entity has now.
Accepts(r, i, p) ==
    /\ r[i] # NoEntity /\ i \in IdsIn(tree)
    /\ CanUpdate(tree, i, ToAABB(r[i].size, p), Bounds(r[i]))

Update_PositionFirst(r, i, p) ==
    IF Accepts(r, i, p)
    THEN /\ tree' = UpdateEntry(tree, i, ToAABB(r[i].size, p), Bounds(r[i]))
         /\ registry' = [r EXCEPT ![i].pos = p]
    ELSE /\ registry' = [r EXCEPT ![i].pos = p]
         /\ UNCHANGED tree

\* World::update, with `r' the registry after what its caller changed before.
Update(r, i, p) ==
    IF Accepts(r, i, p)
    THEN /\ tree' = UpdateEntry(tree, i, ToAABB(r[i].size, p), Bounds(r[i]))
         /\ registry' = [r EXCEPT ![i].pos = p]
    ELSE registry' = r /\ UNCHANGED tree

-----------------------------------------------------------------------------
(* Between ticks: entities are added, attacked, made for clients.          *)

Idle == ~halted /\ turn = {}

AddEntity ==
    /\ Idle
    /\ \E i \in Ids, p \in Positions, s \in Sizes :
          Add(i, [pos |-> p, size |-> s, alive |-> TRUE,
                  meat |-> IF i \in Corpses THEN MaxMeat ELSE 0])
    /\ reply' = NoReply
    /\ UNCHANGED <<turn, halted>>

\* make_creature takes add()'s success for its failure: it answers "none" for
\* a creature it has added, and looks up one it has not, which throws through
\* the read handler and io_context.run() out of main().
MakeCreature(i) ==
    /\ Idle
    /\ ~InRegistry(i)
    /\ \E p \in Positions, s \in Sizes :
          LET e == [pos |-> p, size |-> s, alive |-> TRUE, meat |-> 0]
          IN  /\ Add(i, e)
              /\ IF Added(i, e)
                 THEN reply' = [of |-> i, what |-> "none"] /\ UNCHANGED halted
                 ELSE reply' = [of |-> i, what |-> "throws"] /\ halted' = TRUE
    /\ UNCHANGED turn

\* AttackMotor::attack takes life; none may be left.
Attack(i) ==
    /\ Idle
    /\ InRegistry(i)
    /\ registry' = [registry EXCEPT ![i].alive = FALSE]
    /\ reply' = NoReply
    /\ UNCHANGED <<tree, turn, halted>>

\* Lifecycle::run collects the ids, and then runs those that still exist.
BeginTick ==
    /\ Idle
    /\ turn' = {i \in Ids : InRegistry(i)}
    /\ turn' # {}
    /\ reply' = NoReply
    /\ UNCHANGED <<registry, tree, halted>>

-----------------------------------------------------------------------------
(* One entity's run within a tick.                                         *)

\* run() of i, the next of the keys in the registry's unspecified order.  The
\* loop's exists() passes over no id: a run removes nobody but itself.
Runs(i) == ~halted /\ i \in turn /\ InRegistry(i) /\ UNCHANGED reply

Done(i) == turn' = turn \ {i} /\ UNCHANGED halted

\* An exception leaves Lifecycle::run: the rest of the tick does not happen.
Throws == turn' = {} /\ UNCHANGED halted

Grown(e) == {[e EXCEPT !.size = s] : s \in {z \in Sizes : z >= e.size}}

Sees(t, e) == Find(t, ToAABB(Vision, e.pos))

\* Perceiver::perceive is not implemented for embryos and eggs.
Perceivable(seen) == seen \cap (Embryos \cup Eggs) = {}

\* Nothing eaten, or something of a corpse in sight.
Meals(r, seen) ==
    {r} \cup UNION {{[r EXCEPT ![c].meat = m] : m \in 0..r[c].meat} :
                       c \in {x \in seen \cap Corpses : r[x] # NoEntity}}

\* The plan of a creature that has grown into e: nothing or a meal; a move, to a
\* place that was read through a dangling pointer and may be any; or an
\* exception, when it looks for food and there is none.
Acts(i, e) ==
    LET r == [registry EXCEPT ![i] = e] IN
    \/ registry' \in Meals(r, Sees(tree, e)) /\ UNCHANGED tree /\ Done(i)
    \/ \E p \in Positions : p # e.pos /\ Update(r, i, p) /\ Done(i)
    \/ registry' = r /\ UNCHANGED tree /\ Throws

RunCreature(i) ==
    /\ Runs(i) /\ i \in Creatures
    /\ registry[i].alive
    /\ \E e \in Grown(registry[i]) :
          IF Perceivable(Sees(tree, e)) THEN Acts(i, e)
          ELSE registry' = [registry EXCEPT ![i] = e] /\ UNCHANGED tree /\ Throws

\* A dead creature is removed, which destroys the object, and its run goes on
\* with the reference: the build crashes, or goes on with what is left there,
\* which is in neither registry nor map any more: it eats, throws, moves nowhere.
RunDeadCreature(i) ==
    LET w == Removed(i)
        seen == Sees(w.tree, registry[i])
    IN  /\ Runs(i) /\ i \in Creatures
        /\ ~registry[i].alive
        /\ tree' = w.tree
        /\ \/ Perceivable(seen) /\ registry' \in Meals(w.registry, seen) /\ Done(i)
           \/ registry' = w.registry /\ Throws
           \/ registry' = w.registry /\ halted' = TRUE /\ UNCHANGED turn

\* EmbryoMotor::run: growing costs energy, the last of which may go.
RunEmbryo(i) ==
    /\ Runs(i) /\ i \in Embryos
    /\ registry[i].alive
    /\ \E e \in Grown(registry[i]), a \in BOOLEAN :
          registry' = [registry EXCEPT ![i] = [e EXCEPT !.alive = a]]
    /\ UNCHANGED tree
    /\ Done(i)

\* The dead embryo grows and ages in freed memory.
RunDeadEmbryo(i) ==
    /\ Runs(i) /\ i \in Embryos
    /\ ~registry[i].alive
    /\ Remove(i)
    /\ \/ Done(i)
       \/ halted' = TRUE /\ UNCHANGED turn

\* raw_meat shrinks to a tenth, and a corpse without any goes.
RunCorpse(i) ==
    /\ Runs(i) /\ i \in Corpses
    /\ IF registry[i].meat <= 1 THEN Remove(i)
       ELSE registry' = [registry EXCEPT ![i].meat = @ - 1] /\ UNCHANGED tree
    /\ Done(i)

RunEgg(i) ==
    /\ Runs(i) /\ i \in Eggs
    /\ Done(i)
    /\ UNCHANGED <<registry, tree>>

-----------------------------------------------------------------------------

Run(i) ==
    \/ RunCreature(i) \/ RunDeadCreature(i)
    \/ RunEmbryo(i) \/ RunDeadEmbryo(i) \/ RunCorpse(i) \/ RunEgg(i)

Next ==
    \/ AddEntity
    \/ \E i \in Creatures : MakeCreature(i) \/ Attack(i)
    \/ BeginTick
    \/ \E i \in Ids : Run(i)

Spec == Init /\ [][Next]_vars

-----------------------------------------------------------------------------
(* Properties.                                                             *)

\* docs/rules.md "Atomicity": an entity is in the registry exactly when it is
\* in the map, through refused additions and moves, deaths and aborted ticks.
RegistryMatchesMap == \A i \in Ids : InRegistry(i) <=> i \in IdsIn(tree)

\* Through splits, moves and removals the quadtree keeps the invariants of
\* quadtree.hpp's invariants_hold (nothing lost, doubled or outside its node),
\* every entry lies where its own bounds lead, so it can be removed by them, and
\* the search that prunes nodes finds what a search without the tree would.
IndexExact ==
    /\ InvariantsHold(tree)
    /\ Filed(tree)
    /\ \A p \in Positions, s \in Sizes \cup {Vision} :
          Find(tree, ToAABB(s, p)) = {e.id : e \in {f \in tree.entries :
                                          Intersects(f.box, ToAABB(s, p))}}

\* What the map knows of an entity is its position and a size it once had: a
\* creature or embryo that grows is not indexed again before it moves.
IndexedWherePlaced ==
    \A e \in tree.entries :
        LET x == registry[e.id]
        IN  x # NoEntity => \E s \in Sizes : s <= x.size /\ e.box = ToAABB(s, x.pos)

\* A move is whole or not at all: whenever a step changes an entity's position
\* its bounds are indexed there, at its size, and no other entry is touched.
MovesWhole ==
    [][\A i \in Ids :
          InRegistry(i) /\ registry'[i] # NoEntity /\ registry'[i].pos # registry[i].pos =>
              /\ \E e \in tree'.entries : e.id = i /\ e.box = ToAABB(registry'[i].size, registry'[i].pos)
              /\ \A e \in tree.entries : e.id # i => \E f \in tree'.entries : f.id = e.id /\ f.box = e.box]_vars

\* docs/SDK.md:41 "Interpreter functions may also return `std::nullopt' when
\* the requested entity or value does not exist": a request is answered "none"
\* only if the creature is not in the world.
NoneMeansAbsent == reply.what = "none" => ~InRegistry(reply.of)

=============================================================================
