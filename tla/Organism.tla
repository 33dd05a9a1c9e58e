------------------------------ MODULE Organism ------------------------------
(***************************************************************************)
(* The life of creatures, embryos and corpses: birth, growth, perception,  *)
(* brain, eating, attack, conception, gestation and death, run once each   *)
(* per tick in the registry's unspecified order.                           *)
(*                                                                         *)
(* World models the registry and the entity map; here the map finds what   *)
(* is where it is.  Body::hungry() is declared and defined nowhere, and    *)
(* answers any ratio.  crossover() of two genomes is defined               *)
(* (genetics/motor.cpp:285), but combines parts whose crossovers are       *)
(* declared and defined nowhere; conceive() wants parents of one species,  *)
(* and an embryo gets that species' own genome here, the scrambling of     *)
(* genes left out.  No age ever rises, so relative ages are 0.             *)
(***************************************************************************)
EXTENDS Genome, Perception, FiniteSetsExt

CONSTANTS
    MaxIds,       \* bound: base ids given
    Soils,        \* the territory's soil: a function from ids to [position, width]
    Half,         \* half the territory's length
    Places,       \* what a dangling position reads (a bound)
    Blueprints,   \* what creatures are made from (a bound)
    Hungers,      \* what hungry() answers (a bound)
    Counts,       \* what the Poisson distribution of children gives (a bound)
    MaxTicks,     \* bound: how many ticks there are at most after each of the callers' calls
    NoEntity

ASSUME OrganismAssumption ==
    /\ MaxIds \in Nat /\ Half \in Nat
    /\ Places \subseteq -Half..Half
    /\ Blueprints \subseteq [specie : Species, gender : {"FEMALE", "MALE"}, position : -Half..Half]
    /\ Hungers \subseteq 0..One /\ Counts \subseteq Nat
    /\ MaxTicks \in Seq(Nat)
    /\ NoEntity \notin [position : Int, size : [width : Nat, height : Nat], meat : Nat]

VARIABLES
    creatures, corpses, embryos,   \* the registry, by the entity's type
    given,     \* base ids given so far; an EntityId is one of them and a type
    turn,      \* <<type, id>> of those this tick still has to run
    tick,      \* ticks begun
    calls,     \* what callers have done between them
    halted     \* the process is gone

vars == <<creatures, corpses, embryos, given, turn, tick, calls, halted>>

Ids == 1..MaxIds

In(registry) == {i \in Ids : registry[i] # NoEntity}

Init ==
    /\ creatures = [i \in Ids |-> NoEntity]
    /\ corpses = [i \in Ids |-> NoEntity]
    /\ embryos = [i \in Ids |-> NoEntity]
    /\ given = 0 /\ turn = {} /\ tick = 0 /\ calls = 0
    /\ halted = FALSE

Idle == ~halted /\ turn = {}

Called == Idle /\ calls < Len(MaxTicks) /\ calls' = calls + 1 /\ UNCHANGED tick

-----------------------------------------------------------------------------
(* Birth                                                                   *)

NEONATE_FRACTION == 8

Genes(c) == GenomeOf(c.specie).creature

EmptyUterus(energy) == <<[energy |-> energy, pregnant |-> <<>>]>>

\* ReproductiveState: a uterus, which has as much energy as the body, or none.
Organs(gender, energy) == IF gender = "FEMALE" THEN EmptyUterus(energy) ELSE <<>>

FromBlueprint(b) ==
    LET g == GenomeOf(b.specie)
        energy == Limited(Part(NEONATE_FRACTION, EmbryoMaxEnergy(g)), EmbryoMaxEnergy(g))
    IN  [specie |-> b.specie, position |-> b.position,
         energy |-> energy,
         reserved |-> Limited(Part(50, energy.value),
                              Part(NEONATE_FRACTION, g.creature.metabolism.max_reserved_energy)),
         life |-> Limited(Part(NEONATE_FRACTION, EmbryoLife(g)), EmbryoLife(g)),
         size |-> [width |-> Part(NEONATE_FRACTION, g.creature.morphology.width),
                   height |-> Part(NEONATE_FRACTION, g.creature.morphology.height)],
         organs |-> Organs(b.gender, energy),
         intent |-> [type |-> "NOTHING", time |-> 0]]

\* choose_random_gender picks one of FEMALE and FEMALE.
RandomGender == "FEMALE"

SquareRoot(n) == CHOOSE w \in 0..n : w * w <= n /\ (w + 1) * (w + 1) > n

\* Embryo::size
SizeOfEmbryo(e) ==
    LET width == SquareRoot(Part(160, e.area * One)) IN [width |-> width, height |-> (e.area * One) \div width]

HatchEmbryo(e) ==
    [specie |-> e.specie, position |-> e.position,
     energy |-> e.energy,
     reserved |-> Limited(Part(50, e.energy.value),
                          Part(NEONATE_FRACTION, Genes(e).metabolism.max_reserved_energy)),
     life |-> e.life,
     size |-> SizeOfEmbryo(e),
     organs |-> Organs(RandomGender, e.energy),
     intent |-> [type |-> "NOTHING", time |-> 0]]

-----------------------------------------------------------------------------
(* Growth and death                                                        *)

EnergyGain(c) ==
    Part(Genes(c).metabolism.growth.max_energy,
         Clamped(Genes(c).metabolism.max_energy - c.energy.max, 0, Genes(c).metabolism.max_energy))

ReservedGain(c) ==
    Part(Genes(c).metabolism.growth.max_reserved_energy,
         Clamped(Genes(c).metabolism.max_reserved_energy - c.reserved.max, 0, Genes(c).metabolism.max_reserved_energy))

\* Towards the average of the species, as fast as the creature is alive.
SizeGain(c, now, average) == Part(Normalized(((average - now) * One) \div average), Ratio(c.life))

\* The maxima grow, and the reserve pays as far as it can.
Grow(c) ==
    [c EXCEPT !.size = [width |-> @.width + SizeGain(c, @.width, Genes(c).morphology.width),
                        height |-> @.height + SizeGain(c, @.height, Genes(c).morphology.height)],
              !.energy = Widen(@, EnergyGain(c)),
              !.reserved = Lose(Widen(Lose(@, EnergyGain(c)), ReservedGain(c)), ReservedGain(c))]

IsDead(e) == IsZero(e.life) \/ IsZero(e.energy)

-----------------------------------------------------------------------------
(* Reproduction                                                            *)

IsPregnant(c) == c.organs # <<>> /\ c.organs[1].pregnant # <<>>

Pregnancy(c) == c.organs[1].pregnant[1]

Transfer_NotFromEnergy(c, energyRatio, reservedRatio) ==
    LET e == Part(energyRatio, c.energy.value)
        r == Part(reservedRatio, c.reserved.value)
    IN  [c EXCEPT !.organs[1].energy = Gain(@, Least(Remaining(@), e + r)),
                  !.reserved = Lose(@, r)]

\* transfer_energy_to_uterus: what enters the uterus is limited by its room,
\* but the whole share of the reserve is gone.
Transfer(c, energyRatio, reservedRatio) ==
    LET e == Part(energyRatio, c.energy.value)
        r == Part(reservedRatio, c.reserved.value)
        needed == Least(Remaining(c.organs[1].energy), e + r)
    IN  [c EXCEPT !.organs[1].energy = Gain(@, needed),
                  !.energy = Lose(@, Least(e, needed)),
                  !.reserved = Lose(@, r)]

Gestate_NeverFull(c) == [c EXCEPT !.organs[1].pregnant[1].gestation.value = @ + 1]

\* State::Motor::run of a pregnant creature.
Gestate(c) == [Transfer(c, 20, 50) EXCEPT !.organs[1].pregnant[1].gestation = Pass(@)]

GenerateEmbryo(specie) ==
    LET g == GenomeOf(specie)
        max_energy == EmbryoMaxEnergy(g) \div 7
        max_life == EmbryoLife(g) \div 5
    IN  [specie |-> specie, energy |-> Limited(max_energy \div 2, max_energy),
         life |-> Limited(max_life \div 2, max_life), health |-> g.embryo.health,
         area |-> EmbryoArea(g) \div 5, age |-> 0, position |-> 0]

\* prepair_to_conceive, with `count' children drawn for it.
Prepared(c, count) ==
    [Transfer(c, 30, 50) EXCEPT !.organs[1].pregnant =
        <<[embryos |-> <<>>, gestation |-> Counter(0, Genes(c).reproductive.gestation_limit),
           born |-> BornCount(count)]>>]

\* The count of the loop is drawn anew, and the loop returns its first embryo.
Conceived(c, count, drawn, id) ==
    IF drawn = 0 THEN Prepared(c, count)
    ELSE [Prepared(c, count) EXCEPT !.organs[1].pregnant[1].embryos = <<id>>]

-----------------------------------------------------------------------------
(* Brain                                                                   *)

ShouldStop_OffByOne(intent) ==
    \/ intent.type = "FIND_FOOD" /\ intent.time > 8
    \/ intent.type = "NOTHING" /\ intent.time > 1

ShouldStop(intent) ==
    \/ intent.type = "FIND_FOOD" /\ intent.time > 7
    \/ intent.type = "NOTHING" /\ intent.time > 1

ScoreNothing == 60

ScoreFindFood(c, hungry) ==
    NormalizedPlus(NormalizedTimes(hungry, IF hungry > 75 THEN 130 ELSE 112),
                   IF IsPregnant(c) THEN NormalizedTimes(CounterRatio(Pregnancy(c).gestation), 40) ELSE 0)

\* Instincts::take: the first of the two unless the second scores more.
Take(c, hungry) == IF ScoreFindFood(c, hungry) > ScoreNothing THEN "FIND_FOOD" ELSE "NOTHING"

\* BrainMotor::run
Think(c, hungry) ==
    LET intent == IF ShouldStop(c.intent) THEN [type |-> Take(c, hungry), time |-> 0] ELSE c.intent
    IN  [c EXCEPT !.intent = [intent EXCEPT !.time = @ + 1]]

-----------------------------------------------------------------------------
(* Perception                                                              *)

Registry == [CREATURE |-> creatures, CORPSE |-> corpses, EMBRYO |-> embryos]

Entities == {x \in {"CREATURE", "CORPSE", "EMBRYO"} \X Ids : Registry[x[1]][x[2]] # NoEntity}

At(x) == Registry[x[1]][x[2]]

WidthOf(x) == IF x[1] = "EMBRYO" THEN SizeOfEmbryo(At(x)).width ELSE At(x).size.width

InSight_OfTheCentre(c) ==
    {x \in Entities : Intersects(SizeBox(GenomeOf(c.specie).core.vision_radius \div 2, c.position),
                                 SizeBox(WidthOf(x), At(x).position))}

\* EntityMap::find: the vision radius is the width of the box, not half of it.
InSight(c) ==
    {x \in Entities : Intersects(SizeBox(GenomeOf(c.specie).core.vision_radius, c.position),
                                 SizeBox(WidthOf(x), At(x).position))}

\* Perceiver::perceive throws for an embryo.
Perceivable(c) == \A x \in InSight(c) : x[1] # "EMBRYO"

\* The creature itself is among them.  No nature can be added to the world.
Perceive(c) ==
    LET radius == GenomeOf(c.specie).core.vision_radius
        soils == {s \in DOMAIN Soils : Intersects(RadiusBox(radius, c.position),
                                                  RadiusBox(Soils[s].radius, Soils[s].position))}
    IN  Perceived([x \in InSight(c) |-> [position |-> At(x).position, width |-> WidthOf(x)]],
                  [s \in soils |-> [position |-> Soils[s].position, width |-> 2 * Soils[s].radius]],
                  <<>>, radius, c.position)

FIND_FOOD_RADIUS == 500

\* The corpses choose_goal scores; which it prefers is left open.
Candidates(p) == {x \in Reduce(p, FIND_FOOD_RADIUS, NoFilter).entities : x[1] = "CORPSE"}

-----------------------------------------------------------------------------
(* Actions of a creature                                                   *)

\* Food divided into halves, of which each store takes what it has room for.
EatenEnergy(c, meat) == Least(Remaining(c.energy), Part(50, meat))

EatenReserved(c, meat) == Least(Remaining(c.reserved), Part(50, meat))

Fed(c, meat) ==
    [c EXCEPT !.energy = Gain(@, EatenEnergy(c, meat)), !.reserved = Gain(@, EatenReserved(c, meat))]

Left(c, meat) == meat - (EatenEnergy(c, meat) + EatenReserved(c, meat))

Eat(i, c, x) ==
    /\ creatures' = [creatures EXCEPT ![i] = Fed(c, corpses[x[2]].meat)]
    /\ corpses' = [corpses EXCEPT ![x[2]].meat = Left(c, @)]

\* MovementMotor::move: the world takes the move or refuses it.
Move(i, c, place) ==
    /\ \/ creatures' = [creatures EXCEPT ![i] = c]
       \/ place \in -Half..Half /\ creatures' = [creatures EXCEPT ![i] = [c EXCEPT !.position = place]]
    /\ UNCHANGED corpses

\* AttackPhysiology::calculate_damage
Strength(c) ==
    Part(Ratio(c.life), CASE c.specie \in {"HIPPOPOTAMUS", "CROCODILE"} -> 3500
                          [] c.specie = "CRAB" -> 1500
                          [] c.specie = "FISH" -> 300)

-----------------------------------------------------------------------------
(* Between ticks.  Nothing in the program calls conceive(), attack(),      *)
(* generate_corpse() or hatch_embryo(): their callers may do so any time.  *)

\* gen_id(): an id nothing has had before.
NewId(id) == id = given + 1 /\ given' = id

AddCreature ==
    /\ Called
    /\ \E id \in Ids, b \in Blueprints :
          /\ NewId(id)
          /\ creatures' = [creatures EXCEPT ![id] = FromBlueprint(b)]
    /\ UNCHANGED <<corpses, embryos, turn, halted>>

CorpseOfCreature(c) ==
    [position |-> c.position, size |-> c.size,
     meat |-> Part(50, c.energy.value) + Part(75, c.reserved.value)
                + Part(20, Part(Area([width |-> c.size.width, height |-> c.size.height]), c.reserved.value))]

CorpseOfEmbryo(e) ==
    [position |-> e.position, size |-> SizeOfEmbryo(e),
     meat |-> Part(40, e.energy.value) + Part(15, Part(e.area, e.energy.value))]

MakeCorpse ==
    /\ Called
    /\ \E id \in Ids, x \in Entities :
          /\ NewId(id)
          /\ x[1] # "CORPSE" /\ IsDead(At(x))
          /\ corpses' = [corpses EXCEPT ![id] = IF x[1] = "EMBRYO" THEN CorpseOfEmbryo(At(x))
                                                ELSE CorpseOfCreature(At(x))]
    /\ UNCHANGED <<creatures, embryos, turn, halted>>

Attack(attacker, target) ==
    /\ Called
    /\ attacker # target
    /\ {attacker, target} \subseteq In(creatures)
    /\ creatures' = [creatures EXCEPT ![target].life = Lose(@, Strength(creatures[attacker]))]
    /\ UNCHANGED <<corpses, embryos, given, turn, halted>>

\* conceive() with a male of the species, by a caller that has checked nothing
\* but the uterus.  A pregnant female is left as she is; of the embryos of one
\* that is not, at most one comes back, and the caller adds it to the world.
Conceive(mother) ==
    /\ Called
    /\ mother \in In(creatures)
    /\ creatures[mother].organs # <<>> /\ ~IsPregnant(creatures[mother])
    /\ \E id \in Ids, count \in Counts, drawn \in Counts :
          /\ creatures' = [creatures EXCEPT ![mother] = Conceived(@, count, drawn, id)]
          /\ IF drawn = 0 THEN UNCHANGED <<embryos, given>>
             ELSE /\ NewId(id)
                  /\ embryos' = [embryos EXCEPT ![id] = GenerateEmbryo(creatures[mother].specie)]
    /\ UNCHANGED <<corpses, turn, halted>>

\* hatch_embryo() leaves the embryo where it is: its caller removes it or not.
Hatch(i) ==
    /\ Called
    /\ i \in In(embryos) \ In(creatures)
    /\ creatures' = [creatures EXCEPT ![i] = HatchEmbryo(embryos[i])]
    /\ embryos' \in {embryos, [embryos EXCEPT ![i] = NoEntity]}
    /\ UNCHANGED <<corpses, given, turn, halted>>

BeginTick ==
    /\ Idle
    /\ calls > 0 /\ tick < MaxTicks[calls]
    /\ tick' = tick + 1
    /\ turn' = Entities
    /\ turn' # {}
    /\ UNCHANGED <<creatures, corpses, embryos, given, calls, halted>>

-----------------------------------------------------------------------------
(* One entity's run.                                                       *)

Runs(x) == ~halted /\ x \in turn /\ UNCHANGED <<given, tick, calls>>

Done(x) == turn' = turn \ {x} /\ UNCHANGED halted

\* An exception leaves Lifecycle::run: the rest of the tick does not happen.
Throws == turn' = {} /\ UNCHANGED halted

\* What a creature does before it looks around.
Lived(c) == IF IsPregnant(Grow(c)) THEN Gestate(Grow(c)) ELSE Grow(c)

\* PlannerNothing: a metre to the right, or nothing.
DoNothing(i, c) ==
    /\ c.intent.type = "NOTHING"
    /\ \/ creatures' = [creatures EXCEPT ![i] = c] /\ UNCHANGED corpses
       \/ Move(i, c, c.position + One)

\* PlannerFindFood: the position of the goal is read from a candidate that is
\* gone: it may be here, to eat the corpse, or anywhere else, to move there.
FindFood(i, c) ==
    /\ c.intent.type = "FIND_FOOD"
    /\ \E x \in Candidates(Perceive(c)) :
          Eat(i, c, x) \/ \E place \in Places \ {c.position} : Move(i, c, place)

RunCreature(i) ==
    LET x == <<"CREATURE", i>>
        lived == Lived(creatures[i])
    IN  /\ Runs(x) /\ ~IsDead(creatures[i])
        /\ IF Perceivable(lived)
           THEN \E hungry \in Hungers :
                   LET c == Think(lived, hungry) IN
                   \/ (DoNothing(i, c) \/ FindFood(i, c)) /\ Done(x)
                   \/ /\ c.intent.type = "FIND_FOOD" /\ Candidates(Perceive(c)) = {}
                      /\ creatures' = [creatures EXCEPT ![i] = c] /\ UNCHANGED corpses
                      /\ Throws
           ELSE /\ creatures' = [creatures EXCEPT ![i] = lived] /\ UNCHANGED corpses
                /\ Throws
        /\ UNCHANGED embryos

\* A dead creature is removed, and its run goes on with the freed object: what
\* is left there eats, or throws, or does nothing, or the process ends.
RunDeadCreature(i) ==
    LET x == <<"CREATURE", i>> IN
    /\ Runs(x) /\ IsDead(creatures[i])
    /\ creatures' = [creatures EXCEPT ![i] = NoEntity]
    /\ \/ UNCHANGED corpses /\ Done(x)
       \/ /\ Perceivable(creatures[i])
          /\ \E y \in Candidates(Perceive(creatures[i])) :
                corpses' = [corpses EXCEPT ![y[2]].meat = Left(creatures[i], @)]
          /\ Done(x)
       \/ UNCHANGED corpses /\ Throws
       \/ UNCHANGED <<corpses, turn>> /\ halted' = TRUE
    /\ UNCHANGED embryos

\* get_increment: more than 1 below one half, where the cost is clamped to 1.
Increment(ratio) ==
    LET distance == 2 * (ratio - 50)
    IN  Normalized(IF ratio < 50 THEN One + Part(distance, distance) ELSE One - Part(distance, distance))

Trade(e, cost) == [e EXCEPT !.energy = Lose(@, cost)]

\* The five trades of EmbryoMotor::grow, each with what the one before left.
GrowArea(e) ==
    LET g == GenomeOf(e.specie)
        cost == Increment(Normalized(Part(Area(g.creature.morphology), (e.area * One) \div g.embryo.area)))
    IN  [Trade(e, cost) EXCEPT !.area = @ + cost]

GrowLife(e) ==
    LET cost == Increment(Ratio(e.life)) IN [Trade(e, cost) EXCEPT !.life = Gain(@, cost)]

GrowMaxLife(e) ==
    LET cost == Least(30, (e.life.max * One) \div EmbryoLife(GenomeOf(e.specie)))
    IN  [Trade(e, cost) EXCEPT !.life = Widen(@, cost)]

GrowMaxEnergy(e) ==
    LET cost == Least((e.energy.max * One) \div EmbryoMaxEnergy(GenomeOf(e.specie)), 30)
    IN  [Trade(e, cost) EXCEPT !.energy = Widen(@, cost)]

GrowHealth(e) ==
    LET cost == Increment(e.health) IN [Trade(e, cost) EXCEPT !.health = NormalizedPlus(@, cost)]

GrowEmbryo_Gains(e) == [GrowHealth(GrowMaxEnergy(GrowMaxLife(GrowLife(GrowArea(e))))) EXCEPT !.energy.value = e.energy.value]

GrowEmbryo(e) == GrowHealth(GrowMaxEnergy(GrowMaxLife(GrowLife(GrowArea(e)))))

RunEmbryo(i) ==
    /\ Runs(<<"EMBRYO", i>>)
    /\ IF IsDead(embryos[i])
       THEN /\ embryos' = [embryos EXCEPT ![i] = NoEntity]
            /\ \/ Done(<<"EMBRYO", i>>)
               \/ halted' = TRUE /\ UNCHANGED turn     \* growing in freed memory
       ELSE /\ embryos' = [embryos EXCEPT ![i] = [GrowEmbryo(embryos[i]) EXCEPT !.age = @ + 1]]
            /\ Done(<<"EMBRYO", i>>)
    /\ UNCHANGED <<creatures, corpses>>

RunCorpse(i) ==
    /\ Runs(<<"CORPSE", i>>)
    /\ LET meat == corpses[i].meat \div 10
       IN  corpses' = [corpses EXCEPT ![i] = IF meat = 0 THEN NoEntity ELSE [@ EXCEPT !.meat = meat]]
    /\ Done(<<"CORPSE", i>>)
    /\ UNCHANGED <<creatures, embryos>>

-----------------------------------------------------------------------------

Next ==
    \/ AddCreature \/ MakeCorpse \/ BeginTick
    \/ \E i, j \in Ids : Attack(i, j)
    \/ \E i \in Ids : Conceive(i) \/ Hatch(i)
    \/ \E i \in Ids : RunCreature(i) \/ RunDeadCreature(i) \/ RunEmbryo(i) \/ RunCorpse(i)

Spec == Init /\ [][Next]_vars

-----------------------------------------------------------------------------
(* Properties.                                                             *)

CreatureOK(c) ==
    /\ c.specie \in {b.specie : b \in Blueprints}
    /\ IsLimited(c.energy) /\ c.energy.max <= Genes(c).metabolism.max_energy
    /\ IsLimited(c.reserved) /\ c.reserved.max <= Genes(c).metabolism.max_reserved_energy
    /\ IsLimited(c.life) /\ c.life.max <= Genes(c).vital.max_life
    /\ c.position \in -Half..Half
    /\ \/ c.intent.type = "NOTHING" /\ c.intent.time \in 0..2
       \/ c.intent.type = "FIND_FOOD" /\ c.intent.time \in 1..8
    /\ c.organs # <<>> => IsLimited(c.organs[1].energy)
    /\ IsPregnant(c) => IsLimited(Pregnancy(c).gestation)

\* Nothing a creature goes through - growth, meals, pregnancies, attacks, in
\* any order - takes a store outside its limits or the limits beyond its
\* species, and no intent outlives its time.
WithinLimits ==
    /\ \A i \in In(creatures) : CreatureOK(creatures[i])
    /\ \A i \in In(embryos) : IsLimited(embryos[i].energy) /\ IsLimited(embryos[i].life)
                                /\ embryos[i].health \in 0..One
    /\ \A i \in In(corpses) : corpses[i].meat \in Nat
    /\ halted \/ turn \subseteq Entities
    /\ tick \in Nat /\ calls \in 0..Len(MaxTicks) /\ halted \in BOOLEAN

EnergyOf(c) == c.energy.value + c.reserved.value + (IF c.organs = <<>> THEN 0 ELSE c.organs[1].energy.value)

Total(f) == FoldFunction(+, 0, f)

\* What some of the entities have together.
EnergyIn(cs, ps, es, some) ==
    Total([i \in Ids |->
             (IF <<"CREATURE", i>> \in some /\ cs[i] # NoEntity THEN EnergyOf(cs[i]) ELSE 0)
             + (IF <<"CORPSE", i>> \in some /\ ps[i] # NoEntity THEN ps[i].meat ELSE 0)
             + (IF <<"EMBRYO", i>> \in some /\ es[i] # NoEntity THEN es[i].energy.value ELSE 0)])

\* No entity gains energy that others do not lose: growing, gestating and
\* eating move energy between stores that are limited and clamp silently, and
\* what those in the world have together never rises.
NoEnergyFromNothing ==
    [][EnergyIn(creatures', corpses', embryos', Entities)
         <= EnergyIn(creatures, corpses, embryos, Entities)]_vars

\* Nobody is ever born of a pregnancy: a pregnant creature stays pregnant, with
\* the embryos it conceived, and its gestation rises to its limit and stays.
PregnancyNeverEnds ==
    [][\A i \in In(creatures) : IsPregnant(creatures[i]) /\ creatures'[i] # NoEntity =>
          /\ IsPregnant(creatures'[i])
          /\ Pregnancy(creatures'[i]).embryos = Pregnancy(creatures[i]).embryos
          /\ Pregnancy(creatures'[i]).gestation.value
               \in Pregnancy(creatures[i]).gestation.value..Genes(creatures[i]).reproductive.gestation_limit]_vars

\* What the mother transfers to her uterus never reaches the embryo, which
\* starves long before the end of a viviparous gestation.
EmbryoStarves ==
    \A i \in In(embryos) :
        Genes(embryos[i]).reproductive.viviparous =>
            embryos[i].age < Genes(embryos[i]).reproductive.gestation_limit \div 2

Near(x, y, distance) == At(x).position - At(y).position \in -distance..distance

\* A tick is cut short only by a dead creature, by one that an embryo lies in
\* sight of, or by one that looks for food with none within half its vision
\* radius: an exception of one creature's run costs all that follow theirs.
CutShortOnlyBlind ==
    [][turn' = {} /\ Cardinality(turn) > 1 =>
          \E x \in turn :
             /\ x[1] = "CREATURE" /\ \A y \in Entities \ {x} : At(y)' = At(y)
             /\ LET radius == GenomeOf(At(x).specie).core.vision_radius IN
                \/ IsDead(At(x))
                \/ \E y \in Entities : y[1] = "EMBRYO" /\ Near(x, y, radius)
                \/ /\ At(x)'.intent.type = "FIND_FOOD"
                   /\ \A y \in Entities : y[1] = "CORPSE" => ~Near(x, y, radius \div 2)]_vars

=============================================================================
