--------------------------- MODULE OrganismProofs ---------------------------
(***************************************************************************)
(* What the turns of the creatures, corpses and embryos may do to their    *)
(* stores.  A limited store clamps silently, so that an amount added to one *)
(* need not be what left another: most of what follows is about amounts.   *)
(*                                                                         *)
(* The invariant IInv says what is in the registries, and what limits it   *)
(* keeps.  A creature keeps its own, and its pregnancy that of its species *)
(* (Sound).  An embryo buys its limits with its energy (Viable): they stay *)
(* within what it began with (Budget) but for what the last trade, and the *)
(* one after it, get without paying; its area takes one of two values      *)
(* (Areas), and the calf of a hippopotamus, whose genome fixes every trade, *)
(* passes through four states only, the last without energy (Calves).      *)
(*                                                                         *)
(* Each action is Lawful: it keeps the invariant, the pregnancies and the  *)
(* embryos in them (Kept), and leaves the energy of all together no greater *)
(* (NotRaised), which is shown id by id and added up with Tallies.    *)
(***************************************************************************)
EXTENDS OrganismMC, Tallies, TLAPS

Store == {l \in [value : Nat, max : Nat] : l.value <= l.max}

Uterus == [energy : Store, pregnant : Seq([embryos : Seq(Ids), gestation : Store, born : [value : Nat, max : Nat]])]

Creature ==
    [specie : Species, position : Int, energy : Store, reserved : Store, life : Store,
     size : [width : Nat, height : Nat], organs : Seq(Uterus),
     intent : [type : {"NOTHING", "FIND_FOOD"}, time : Nat]]

Corpse == [position : Int, size : [width : Nat, height : Nat], meat : Nat]

Embryo ==
    [specie : Species, energy : Store, life : Store, health : 0..One, area : Nat, age : Nat, position : Int]

Kinds == {b.specie : b \in Blueprints}

-----------------------------------------------------------------------------
(* The inductive invariant.                                                *)

Types ==
    /\ creatures \in [Ids -> Creature \cup {NoEntity}]
    /\ corpses \in [Ids -> Corpse \cup {NoEntity}]
    /\ embryos \in [Ids -> Embryo \cup {NoEntity}]
    /\ given \in 0..MaxIds
    /\ turn \in SUBSET ({"CREATURE", "CORPSE", "EMBRYO"} \X Ids)
    /\ tick \in Nat /\ calls \in 0..Len(MaxTicks) /\ halted \in BOOLEAN

\* A creature keeps its limits, and its pregnancy the limit of its species.
Sound(c) ==
    /\ CreatureOK(c)
    /\ IsPregnant(c) => Pregnancy(c).gestation.max = Genes(c).reproductive.gestation_limit

\* What an embryo begins with.
FirstMax(g) == EmbryoMaxEnergy(g) \div 7

FirstLife(g) == EmbryoLife(g) \div 5

\* All an embryo can still spend on its limits, or has spent: what it grows by
\* it pays for, and of the trade that takes its last energy and of the one
\* after it a part of at most 30 each is free.
Worth(e) == e.energy.value + e.energy.max + e.life.max

Budget(e) ==
    LET g == GenomeOf(e.specie) IN
    Worth(e) <= FirstMax(g) + (FirstMax(g) \div 2) + FirstLife(g) + (IF IsZero(e.energy) THEN 60 ELSE 0)

\* The area of an embryo rises once, unless it is that of a hippopotamus.
Areas ==
    [CRAB |-> {3, 103}, FISH |-> {2, 102}, CROCODILE |-> {10, 108}, HIPPOPOTAMUS |-> {16}]

\* The only viviparous species: what its embryo is, tick by tick.
Calf(age, value, max, life, maxLife, health) ==
    [specie |-> "HIPPOPOTAMUS", energy |-> [value |-> value, max |-> max],
     life |-> [value |-> life, max |-> maxLife], health |-> health, area |-> 16, age |-> age, position |-> 0]

Calves == {Calf(0, 394, 789, 750, 1500, 70), Calf(1, 176, 803, 850, 1520, 100), Calf(2, 43, 817, 949, 1540, 100),
           Calf(3, 0, 831, 1045, 1560, 100)}

Viable(e) ==
    /\ e.specie \in Kinds /\ e.position = 0
    /\ FirstMax(GenomeOf(e.specie)) <= e.energy.max /\ FirstLife(GenomeOf(e.specie)) <= e.life.max
    /\ Budget(e)
    /\ e.area \in Areas[e.specie]
    /\ e.specie = "HIPPOPOTAMUS" => e \in Calves

Populated ==
    /\ \A i \in In(creatures) : Sound(creatures[i])
    /\ \A i \in In(embryos) : Viable(embryos[i])
    /\ In(creatures) \cup In(corpses) \cup In(embryos) \subseteq 1..given
    /\ halted \/ turn \subseteq Entities

IInv == Types /\ Populated

-----------------------------------------------------------------------------
(* Stores.                                                                 *)

\* What RuntimeLimitedValue's += takes in is bounded by the room that is left.
LEMMA GainSays ==
    ASSUME NEW l \in Store, NEW q \in Nat
    PROVE  /\ Gain(l, q) \in Store
           /\ Gain(l, q).max = l.max
           /\ Gain(l, q).value <= l.value + q
           /\ q <= Remaining(l) => Gain(l, q).value = l.value + q
  BY DEF Store, Gain, Clamped, Remaining

\* What RuntimeLimitedValue's -= takes out is bounded by what is there.
LEMMA LoseSays ==
    ASSUME NEW l \in Store, NEW q \in Nat
    PROVE  /\ Lose(l, q) \in Store
           /\ Lose(l, q).max = l.max
           /\ Lose(l, q).value <= l.value
           /\ q <= l.value => Lose(l, q).value = l.value - q
  BY DEF Store, Lose, Clamped

\* The room left in a store is a quantity.
LEMMA RemainingSays == ASSUME NEW l \in Store PROVE Remaining(l) \in Nat
  BY DEF Store, Remaining

\* A part of a quantity is a quantity, and no more than the whole.
LEMMA PartSays ==
    ASSUME NEW q \in Nat
    PROVE  /\ Part(20, q) \in Nat /\ Part(30, q) \in Nat /\ Part(50, q) \in Nat
           /\ Part(20, q) <= q /\ Part(30, q) <= q /\ 2 * Part(50, q) <= q
  BY DEF Part, One

\* The least of two quantities is one of them.
LEMMA LeastSays ==
    ASSUME NEW a \in Nat, NEW b \in Nat
    PROVE  Least(a, b) \in Nat /\ Least(a, b) <= a /\ Least(a, b) <= b
  BY DEF Least

\* The uterus of a creature that has one is a store.
LEMMA UterusSays ==
    ASSUME NEW c \in Creature, c.organs # <<>>
    PROVE  /\ c.organs \in Seq(Uterus) /\ 1 \in DOMAIN c.organs
           /\ c.organs[1] \in Uterus /\ c.organs[1].energy \in Store
<1>1. c.organs \in Seq(Uterus)
  BY DEF Creature
<1>2. \A organs \in Seq(Uterus) : organs # <<>> => 1 \in DOMAIN organs /\ organs[1] \in Uterus
  OBVIOUS
<1>3. 1 \in DOMAIN c.organs /\ c.organs[1] \in Uterus
  BY <1>1, <1>2
<1>4. \A u \in Uterus : u.energy \in Store
  BY DEF Uterus
<1>5. QED BY <1>1, <1>3, <1>4

-----------------------------------------------------------------------------
(* Meals.                                                                  *)

\* MetabolismMotor::eat moves energy: what the creature has gained is what the
\* corpse has lost, to the unit, whatever room its stores have, and no store is
\* left outside its limits.
THEOREM MealConserves ==
    ASSUME NEW c \in Creature, NEW meat \in Nat
    PROVE  /\ EnergyOf(Fed(c, meat)) + Left(c, meat) = EnergyOf(c) + meat
           /\ Left(c, meat) \in Nat
           /\ Fed(c, meat) \in Creature
<1> DEFINE e == EatenEnergy(c, meat)
           r == EatenReserved(c, meat)
<1>0. c.energy \in Store /\ c.reserved \in Store
  BY DEF Creature
<1>1. Part(50, meat) \in Nat /\ 2 * Part(50, meat) <= meat
  BY PartSays
<1>2. /\ e \in Nat /\ e <= Remaining(c.energy) /\ e <= Part(50, meat)
      /\ r \in Nat /\ r <= Remaining(c.reserved) /\ r <= Part(50, meat)
  BY <1>0, <1>1, RemainingSays, LeastSays DEF EatenEnergy, EatenReserved
<1>3. /\ Gain(c.energy, e) \in Store /\ Gain(c.energy, e).value = c.energy.value + e
      /\ Gain(c.reserved, r) \in Store /\ Gain(c.reserved, r).value = c.reserved.value + r
  BY <1>0, <1>2, GainSays
<1>4. /\ Fed(c, meat) \in Creature
      /\ Fed(c, meat).energy = Gain(c.energy, e)
      /\ Fed(c, meat).reserved = Gain(c.reserved, r)
      /\ Fed(c, meat).organs = c.organs
  BY <1>3 DEF Fed, Creature
<1>5. Left(c, meat) = meat - (e + r) /\ Left(c, meat) \in Nat
  BY <1>1, <1>2 DEF Left
<1>6. c.energy.value \in Nat /\ c.reserved.value \in Nat
  BY <1>0 DEF Store
<1>7. c.organs # <<>> => c.organs[1].energy.value \in Nat
  BY UterusSays DEF Store
<1>8. EnergyOf(Fed(c, meat)) + Left(c, meat) = EnergyOf(c) + meat
  <2> DEFINE u == IF c.organs = <<>> THEN 0 ELSE c.organs[1].energy.value
  <2>1. u \in Nat
    BY <1>7
  <2>2. EnergyOf(c) = c.energy.value + c.reserved.value + u
    BY DEF EnergyOf
  <2>3. EnergyOf(Fed(c, meat)) = (c.energy.value + e) + (c.reserved.value + r) + u
    BY <1>3, <1>4 DEF EnergyOf
  <2> HIDE DEF u, e, r
  <2>4. QED BY <2>1, <2>2, <2>3, <1>2, <1>5, <1>6
<1>9. QED BY <1>4, <1>5, <1>8

-----------------------------------------------------------------------------
(* Transfers to the uterus.                                                *)

\* transfer_energy_to_uterus never makes energy, at the shares of a gestation
\* and of a conception: the uterus gains at most what the body and its reserve
\* lose - and less when it has no room for the whole share of the reserve.
THEOREM TransferMakesNone ==
    ASSUME NEW c \in Creature, c.organs # <<>>, NEW share \in {20, 30}
    PROVE  /\ EnergyOf(Transfer(c, share, 50)) <= EnergyOf(c)
           /\ Transfer(c, share, 50) \in Creature
<1> DEFINE e == Part(share, c.energy.value)
           r == Part(50, c.reserved.value)
           uterus == c.organs[1].energy
           needed == Least(Remaining(uterus), e + r)
           paid == Least(e, needed)
           filled == [c.organs[1] EXCEPT !.energy = Gain(uterus, needed)]
           organs == [c.organs EXCEPT ![1] = filled]
           d == Transfer(c, share, 50)
<1>0. /\ c.energy \in Store /\ c.reserved \in Store
      /\ c.organs \in Seq(Uterus) /\ 1 \in DOMAIN c.organs
      /\ c.organs[1] \in Uterus /\ uterus \in Store
  <2>1. c.energy \in Store /\ c.reserved \in Store
    BY DEF Creature
  <2>2. QED BY <2>1, UterusSays
<1>1. c.energy.value \in Nat /\ c.reserved.value \in Nat /\ uterus.value \in Nat
  BY <1>0 DEF Store
<1>2. /\ e \in Nat /\ e <= c.energy.value
      /\ r \in Nat /\ r <= c.reserved.value
  <2>1. r \in Nat /\ r <= c.reserved.value
    <3>1. Part(50, c.reserved.value) \in Nat /\ 2 * Part(50, c.reserved.value) <= c.reserved.value
      BY <1>1, PartSays
    <3> HIDE DEF r
    <3>2. r = Part(50, c.reserved.value) => r \in Nat /\ r <= c.reserved.value
      BY <1>1, <3>1
    <3>3. QED BY <3>2 DEF r
  <2>2. CASE share = 20
    <3>1. Part(20, c.energy.value) \in Nat /\ Part(20, c.energy.value) <= c.energy.value
      BY <1>1, PartSays
    <3>2. QED BY <2>1, <2>2, <3>1
  <2>3. CASE share = 30
    <3>1. Part(30, c.energy.value) \in Nat /\ Part(30, c.energy.value) <= c.energy.value
      BY <1>1, PartSays
    <3>2. QED BY <2>1, <2>3, <3>1
  <2>4. QED BY <2>2, <2>3
<1>3. needed \in Nat /\ needed <= Remaining(uterus) /\ needed <= e + r
  <2>1. Remaining(uterus) \in Nat
    BY <1>0, RemainingSays
  <2> HIDE DEF e, r
  <2>2. e + r \in Nat
    BY <1>2
  <2>3. QED BY <2>1, <2>2, LeastSays
<1>4. paid \in Nat /\ paid <= e /\ (paid = e \/ paid = needed)
  <2> HIDE DEF e, needed
  <2>1. QED BY <1>2, <1>3 DEF Least
<1>5. /\ Gain(uterus, needed) \in Store /\ Gain(uterus, needed).value = uterus.value + needed
      /\ Lose(c.energy, paid) \in Store /\ Lose(c.energy, paid).value = c.energy.value - paid
      /\ Lose(c.reserved, r) \in Store /\ Lose(c.reserved, r).value = c.reserved.value - r
  <2> HIDE DEF needed, paid, r, e, uterus
  <2>1. paid <= c.energy.value
    BY <1>1, <1>2, <1>4
  <2>2. QED BY <1>0, <1>1, <1>2, <1>3, <1>4, <2>1, GainSays, LoseSays
<1>6. d = [c EXCEPT !.organs = organs, !.energy = Lose(c.energy, paid), !.reserved = Lose(c.reserved, r)]
  BY <1>0 DEF Transfer
<1>7. filled \in Uterus /\ filled.energy = Gain(uterus, needed)
  <2> HIDE DEF needed
  <2>1. QED BY <1>0, <1>5 DEF Uterus
<1>8. organs \in Seq(Uterus) /\ organs # <<>> /\ organs[1] = filled
  <2> HIDE DEF filled
  <2>1. QED BY <1>0, <1>7
<1>9. /\ d \in Creature
      /\ d.organs = organs
      /\ d.energy = Lose(c.energy, paid)
      /\ d.reserved = Lose(c.reserved, r)
  <2> HIDE DEF organs, paid, r, d
  <2>1. QED BY <1>5, <1>6, <1>8 DEF Creature
<1>10. d.organs # <<>> /\ d.organs[1].energy = Gain(uterus, needed)
  <2> HIDE DEF organs, filled, d, uterus, needed
  <2>1. QED BY <1>7, <1>8, <1>9
<1>11. EnergyOf(d) = (c.energy.value - paid) + (c.reserved.value - r) + (uterus.value + needed)
  BY <1>5, <1>9, <1>10 DEF EnergyOf
<1>12. EnergyOf(c) = c.energy.value + c.reserved.value + uterus.value
  BY DEF EnergyOf
<1>13. needed <= paid + r
  <2> HIDE DEF e, r, needed, paid
  <2>1. QED BY <1>2, <1>3, <1>4
<1>14. EnergyOf(d) <= EnergyOf(c)
  <2>1. \A x, y, z, p, q, n \in Nat : n <= p + q => (x - p) + (y - q) + (z + n) <= x + y + z
    OBVIOUS
  <2> HIDE DEF e, r, needed, paid, uterus, d
  <2>2. (c.energy.value - paid) + (c.reserved.value - r) + (uterus.value + needed)
          <= c.energy.value + c.reserved.value + uterus.value
    BY <2>1, <1>1, <1>2, <1>3, <1>4, <1>13
  <2>3. QED BY <2>2, <1>11, <1>12
<1>15. QED BY <1>9, <1>14

-----------------------------------------------------------------------------
(* Quantities.                                                             *)

\* A part of a quantity is a quantity, and no more than the whole when the
\* ratio is one.
LEMMA PartOf ==
    ASSUME NEW r \in Nat, NEW q \in Nat
    PROVE  Part(r, q) \in Nat /\ (r <= One => Part(r, q) <= q)
<1>1. r * q \in Nat
  OBVIOUS
<1>2. r <= One => r * q <= 100 * q
  BY DEF One
<1> DEFINE x == r * q
<1>3. x \in Nat /\ (r <= One => x <= 100 * q)
  BY <1>1, <1>2
<1> HIDE DEF x
<1>4. x \div 100 \in Nat /\ (r <= One => x \div 100 <= q)
  BY <1>3
<1> QED BY <1>4 DEF Part, One, x

\* A ratio is a quantity of at most One.
LEMMA RatiosAreNat == One \in Nat /\ \A r \in 0..One : r \in Nat /\ r <= One
<1>1. One \in Nat
  BY DEF One
<1> QED BY <1>1

\* A NormalizedValue is a ratio, clamped.
LEMMA NormalizedSays == ASSUME NEW v \in Int PROVE Normalized(v) \in 0..One
  BY DEF Normalized, Clamped, One

\* A store is limited, and what is in it is a ratio of its limit.
LEMMA StoreSays ==
    ASSUME NEW l \in Store
    PROVE  /\ l = [value |-> l.value, max |-> l.max]
           /\ l.value \in Nat /\ l.max \in Nat /\ l.value <= l.max
           /\ IsLimited(l)
           /\ Ratio(l) \in 0..One
<1>1. l.value \in Nat /\ l.max \in Nat /\ l.value <= l.max
  BY DEF Store
<1>2. Ratio(l) \in 0..One
  <2>1. CASE l.max = 0
    BY <2>1 DEF Ratio, One
  <2>2. CASE l.max # 0
    <3>1. l.value * One \in Nat
      BY <1>1 DEF One
    <3>2. (l.value * One) \div l.max \in Int
      BY <1>1, <2>2, <3>1
    <3> QED BY <2>2, <3>2, NormalizedSays DEF Ratio
  <2> QED BY <2>1, <2>2
<1>3. l = [value |-> l.value, max |-> l.max]
  BY DEF Store
<1> QED BY <1>1, <1>2, <1>3 DEF IsLimited

\* A store made with a value within its maximum keeps it.
LEMMA LimitedSays ==
    ASSUME NEW v \in Nat, NEW m \in Nat
    PROVE  Limited(v, m) \in Store /\ Limited(v, m).max = m /\ Limited(v, m).value <= v
  BY DEF Limited, Clamped, Store

\* A wider store is a store.
LEMMA WidenSays ==
    ASSUME NEW l \in Store, NEW q \in Nat
    PROVE  Widen(l, q) \in Store /\ Widen(l, q).max = l.max + q /\ Widen(l, q).value = l.value
<1>1. Widen(l, q) = [value |-> l.value, max |-> l.max + q]
  BY DEF Widen, Store
<1> QED BY <1>1, StoreSays DEF Store

-----------------------------------------------------------------------------
(* Genomes.                                                                *)

\* What the laws below need of a genome: an embryo's averages are parts of the
\* creature's, and an embryo that has grown as far as its energy goes is not
\* beyond its species.
Bounded(g) ==
    /\ g.creature.metabolism.max_energy \in Nat /\ g.creature.metabolism.max_reserved_energy \in Nat
    /\ g.creature.metabolism.growth.max_energy \in 0..One
    /\ g.creature.metabolism.growth.max_reserved_energy \in 0..One
    /\ g.creature.vital.max_life \in Nat
    /\ g.creature.morphology.width \in Nat \ {0} /\ g.creature.morphology.height \in Nat \ {0}
    /\ g.creature.reproductive.gestation_limit \in Nat
    /\ EmbryoMaxEnergy(g) \in Nat \ {0} /\ EmbryoMaxEnergy(g) <= g.creature.metabolism.max_energy
    /\ EmbryoLife(g) \in Nat \ {0} /\ EmbryoLife(g) <= g.creature.vital.max_life
    /\ FirstMax(g) \in Nat /\ FirstMax(g) + (FirstMax(g) \div 2) + 60 <= g.creature.metabolism.max_energy
    /\ FirstLife(g) \in Nat /\ FirstLife(g) + (FirstMax(g) \div 2) + 60 <= g.creature.vital.max_life
    /\ g.embryo.health \in 0..One
    /\ g.core.vision_radius \in Nat /\ g.core.vision_radius >= 200

\* The database, species by species.
LEMMA DatabaseSays ==
    /\ GenomeOf("CRAB") = Crab /\ GenomeOf("FISH") = Fish
    /\ GenomeOf("CROCODILE") = Crocodile /\ GenomeOf("HIPPOPOTAMUS") = Hippopotamus
  BY DEF GenomeOf, Database

\* The four genomes of the database are so.
LEMMA GenomesBounded == ASSUME NEW s \in Species PROVE Bounded(GenomeOf(s))
<1>1. Bounded(Crab)
  BY SMT DEF Bounded, FirstMax, FirstLife, Crab, One, Diet, EmbryoMaxEnergy, EmbryoLife, Part
<1>2. Bounded(Fish)
  BY SMT DEF Bounded, FirstMax, FirstLife, Fish, One, Diet, EmbryoMaxEnergy, EmbryoLife, Part
<1>3. Bounded(Crocodile)
  BY SMT DEF Bounded, FirstMax, FirstLife, Crocodile, One, Diet, EmbryoMaxEnergy, EmbryoLife, Part
<1>4. Bounded(Hippopotamus)
  BY SMT DEF Bounded, FirstMax, FirstLife, Hippopotamus, One, Diet, EmbryoMaxEnergy, EmbryoLife, Part
<1> QED BY <1>1, <1>2, <1>3, <1>4, DatabaseSays DEF Species

\* The species of blueprints are species.
LEMMA KindsAreSpecies == Kinds \subseteq Species
  BY OrganismAssumption DEF Kinds

-----------------------------------------------------------------------------
(* Creatures.                                                              *)

\* The parts of a creature.
LEMMA CreatureSays ==
    ASSUME NEW c \in Creature
    PROVE  /\ c.specie \in Species /\ c.position \in Int
           /\ c.energy \in Store /\ c.reserved \in Store /\ c.life \in Store
           /\ c.size \in [width : Nat, height : Nat]
           /\ c.size.width \in Nat /\ c.size.height \in Nat
           /\ c.organs \in Seq(Uterus)
           /\ c.intent \in [type : {"NOTHING", "FIND_FOOD"}, time : Nat]
           /\ c.intent.type \in {"NOTHING", "FIND_FOOD"} /\ c.intent.time \in Nat
<1>1. /\ c.specie \in Species /\ c.position \in Int
      /\ c.energy \in Store /\ c.reserved \in Store /\ c.life \in Store
      /\ c.size \in [width : Nat, height : Nat]
      /\ c.organs \in Seq(Uterus)
      /\ c.intent \in [type : {"NOTHING", "FIND_FOOD"}, time : Nat]
  BY DEF Creature
<1> QED BY <1>1

\* What a creature has is a quantity.
LEMMA EnergyOfSays == ASSUME NEW c \in Creature PROVE EnergyOf(c) \in Nat
<1>1. c.energy.value \in Nat /\ c.reserved.value \in Nat
  BY CreatureSays, StoreSays
<1>2. c.organs # <<>> => c.organs[1].energy.value \in Nat
  BY UterusSays, StoreSays
<1> DEFINE u == IF c.organs = <<>> THEN 0 ELSE c.organs[1].energy.value
<1>3. u \in Nat
  BY <1>2
<1>4. EnergyOf(c) = c.energy.value + c.reserved.value + u
  BY DEF EnergyOf
<1> HIDE DEF u
<1> QED BY <1>1, <1>3, <1>4

\* A size grows by a quantity.
LEMMA SizeGainSays ==
    ASSUME NEW c \in Creature, NEW now \in Nat, NEW average \in Nat \ {0}
    PROVE  SizeGain(c, now, average) \in Nat
<1>1. (average - now) * One \in Int
  BY DEF One
<1>2. ((average - now) * One) \div average \in Int
  BY <1>1
<1> DEFINE n == Normalized(((average - now) * One) \div average)
           r == Ratio(c.life)
<1>3. n \in Nat /\ r \in Nat
  <2>1. n \in 0..One
    BY <1>2, NormalizedSays
  <2>2. r \in 0..One
    BY CreatureSays, StoreSays
  <2> QED BY <2>1, <2>2, RatiosAreNat
<1> HIDE DEF n, r
<1>4. Part(n, r) \in Nat
  BY <1>3, PartOf
<1> QED BY <1>4 DEF SizeGain, n, r

\* CreatureMotor's growth keeps a creature within its limits, and costs energy:
\* the maxima grow to those of the species at most.
LEMMA GrowSays ==
    ASSUME NEW c \in Creature, Sound(c)
    PROVE  /\ Grow(c) \in Creature /\ Sound(Grow(c))
           /\ EnergyOf(Grow(c)) <= EnergyOf(c)
           /\ Grow(c).organs = c.organs /\ Grow(c).specie = c.specie
           /\ Grow(c).position = c.position /\ Grow(c).intent = c.intent
           /\ Grow(c).energy.value = c.energy.value
<1> DEFINE g == GenomeOf(c.specie)
           me == g.creature.metabolism.max_energy
           mr == g.creature.metabolism.max_reserved_energy
           e == EnergyGain(c)
           r == ReservedGain(c)
           energy == Widen(c.energy, e)
           after == Widen(Lose(c.reserved, e), r)
           reserved == Lose(after, r)
           size == [width |-> c.size.width + SizeGain(c, c.size.width, Genes(c).morphology.width),
                    height |-> c.size.height + SizeGain(c, c.size.height, Genes(c).morphology.height)]
           d == Grow(c)
<1>1. /\ c.energy \in Store /\ c.reserved \in Store /\ c.life \in Store
      /\ c.energy.max \in Nat /\ c.reserved.max \in Nat
      /\ c.energy.value \in Nat /\ c.reserved.value \in Nat
      /\ c.energy.max <= me /\ c.reserved.max <= mr
  BY CreatureSays, StoreSays DEF Sound, CreatureOK, Genes
<1>2. /\ me \in Nat /\ mr \in Nat
      /\ g.creature.metabolism.growth.max_energy \in 0..One
      /\ g.creature.metabolism.growth.max_reserved_energy \in 0..One
      /\ g.creature.morphology.width \in Nat \ {0} /\ g.creature.morphology.height \in Nat \ {0}
  BY CreatureSays, GenomesBounded DEF Bounded
<1>3. e \in Nat /\ c.energy.max + e <= me
  <2>1. Clamped(me - c.energy.max, 0, me) = me - c.energy.max /\ me - c.energy.max \in Nat
    BY <1>1, <1>2 DEF Clamped
  <2>2. e = Part(g.creature.metabolism.growth.max_energy, me - c.energy.max)
    BY <2>1 DEF EnergyGain, Genes
  <2> HIDE DEF e, me
  <2>3. e \in Nat /\ e <= me - c.energy.max
    BY <1>2, <2>1, <2>2, PartOf, RatiosAreNat
  <2> QED BY <1>1, <1>2, <2>3
<1>4. r \in Nat /\ c.reserved.max + r <= mr
  <2>1. Clamped(mr - c.reserved.max, 0, mr) = mr - c.reserved.max /\ mr - c.reserved.max \in Nat
    BY <1>1, <1>2 DEF Clamped
  <2>2. r = Part(g.creature.metabolism.growth.max_reserved_energy, mr - c.reserved.max)
    BY <2>1 DEF ReservedGain, Genes
  <2> HIDE DEF r, mr
  <2>3. r \in Nat /\ r <= mr - c.reserved.max
    BY <1>2, <2>1, <2>2, PartOf, RatiosAreNat
  <2> QED BY <1>1, <1>2, <2>3
<1>5. energy \in Store /\ energy.max = c.energy.max + e /\ energy.value = c.energy.value
  <2> HIDE DEF e
  <2> QED BY <1>1, <1>3, WidenSays
<1>6. reserved \in Store /\ reserved.max = c.reserved.max + r /\ reserved.value <= c.reserved.value
  <2> HIDE DEF e, r
  <2>1. /\ Lose(c.reserved, e) \in Store /\ Lose(c.reserved, e).max = c.reserved.max
        /\ Lose(c.reserved, e).value <= c.reserved.value
    BY <1>1, <1>3, LoseSays
  <2>2. after \in Store /\ after.max = c.reserved.max + r /\ after.value <= c.reserved.value
    BY <2>1, <1>4, WidenSays
  <2>3. reserved \in Store /\ reserved.max = after.max /\ reserved.value <= after.value
    BY <2>2, <1>4, LoseSays
  <2>4. reserved.value \in Nat /\ after.value \in Nat
    BY <2>2, <2>3, StoreSays
  <2> HIDE DEF after, reserved
  <2> QED BY <1>1, <2>2, <2>3, <2>4
<1>7. size \in [width : Nat, height : Nat]
  <2>1. /\ SizeGain(c, c.size.width, Genes(c).morphology.width) \in Nat
        /\ SizeGain(c, c.size.height, Genes(c).morphology.height) \in Nat
    BY <1>2, CreatureSays, SizeGainSays DEF Genes
  <2> QED BY <2>1, CreatureSays
<1>8. d = [c EXCEPT !.size = size, !.energy = energy, !.reserved = reserved]
  BY DEF Grow, Creature
<1> HIDE DEF size, energy, after, reserved, e, r, d
<1>9. /\ d \in Creature /\ d.energy = energy /\ d.reserved = reserved /\ d.life = c.life
      /\ d.organs = c.organs /\ d.specie = c.specie /\ d.position = c.position /\ d.intent = c.intent
  BY <1>5, <1>6, <1>7, <1>8 DEF Creature
<1>10. Sound(d)
  <2>1. IsLimited(d.energy) /\ d.energy.max <= me /\ IsLimited(d.reserved) /\ d.reserved.max <= mr
    BY <1>3, <1>4, <1>5, <1>6, <1>9, StoreSays
  <2> QED BY <2>1, <1>9 DEF Sound, CreatureOK, Genes, IsPregnant, Pregnancy
<1>11. EnergyOf(d) <= EnergyOf(c)
  <2>1. c.organs # <<>> => c.organs[1].energy.value \in Nat
    BY UterusSays, StoreSays
  <2> DEFINE u == IF c.organs = <<>> THEN 0 ELSE c.organs[1].energy.value
  <2>2. u \in Nat
    BY <2>1
  <2>3. EnergyOf(c) = c.energy.value + c.reserved.value + u
    BY DEF EnergyOf
  <2>4. EnergyOf(d) = c.energy.value + reserved.value + u
    BY <1>5, <1>9 DEF EnergyOf
  <2>5. reserved.value \in Nat
    BY <1>6, StoreSays
  <2> HIDE DEF u
  <2> QED BY <1>1, <1>6, <2>2, <2>3, <2>4, <2>5
<1> QED BY <1>5, <1>9, <1>10, <1>11 DEF d

\* A pregnancy of a creature is a member of the type's set of pregnancies.
Pregnancies == [embryos : Seq(Ids), gestation : Store, born : [value : Nat, max : Nat]]

\* What a pregnant creature carries.
LEMMA PregnancySays ==
    ASSUME NEW c \in Creature, IsPregnant(c)
    PROVE  /\ c.organs # <<>> /\ c.organs[1].pregnant \in Seq(Pregnancies)
           /\ 1 \in DOMAIN c.organs[1].pregnant
           /\ Pregnancy(c) \in Pregnancies /\ Pregnancy(c).gestation \in Store
           /\ Pregnancy(c).embryos \in Seq(Ids)
<1>1. c.organs # <<>> /\ c.organs[1].pregnant # <<>>
  BY DEF IsPregnant
<1>2. c.organs[1] \in Uterus
  BY <1>1, UterusSays
<1>3. c.organs[1].pregnant \in Seq(Pregnancies)
  BY <1>2 DEF Uterus, Pregnancies
<1>4. \A s \in Seq(Pregnancies) : s # <<>> => 1 \in DOMAIN s /\ s[1] \in Pregnancies
  OBVIOUS
<1>5. 1 \in DOMAIN c.organs[1].pregnant /\ c.organs[1].pregnant[1] \in Pregnancies
  BY <1>1, <1>3, <1>4
<1>6. Pregnancy(c).gestation \in Store /\ Pregnancy(c).embryos \in Seq(Ids)
  BY <1>5 DEF Pregnancies, Pregnancy
<1> QED BY <1>1, <1>3, <1>5, <1>6 DEF Pregnancy

\* What keeps its place, its intent and its limits, and its pregnancy the
\* limit of the species, is as sound as it was.
LEMMA SoundKept ==
    ASSUME NEW c \in Creature, Sound(c), NEW d \in Creature,
           d.specie = c.specie, d.position = c.position, d.intent = c.intent,
           d.energy.max = c.energy.max, d.reserved.max = c.reserved.max, d.life.max = c.life.max,
           IsPregnant(d) => Pregnancy(d).gestation.max = Genes(d).reproductive.gestation_limit
    PROVE  Sound(d)
<1>1. IsLimited(d.energy) /\ IsLimited(d.reserved) /\ IsLimited(d.life)
  BY CreatureSays, StoreSays
<1>2. d.organs # <<>> => IsLimited(d.organs[1].energy)
  BY UterusSays, StoreSays
<1>3. IsPregnant(d) => IsLimited(Pregnancy(d).gestation)
  BY PregnancySays, StoreSays
<1> QED BY <1>1, <1>2, <1>3 DEF Sound, CreatureOK, Genes

\* Only the pregnancy of a creature changes: its energy does not.
LEMMA PregnantSays ==
    ASSUME NEW c \in Creature, c.organs # <<>>, NEW p \in Seq(Pregnancies)
    PROVE  LET d == [c EXCEPT !.organs[1].pregnant = p] IN
           /\ d \in Creature
           /\ d.organs # <<>> /\ d.organs[1].pregnant = p /\ d.organs[1].energy = c.organs[1].energy
           /\ d.specie = c.specie /\ d.position = c.position /\ d.intent = c.intent
           /\ d.energy = c.energy /\ d.reserved = c.reserved /\ d.life = c.life
           /\ EnergyOf(d) = EnergyOf(c)
<1> DEFINE d == [c EXCEPT !.organs[1].pregnant = p]
           u == [c.organs[1] EXCEPT !.pregnant = p]
           organs == [c.organs EXCEPT ![1] = u]
<1>1. c.organs \in Seq(Uterus) /\ 1 \in DOMAIN c.organs /\ c.organs[1] \in Uterus
  BY UterusSays
<1>2. u \in Uterus /\ u.pregnant = p /\ u.energy = c.organs[1].energy
  BY <1>1 DEF Uterus, Pregnancies
<1>3. d = [c EXCEPT !.organs = organs]
  BY <1>1
<1>4. organs \in Seq(Uterus) /\ organs # <<>> /\ organs[1] = u
  <2> HIDE DEF u
  <2> QED BY <1>1, <1>2
<1> HIDE DEF u, organs, d
<1>5. /\ d \in Creature /\ d.organs = organs
      /\ d.specie = c.specie /\ d.position = c.position /\ d.intent = c.intent
      /\ d.energy = c.energy /\ d.reserved = c.reserved /\ d.life = c.life
  BY <1>3, <1>4 DEF Creature
<1>6. EnergyOf(d) = EnergyOf(c)
  BY <1>2, <1>4, <1>5 DEF EnergyOf
<1> QED BY <1>2, <1>4, <1>5, <1>6 DEF d

\* transfer_energy_to_uterus leaves the pregnancy and the limits as they are.
LEMMA TransferKeeps ==
    ASSUME NEW c \in Creature, c.organs # <<>>, NEW share \in {20, 30}
    PROVE  LET d == Transfer(c, share, 50) IN
           /\ d \in Creature
           /\ EnergyOf(d) <= EnergyOf(c)
           /\ d.organs # <<>> /\ d.organs[1].pregnant = c.organs[1].pregnant
           /\ d.specie = c.specie /\ d.position = c.position /\ d.intent = c.intent /\ d.life = c.life
           /\ d.energy.max = c.energy.max /\ d.reserved.max = c.reserved.max
<1> DEFINE e == Part(share, c.energy.value)
           r == Part(50, c.reserved.value)
           needed == Least(Remaining(c.organs[1].energy), e + r)
           u == [c.organs[1] EXCEPT !.energy = Gain(@, needed)]
           organs == [c.organs EXCEPT ![1] = u]
           energy == Lose(c.energy, Least(e, needed))
           reserved == Lose(c.reserved, r)
           d == Transfer(c, share, 50)
<1>1. d \in Creature /\ EnergyOf(d) <= EnergyOf(c)
  BY TransferMakesNone
<1>2. c.organs \in Seq(Uterus) /\ 1 \in DOMAIN c.organs /\ c.organs[1] \in Uterus
  BY UterusSays
<1>3. c.energy \in Store /\ c.reserved \in Store
  BY CreatureSays
<1>4. energy.max = c.energy.max /\ reserved.max = c.reserved.max
  BY <1>3 DEF Lose, Store
<1>5. u.pregnant = c.organs[1].pregnant
  BY <1>2 DEF Uterus
<1>6. organs[1] = u
  BY <1>2
<1>7. d = [c EXCEPT !.organs = organs, !.energy = energy, !.reserved = reserved]
  BY <1>2 DEF Transfer
<1> HIDE DEF e, r, needed, u, organs, energy, reserved, d
<1>8. /\ d.organs = organs /\ d.energy = energy /\ d.reserved = reserved
      /\ d.specie = c.specie /\ d.position = c.position /\ d.intent = c.intent /\ d.life = c.life
  BY <1>7 DEF Creature
<1>9. DOMAIN organs = DOMAIN c.organs
  BY <1>2 DEF organs
<1>10. organs # <<>>
  BY <1>2, <1>9
<1> QED BY <1>1, <1>4, <1>5, <1>6, <1>8, <1>10 DEF d

\* IntegerWithMax's ++ stops at the maximum.
LEMMA PassSays ==
    ASSUME NEW l \in Store
    PROVE  Pass(l) \in Store /\ Pass(l).max = l.max /\ Pass(l).value \in l.value..l.max
<1>1. l.value \in Nat /\ l.max \in Nat /\ l.value <= l.max
  BY StoreSays
<1>2. CASE l.value < l.max
  <2>1. Pass(l) = [l EXCEPT !.value = l.value + 1]
    BY <1>2 DEF Pass
  <2>2. Pass(l) = [value |-> l.value + 1, max |-> l.max]
    BY <2>1 DEF Store
  <2> QED BY <1>1, <1>2, <2>2 DEF Store
<1>3. CASE ~ (l.value < l.max)
  <2>1. Pass(l) = l
    BY <1>3 DEF Pass
  <2> QED BY <1>1, <2>1
<1> QED BY <1>2, <1>3

\* A tick of gestation moves energy to the uterus and lets the pregnancy be:
\* its embryos stay, and its gestation goes on to the limit of the species.
LEMMA GestateSays ==
    ASSUME NEW c \in Creature, Sound(c), IsPregnant(c)
    PROVE  LET d == Gestate(c) IN
           /\ d \in Creature /\ Sound(d) /\ EnergyOf(d) <= EnergyOf(c)
           /\ IsPregnant(d) /\ Pregnancy(d).embryos = Pregnancy(c).embryos
           /\ Pregnancy(d).gestation.value
                \in Pregnancy(c).gestation.value..Genes(c).reproductive.gestation_limit
           /\ d.specie = c.specie /\ d.position = c.position /\ d.intent = c.intent
<1> DEFINE t == Transfer(c, 20, 50)
           p == c.organs[1].pregnant
           g == Pregnancy(c).gestation
           q == [p[1] EXCEPT !.gestation = Pass(g)]
           ps == [p EXCEPT ![1] = q]
           d == [t EXCEPT !.organs[1].pregnant = ps]
           limit == Genes(c).reproductive.gestation_limit
<1>1. /\ c.organs # <<>> /\ p \in Seq(Pregnancies) /\ 1 \in DOMAIN p
      /\ p[1] \in Pregnancies /\ g \in Store /\ g = p[1].gestation
      /\ p[1].embryos \in Seq(Ids)
  BY PregnancySays DEF Pregnancy
<1>2. /\ t \in Creature /\ EnergyOf(t) <= EnergyOf(c)
      /\ t.organs # <<>> /\ t.organs[1].pregnant = p
      /\ t.specie = c.specie /\ t.position = c.position /\ t.intent = c.intent /\ t.life = c.life
      /\ t.energy.max = c.energy.max /\ t.reserved.max = c.reserved.max
  BY <1>1, TransferKeeps
<1>3. g.value \in Nat /\ g.max \in Nat /\ g.value <= g.max /\ g.max = limit
  BY <1>1, StoreSays DEF Sound
<1>4. /\ Pass(g) \in Store /\ Pass(g).max = g.max
      /\ Pass(g).value \in g.value..g.max
  BY <1>1, PassSays, SMTT(20)
<1>5. q \in Pregnancies /\ q.gestation = Pass(g) /\ q.embryos = p[1].embryos
  BY <1>1, <1>4 DEF Pregnancies
<1>6. ps \in Seq(Pregnancies) /\ ps # <<>> /\ ps[1] = q
  <2> HIDE DEF p, q
  <2> QED BY <1>1, <1>5
<1>7. t.organs \in Seq(Uterus) /\ 1 \in DOMAIN t.organs /\ t.organs[1] \in Uterus
  BY <1>2, UterusSays
<1>8. Gestate(c) = d
  <2> HIDE DEF t
  <2>1. Gestate(c) = [t EXCEPT !.organs[1].pregnant[1].gestation = Pass(@)]
    BY DEF Gestate, t
  <2>2. q = [t.organs[1].pregnant[1] EXCEPT !.gestation = Pass(t.organs[1].pregnant[1].gestation)]
    BY <1>1, <1>2
  <2> QED BY <1>1, <1>2, <2>1, <2>2
<1> HIDE DEF t, p, g, q, ps, d, limit
<1>9. /\ d \in Creature
      /\ d.organs # <<>> /\ d.organs[1].pregnant = ps
      /\ d.specie = t.specie /\ d.position = t.position /\ d.intent = t.intent
      /\ d.energy = t.energy /\ d.reserved = t.reserved /\ d.life = t.life
      /\ EnergyOf(d) = EnergyOf(t)
  BY <1>2, <1>6, PregnantSays, ZenonT(40) DEF d
<1>10. IsPregnant(d) /\ Pregnancy(d) = q
  BY <1>6, <1>9 DEF IsPregnant, Pregnancy
<1>11. Pregnancy(d).gestation.max = limit
  BY <1>3, <1>4, <1>5, <1>10
<1>12. Sound(d)
  BY <1>2, <1>9, <1>11, SoundKept DEF limit, Genes
<1>13. Pregnancy(d).embryos = Pregnancy(c).embryos
  BY <1>5, <1>10 DEF p, Pregnancy
<1>14. Pregnancy(d).gestation.value \in g.value..limit
  BY <1>3, <1>4, <1>5, <1>10
<1> QED BY <1>2, <1>8, <1>9, <1>10, <1>12, <1>13, <1>14 DEF g, limit

\* What happens to a pregnancy in a step: it stays, with its embryos, and its
\* gestation goes on to the limit of the species.
Carried(c, d) ==
    IsPregnant(c) =>
        /\ IsPregnant(d) /\ Pregnancy(d).embryos = Pregnancy(c).embryos
        /\ Pregnancy(d).gestation.value
             \in Pregnancy(c).gestation.value..Genes(c).reproductive.gestation_limit

\* What has the organs it had carries what it carried.
LEMMA CarriedByTheSameOrgans ==
    ASSUME NEW c \in Creature, Sound(c), NEW d, d.organs = c.organs
    PROVE  Carried(c, d)
<1> SUFFICES ASSUME IsPregnant(c)
             PROVE  /\ IsPregnant(d) /\ Pregnancy(d).embryos = Pregnancy(c).embryos
                    /\ Pregnancy(d).gestation.value
                         \in Pregnancy(c).gestation.value..Genes(c).reproductive.gestation_limit
  BY DEF Carried
<1>1. IsPregnant(d) /\ Pregnancy(d) = Pregnancy(c)
  BY DEF IsPregnant, Pregnancy
<1>2. Pregnancy(c).gestation \in Store /\ Pregnancy(c).gestation.max = Genes(c).reproductive.gestation_limit
  BY PregnancySays DEF Sound
<1>3. Pregnancy(c).gestation.value \in Pregnancy(c).gestation.value..Genes(c).reproductive.gestation_limit
  BY <1>2, StoreSays
<1> QED BY <1>1, <1>3

\* Growth and, of a pregnant creature, gestation.
LEMMA LivedSays ==
    ASSUME NEW c \in Creature, Sound(c)
    PROVE  LET d == Lived(c) IN
           /\ d \in Creature /\ Sound(d) /\ EnergyOf(d) <= EnergyOf(c)
           /\ d.specie = c.specie /\ d.position = c.position /\ d.intent = c.intent
           /\ Carried(c, d)
<1> DEFINE g == Grow(c)
<1>1. /\ g \in Creature /\ Sound(g) /\ EnergyOf(g) <= EnergyOf(c)
      /\ g.organs = c.organs /\ g.specie = c.specie
      /\ g.position = c.position /\ g.intent = c.intent
  BY GrowSays
<1>2. IsPregnant(g) <=> IsPregnant(c)
  BY <1>1 DEF IsPregnant
<1>3. CASE ~IsPregnant(g)
  <2>1. Lived(c) = g
    BY <1>3 DEF Lived
  <2> HIDE DEF g
  <2> QED BY <1>1, <1>2, <1>3, <2>1 DEF Carried
<1>4. CASE IsPregnant(g)
  <2>1. Lived(c) = Gestate(g)
    BY <1>4 DEF Lived
  <2> HIDE DEF g
  <2>2. /\ Gestate(g) \in Creature /\ Sound(Gestate(g)) /\ EnergyOf(Gestate(g)) <= EnergyOf(g)
        /\ IsPregnant(Gestate(g)) /\ Pregnancy(Gestate(g)).embryos = Pregnancy(g).embryos
        /\ Pregnancy(Gestate(g)).gestation.value
             \in Pregnancy(g).gestation.value..Genes(g).reproductive.gestation_limit
        /\ Gestate(g).specie = g.specie /\ Gestate(g).position = g.position /\ Gestate(g).intent = g.intent
    BY <1>1, <1>4, GestateSays
  <2>3. Pregnancy(g) = Pregnancy(c) /\ Genes(g) = Genes(c)
    BY <1>1 DEF Pregnancy, Genes
  <2>4. EnergyOf(Gestate(g)) <= EnergyOf(c)
    <3>1. EnergyOf(Gestate(g)) \in Nat /\ EnergyOf(g) \in Nat /\ EnergyOf(c) \in Nat
      BY <1>1, <2>2, EnergyOfSays
    <3> QED BY <1>1, <2>2, <3>1
  <2>5. Carried(c, Gestate(g))
    BY <2>2, <2>3 DEF Carried
  <2> QED BY <1>1, <2>1, <2>2, <2>4, <2>5
<1> QED BY <1>3, <1>4

\* A thought changes the intent only, and no intent outlives its time.
LEMMA ThinkSays ==
    ASSUME NEW c \in Creature, Sound(c), NEW hungry
    PROVE  LET d == Think(c, hungry) IN
           /\ d \in Creature /\ Sound(d) /\ EnergyOf(d) = EnergyOf(c)
           /\ d.specie = c.specie /\ d.position = c.position /\ d.organs = c.organs
<1> DEFINE old == IF ShouldStop(c.intent) THEN [type |-> Take(c, hungry), time |-> 0] ELSE c.intent
           intent == [old EXCEPT !.time = @ + 1]
           d == Think(c, hungry)
<1>1. /\ c.intent \in [type : {"NOTHING", "FIND_FOOD"}, time : Nat]
      /\ c.intent.type \in {"NOTHING", "FIND_FOOD"} /\ c.intent.time \in Nat
  BY CreatureSays
<1>2. \/ c.intent.type = "NOTHING" /\ c.intent.time \in 0..2
      \/ c.intent.type = "FIND_FOOD" /\ c.intent.time \in 1..8
  BY DEF Sound, CreatureOK
<1>3. Take(c, hungry) \in {"NOTHING", "FIND_FOOD"}
  BY DEF Take
<1>4. /\ intent \in [type : {"NOTHING", "FIND_FOOD"}, time : Nat]
      /\ \/ intent.type = "NOTHING" /\ intent.time \in 0..2
         \/ intent.type = "FIND_FOOD" /\ intent.time \in 1..8
  <2>1. CASE ShouldStop(c.intent)
    BY <1>3, <2>1
  <2>2. CASE ~ShouldStop(c.intent)
    <3>1. /\ c.intent.type = "NOTHING" => c.intent.time <= 1
          /\ c.intent.type = "FIND_FOOD" => c.intent.time <= 7
      BY <1>1, <2>2 DEF ShouldStop
    <3> QED BY <1>1, <1>2, <2>2, <3>1
  <2> QED BY <2>1, <2>2
<1>5. d = [c EXCEPT !.intent = intent]
  BY DEF Think
<1> HIDE DEF old, intent, d
<1>6. /\ d \in Creature /\ d.intent = intent
      /\ d.specie = c.specie /\ d.position = c.position /\ d.organs = c.organs
      /\ d.energy = c.energy /\ d.reserved = c.reserved /\ d.life = c.life
  BY <1>4, <1>5 DEF Creature
<1>7. Sound(d)
  BY <1>4, <1>6 DEF Sound, CreatureOK, Genes, IsPregnant, Pregnancy
<1>8. EnergyOf(d) = EnergyOf(c)
  BY <1>6 DEF EnergyOf
<1> QED BY <1>6, <1>7, <1>8 DEF d

\* A move within the territory.
LEMMA MovedSays ==
    ASSUME NEW c \in Creature, Sound(c), NEW place \in -Half..Half
    PROVE  LET d == [c EXCEPT !.position = place] IN
           /\ d \in Creature /\ Sound(d) /\ EnergyOf(d) = EnergyOf(c) /\ d.organs = c.organs
<1> DEFINE d == [c EXCEPT !.position = place]
<1>1. place \in Int
  BY OrganismAssumption
<1>2. /\ d \in Creature /\ d.position = place
      /\ d.specie = c.specie /\ d.intent = c.intent /\ d.organs = c.organs
      /\ d.energy = c.energy /\ d.reserved = c.reserved /\ d.life = c.life
  BY <1>1 DEF Creature
<1> HIDE DEF d
<1>3. Sound(d)
  BY <1>2 DEF Sound, CreatureOK, Genes, IsPregnant, Pregnancy
<1>4. EnergyOf(d) = EnergyOf(c)
  BY <1>2 DEF EnergyOf
<1> QED BY <1>2, <1>3, <1>4 DEF d

\* A meal changes the two stores, within their limits.
LEMMA FedSays ==
    ASSUME NEW c \in Creature, Sound(c), NEW meat \in Nat
    PROVE  /\ Fed(c, meat) \in Creature /\ Sound(Fed(c, meat)) /\ Fed(c, meat).organs = c.organs
           /\ Left(c, meat) \in Nat
           /\ EnergyOf(Fed(c, meat)) + Left(c, meat) = EnergyOf(c) + meat
<1> DEFINE d == Fed(c, meat)
           energy == Gain(c.energy, EatenEnergy(c, meat))
           reserved == Gain(c.reserved, EatenReserved(c, meat))
<1>1. d \in Creature /\ Left(c, meat) \in Nat /\ EnergyOf(d) + Left(c, meat) = EnergyOf(c) + meat
  BY MealConserves
<1>2. c.energy \in Store /\ c.reserved \in Store
  BY CreatureSays
<1>3. energy.max = c.energy.max /\ reserved.max = c.reserved.max
  BY <1>2 DEF Gain, Store
<1>4. d = [c EXCEPT !.energy = energy, !.reserved = reserved]
  BY DEF Fed
<1> HIDE DEF d, energy, reserved
<1>5. /\ d.energy = energy /\ d.reserved = reserved /\ d.life = c.life
      /\ d.specie = c.specie /\ d.position = c.position /\ d.intent = c.intent /\ d.organs = c.organs
  BY <1>4 DEF Creature
<1>6. IsPregnant(d) => Pregnancy(d).gestation.max = Genes(d).reproductive.gestation_limit
  BY <1>5 DEF Sound, IsPregnant, Pregnancy, Genes
<1>7. Sound(d)
  BY <1>1, <1>3, <1>5, <1>6, SoundKept
<1> QED BY <1>1, <1>5, <1>7 DEF d

\* A meal leaves no more of a corpse than there was.
LEMMA LeftSays ==
    ASSUME NEW c \in Creature, NEW meat \in Nat
    PROVE  Left(c, meat) \in 0..meat
<1> DEFINE e == EatenEnergy(c, meat)
           r == EatenReserved(c, meat)
<1>1. Left(c, meat) \in Nat
  BY MealConserves
<1>2. Part(50, meat) \in Nat
  BY PartSays
<1>3. e \in Nat /\ r \in Nat
  BY <1>2, CreatureSays, RemainingSays, LeastSays DEF EatenEnergy, EatenReserved
<1>4. Left(c, meat) = meat - (e + r)
  BY DEF Left
<1> HIDE DEF e, r
<1> QED BY <1>1, <1>3, <1>4

\* An attack is a quantity of life.
LEMMA StrengthSays == ASSUME NEW c \in Creature PROVE Strength(c) \in Nat
<1>1. Ratio(c.life) \in Nat
  BY CreatureSays, StoreSays, RatiosAreNat
<1>2. c.specie \in Species
  BY CreatureSays
<1> DEFINE damage == CASE c.specie \in {"HIPPOPOTAMUS", "CROCODILE"} -> 3500
                       [] c.specie = "CRAB" -> 1500
                       [] c.specie = "FISH" -> 300
           ratio == Ratio(c.life)
<1>3. damage \in Nat
  BY <1>2 DEF Species
<1>4. Strength(c) = Part(ratio, damage)
  BY DEF Strength
<1> HIDE DEF damage, ratio
<1> QED BY <1>1, <1>3, <1>4, PartOf DEF ratio

\* The one attacked loses life only.
LEMMA AttackedSays ==
    ASSUME NEW c \in Creature, Sound(c), NEW q \in Nat
    PROVE  LET d == [c EXCEPT !.life = Lose(@, q)] IN
           /\ d \in Creature /\ Sound(d) /\ EnergyOf(d) = EnergyOf(c) /\ d.organs = c.organs
<1> DEFINE d == [c EXCEPT !.life = Lose(@, q)]
<1>1. Lose(c.life, q) \in Store /\ Lose(c.life, q).max = c.life.max
  BY CreatureSays, LoseSays
<1>2. /\ d \in Creature /\ d.life = Lose(c.life, q) /\ d.position = c.position
      /\ d.specie = c.specie /\ d.intent = c.intent /\ d.organs = c.organs
      /\ d.energy = c.energy /\ d.reserved = c.reserved
  BY <1>1 DEF Creature
<1> HIDE DEF d
<1>3. IsPregnant(d) => Pregnancy(d).gestation.max = Genes(d).reproductive.gestation_limit
  BY <1>2 DEF Sound, IsPregnant, Pregnancy, Genes
<1>4. Sound(d)
  BY <1>1, <1>2, <1>3, SoundKept
<1>5. EnergyOf(d) = EnergyOf(c)
  BY <1>2 DEF EnergyOf
<1> QED BY <1>2, <1>4, <1>5 DEF d

\* A conception moves energy to the uterus and begins a pregnancy.
LEMMA ConceivedSays ==
    ASSUME NEW c \in Creature, Sound(c), c.organs # <<>>,
           NEW count \in Nat, NEW drawn \in Nat, NEW id \in Ids
    PROVE  LET d == Conceived(c, count, drawn, id) IN
           d \in Creature /\ Sound(d) /\ EnergyOf(d) <= EnergyOf(c)
<1> DEFINE t == Transfer(c, 30, 50)
           limit == Genes(c).reproductive.gestation_limit
           none == [embryos |-> <<>>, gestation |-> Counter(0, limit), born |-> BornCount(count)]
           one == [embryos |-> <<id>>, gestation |-> Counter(0, limit), born |-> BornCount(count)]
           p == IF drawn = 0 THEN <<none>> ELSE <<one>>
           d == [t EXCEPT !.organs[1].pregnant = p]
<1>1. /\ t \in Creature /\ EnergyOf(t) <= EnergyOf(c)
      /\ t.organs # <<>>
      /\ t.specie = c.specie /\ t.position = c.position /\ t.intent = c.intent /\ t.life = c.life
      /\ t.energy.max = c.energy.max /\ t.reserved.max = c.reserved.max
  BY TransferKeeps
<1>2. limit \in Nat
  BY CreatureSays, GenomesBounded DEF Bounded, Genes
<1>3. none \in Pregnancies /\ one \in Pregnancies
      /\ none.gestation.max = limit /\ one.gestation.max = limit
  <2> HIDE DEF limit
  <2>1. Counter(0, limit) \in Store /\ Counter(0, limit).max = limit
    BY <1>2 DEF Counter, Clamped, Store
  <2>2. BornCount(count) \in [value : Nat, max : Nat]
    BY DEF BornCount
  <2> QED BY <2>1, <2>2 DEF Pregnancies
<1>4. p \in Seq(Pregnancies) /\ p # <<>> /\ p[1].gestation.max = limit
  <2> HIDE DEF none, one, limit
  <2> QED BY <1>3
<1>5. t.organs \in Seq(Uterus) /\ 1 \in DOMAIN t.organs /\ t.organs[1] \in Uterus
  BY <1>1, UterusSays
<1>6. Conceived(c, count, drawn, id) = d
  <2>1. Prepared(c, count) = [t EXCEPT !.organs[1].pregnant = <<none>>]
    BY DEF Prepared
  <2>2. one = [none EXCEPT !.embryos = <<id>>]
    OBVIOUS
  <2> HIDE DEF t, none, one
  <2>3. CASE drawn = 0
    BY <2>1, <2>3 DEF Conceived
  <2>4. CASE drawn # 0
    <3> DEFINE w == [t EXCEPT !.organs[1].pregnant = <<none>>]
    <3>1. Conceived(c, count, drawn, id) = [w EXCEPT !.organs[1].pregnant[1].embryos = <<id>>]
      BY <2>1, <2>4 DEF Conceived
    <3>2. DOMAIN t = DOMAIN w /\ "organs" \in DOMAIN t
      BY <1>1 DEF Creature
    <3>3. w.organs = [t.organs EXCEPT ![1] = [t.organs[1] EXCEPT !.pregnant = <<none>>]]
      BY <3>2
    <3>4. w.organs[1] = [t.organs[1] EXCEPT !.pregnant = <<none>>]
      BY <1>5, <3>3
    <3>5. w.organs[1].pregnant = <<none>>
      BY <1>5, <3>4 DEF Uterus
    <3>6. [w.organs[1].pregnant EXCEPT ![1].embryos = <<id>>] = <<one>>
      BY <2>2, <3>5
    <3>7. [w EXCEPT !.organs[1].pregnant[1].embryos = <<id>>]
            = [w EXCEPT !.organs = [w.organs EXCEPT ![1] = [w.organs[1] EXCEPT !.pregnant = <<one>>]]]
      BY <1>5, <3>3, <3>4, <3>5, <3>6
    <3>8. [w.organs[1] EXCEPT !.pregnant = <<one>>] = [t.organs[1] EXCEPT !.pregnant = <<one>>]
      BY <1>5, <3>4 DEF Uterus
    <3>9. [w.organs EXCEPT ![1] = [w.organs[1] EXCEPT !.pregnant = <<one>>]]
            = [t.organs EXCEPT ![1] = [t.organs[1] EXCEPT !.pregnant = <<one>>]]
      BY <1>5, <3>3, <3>8
    <3>10. [w EXCEPT !.organs = [t.organs EXCEPT ![1] = [t.organs[1] EXCEPT !.pregnant = <<one>>]]]
             = [t EXCEPT !.organs = [t.organs EXCEPT ![1] = [t.organs[1] EXCEPT !.pregnant = <<one>>]]]
      BY <3>2
    <3> QED BY <2>4, <3>1, <3>7, <3>9, <3>10
  <2> QED BY <2>3, <2>4
<1> HIDE DEF t, none, one, limit, p, d
<1>7. /\ d \in Creature
      /\ d.organs # <<>> /\ d.organs[1].pregnant = p
      /\ d.specie = t.specie /\ d.position = t.position /\ d.intent = t.intent
      /\ d.energy = t.energy /\ d.reserved = t.reserved /\ d.life = t.life
      /\ EnergyOf(d) = EnergyOf(t)
  BY <1>1, <1>4, PregnantSays, ZenonT(40) DEF d
<1>8. Pregnancy(d).gestation.max = limit
  BY <1>4, <1>7 DEF Pregnancy
<1>9. Sound(d)
  BY <1>1, <1>7, <1>8, SoundKept DEF limit, Genes
<1> QED BY <1>1, <1>6, <1>7, <1>9

-----------------------------------------------------------------------------
(* Births.                                                                 *)

\* A new creature of either gender is sound: it has part of its limits, and
\* these are part of those of its species.
LEMMA BirthSays ==
    ASSUME NEW s \in Kinds, NEW position \in -Half..Half, NEW gender,
           NEW energy \in Store, NEW life \in Store,
           NEW size \in [width : Nat, height : Nat],
           energy.max <= GenomeOf(s).creature.metabolism.max_energy,
           life.max <= GenomeOf(s).creature.vital.max_life
    PROVE  LET c == [specie |-> s, position |-> position, energy |-> energy,
                     reserved |-> Limited(Part(50, energy.value),
                                    Part(NEONATE_FRACTION, GenomeOf(s).creature.metabolism.max_reserved_energy)),
                     life |-> life, size |-> size, organs |-> Organs(gender, energy),
                     intent |-> [type |-> "NOTHING", time |-> 0]]
           IN  c \in Creature /\ Sound(c) /\ ~IsPregnant(c)
<1> DEFINE mr == GenomeOf(s).creature.metabolism.max_reserved_energy
           reserved == Limited(Part(50, energy.value), Part(NEONATE_FRACTION, mr))
           organs == Organs(gender, energy)
           intent == [type |-> "NOTHING", time |-> 0]
           c == [specie |-> s, position |-> position, energy |-> energy, reserved |-> reserved,
                 life |-> life, size |-> size, organs |-> organs, intent |-> intent]
<1>1. s \in Species /\ mr \in Nat /\ position \in Int
  BY KindsAreSpecies, GenomesBounded, OrganismAssumption DEF Bounded
<1>2. reserved \in Store /\ reserved.max <= mr
  <2>1. Part(50, energy.value) \in Nat
    BY StoreSays, PartOf
  <2> HIDE DEF mr
  <2>2. Part(NEONATE_FRACTION, mr) \in Nat /\ Part(NEONATE_FRACTION, mr) <= mr
    <3>1. NEONATE_FRACTION \in Nat /\ NEONATE_FRACTION <= One
      BY DEF NEONATE_FRACTION, One
    <3> QED BY <1>1, <3>1, PartOf
  <2> QED BY <2>1, <2>2, LimitedSays
<1>3. organs \in Seq(Uterus) /\ (organs # <<>> => organs[1] = [energy |-> energy, pregnant |-> <<>>])
  <2>1. [energy |-> energy, pregnant |-> <<>>] \in Uterus
    BY DEF Uterus
  <2> DEFINE u == [energy |-> energy, pregnant |-> <<>>]
  <2>2. organs = <<u>> \/ organs = <<>>
    BY DEF Organs, EmptyUterus
  <2> HIDE DEF organs, u
  <2>3. u \in Uterus
    BY <2>1 DEF u
  <2>4. organs \in Seq(Uterus) /\ (organs # <<>> => organs[1] = u)
    <3>1. CASE organs = <<>>
      BY <3>1
    <3>2. CASE organs = <<u>>
      <4>1. <<u>> \in Seq(Uterus) /\ <<u>>[1] = u
        BY <2>3
      <4> QED BY <3>2, <4>1
    <3> QED BY <2>2, <3>1, <3>2
  <2> QED BY <2>4 DEF u
<1>4. intent \in [type : {"NOTHING", "FIND_FOOD"}, time : Nat]
  OBVIOUS
<1>5. c.specie = s /\ c.position = position /\ c.energy = energy /\ c.reserved = reserved
      /\ c.life = life /\ c.organs = organs /\ c.intent = intent
  OBVIOUS
<1>6. intent.type = "NOTHING" /\ intent.time = 0
  OBVIOUS
<1> HIDE DEF reserved, organs, intent
<1>7. c \in Creature
  BY <1>1, <1>2, <1>3, <1>4 DEF Creature
<1> HIDE DEF c
<1>8. ~IsPregnant(c)
  BY <1>3, <1>5 DEF IsPregnant
<1>9. IsLimited(energy) /\ IsLimited(reserved) /\ IsLimited(life)
  BY <1>2, StoreSays
<1>10. c.organs # <<>> => IsLimited(c.organs[1].energy)
  BY <1>7, UterusSays, StoreSays
<1>11. Sound(c)
  BY <1>2, <1>5, <1>6, <1>8, <1>9, <1>10 DEF Sound, CreatureOK, Genes, Kinds
<1> QED BY <1>7, <1>8, <1>11 DEF c, reserved, organs, intent

\* A creature made from a blueprint is within its limits, and not pregnant.
LEMMA FromBlueprintSays ==
    ASSUME NEW b \in Blueprints
    PROVE  FromBlueprint(b) \in Creature /\ Sound(FromBlueprint(b))
<1> DEFINE g == GenomeOf(b.specie)
           energy == Limited(Part(NEONATE_FRACTION, EmbryoMaxEnergy(g)), EmbryoMaxEnergy(g))
           life == Limited(Part(NEONATE_FRACTION, EmbryoLife(g)), EmbryoLife(g))
           size == [width |-> Part(NEONATE_FRACTION, g.creature.morphology.width),
                    height |-> Part(NEONATE_FRACTION, g.creature.morphology.height)]
<1>1. b.specie \in Kinds /\ b.specie \in Species /\ b.position \in -Half..Half
  BY OrganismAssumption DEF Kinds
<1>2. Bounded(g)
  BY <1>1, GenomesBounded
<1>3. NEONATE_FRACTION \in Nat
  BY DEF NEONATE_FRACTION
<1> HIDE DEF g
<1>4. energy \in Store /\ energy.max = EmbryoMaxEnergy(g)
  BY <1>2, <1>3, PartOf, LimitedSays DEF Bounded
<1>5. life \in Store /\ life.max = EmbryoLife(g)
  BY <1>2, <1>3, PartOf, LimitedSays DEF Bounded
<1>6. size \in [width : Nat, height : Nat]
  BY <1>2, <1>3, PartOf DEF Bounded
<1>7. FromBlueprint(b) =
        [specie |-> b.specie, position |-> b.position, energy |-> energy,
         reserved |-> Limited(Part(50, energy.value), Part(NEONATE_FRACTION, g.creature.metabolism.max_reserved_energy)),
         life |-> life, size |-> size, organs |-> Organs(b.gender, energy),
         intent |-> [type |-> "NOTHING", time |-> 0]]
  BY DEF FromBlueprint, g
<1>8. energy.max <= g.creature.metabolism.max_energy /\ life.max <= g.creature.vital.max_life
  BY <1>2, <1>4, <1>5 DEF Bounded
<1> HIDE DEF energy, life, size
<1> QED BY <1>1, <1>4, <1>5, <1>6, <1>7, <1>8, BirthSays DEF g

-----------------------------------------------------------------------------
(* Embryos.                                                                *)

\* The root of a square no larger than n, rounded down.
IsRoot(w, n) == w \in 0..n /\ w * w <= n /\ (w + 1) * (w + 1) > n

\* Every quantity has a whole square root.
LEMMA SquareRootSays ==
    ASSUME NEW n \in Nat
    PROVE  IsRoot(SquareRoot(n), n)
<1> DEFINE T == {w \in Nat : (w + 1) * (w + 1) > n}
<1>1. n \in T
  <2>1. n * n \in Nat
    OBVIOUS
  <2>2. (n + 1) * (n + 1) = n * n + n + n + 1
    OBVIOUS
  <2>3. (n + 1) * (n + 1) > n
    BY <2>1, <2>2
  <2> QED BY <2>3
<1>2. PICK w \in T : \A v \in T : ~ (<<v, w>> \in OpToRel(<, Nat))
  <2>1. T \subseteq Nat /\ T # {}
    BY <1>1
  <2> HIDE DEF T
  <2> QED BY <2>1, NatLessThanWellFounded, WFMin
<1>3. w \in Nat /\ (w + 1) * (w + 1) > n /\ \A v \in T : ~ (v < w)
  <2>1. w \in Nat /\ (w + 1) * (w + 1) > n
    OBVIOUS
  <2>2. T \subseteq Nat
    OBVIOUS
  <2> HIDE DEF T
  <2> QED BY <1>2, <2>1, <2>2 DEF OpToRel
<1>4. w <= n
  BY <1>1, <1>3
<1>5. w * w <= n
  <2>1. CASE w = 0
    BY <2>1
  <2>2. CASE w # 0
    <3>1. w - 1 \in Nat /\ w - 1 < w /\ (w - 1) + 1 = w
      BY <1>3, <2>2
    <3>2. w - 1 \notin T
      BY <1>3, <3>1
    <3>3. ~ (((w - 1) + 1) * ((w - 1) + 1) > n)
      BY <3>1, <3>2
    <3>4. ~ (w * w > n)
      BY <3>1, <3>3
    <3>5. w * w \in Nat
      BY <1>3
    <3> QED BY <3>4, <3>5
  <2> QED BY <2>1, <2>2
<1>6. \E v \in 0..n : v * v <= n /\ (v + 1) * (v + 1) > n
  BY <1>3, <1>4, <1>5
<1> QED BY <1>6 DEF SquareRoot, IsRoot

\* The size of an embryo is one, and no wider than a metre and 31 hundredths.
LEMMA SizeOfEmbryoSays ==
    ASSUME NEW e, e.area \in 1..108
    PROVE  /\ SizeOfEmbryo(e) \in [width : Nat, height : Nat]
           /\ SizeOfEmbryo(e).width \in 1..131
<1> DEFINE n == Part(160, e.area * One)
           w == SquareRoot(n)
           s == w * w
           P(a) == (160 * (a * 100)) \div 100 \in Nat /\ (160 * (a * 100)) \div 100 >= 160
                   /\ (160 * (a * 100)) \div 100 <= 17280
<1>1. n \in Nat /\ n >= 160 /\ n <= 17280
  <2>1. \A a \in 1..108 : P(a)
    BY SMT
  <2> HIDE DEF P
  <2>2. P(e.area)
    BY <2>1
  <2> QED BY <2>2 DEF P, Part, One
<1> HIDE DEF n
<1>2. w \in Nat /\ w * w <= n /\ (w + 1) * (w + 1) > n
  <2>1. n \in Nat
    BY <1>1
  <2>2. IsRoot(w, n)
    BY <2>1, SquareRootSays
  <2> HIDE DEF w
  <2> QED BY <2>1, <2>2 DEF IsRoot
<1> HIDE DEF w
<1>3. w # 0
  <2>1. ~ ((0 + 1) * (0 + 1) > n)
    BY <1>1
  <2> QED BY <1>2, <2>1
<1>4. w <= 131
  <2>1. s \in Nat /\ (w >= 132 => s >= 132 * w)
    BY <1>2
  <2>2. w >= 132 => 132 * w \in Nat /\ 132 * w >= 17424
    BY <1>2
  <2>3. s <= n
    BY <1>2
  <2> HIDE DEF s
  <2>4. w >= 132 => s >= 17424
    BY <2>1, <2>2
  <2>5. s <= 17280
    BY <1>1, <2>1, <2>3
  <2> QED BY <1>2, <2>1, <2>4, <2>5
<1>5. w \in 1..131
  BY <1>2, <1>3, <1>4
<1>6. (e.area * One) \div w \in Nat
  <2>1. e.area * One \in Nat
    BY DEF One
  <2> QED BY <1>5, <2>1
<1>7. SizeOfEmbryo(e) = [width |-> w, height |-> (e.area * One) \div w]
  BY DEF SizeOfEmbryo, w, n
<1> QED BY <1>5, <1>6, <1>7

\* The parts of an embryo.
LEMMA EmbryoSays ==
    ASSUME NEW e \in Embryo
    PROVE  /\ e.specie \in Species /\ e.energy \in Store /\ e.life \in Store
           /\ e.health \in 0..One /\ e.area \in Nat /\ e.age \in Nat /\ e.position \in Int
           /\ e.energy.value \in Nat /\ e.energy.max \in Nat
           /\ e.life.value \in Nat /\ e.life.max \in Nat
           /\ IsLimited(e.energy) /\ IsLimited(e.life)
<1>1. /\ e.specie \in Species /\ e.energy \in Store /\ e.life \in Store
      /\ e.health \in 0..One /\ e.area \in Nat /\ e.age \in Nat /\ e.position \in Int
  BY DEF Embryo
<1> QED BY <1>1, StoreSays

\* No embryo is larger than the first increment makes it.
LEMMA AreasSay == ASSUME NEW s \in Species PROVE Areas[s] \subseteq 1..108
  BY DEF Areas, Species

\* What hatches of a viable embryo is sound: its limits grew within its budget.
LEMMA HatchSays ==
    ASSUME NEW e \in Embryo, Viable(e)
    PROVE  HatchEmbryo(e) \in Creature /\ Sound(HatchEmbryo(e))
<1> DEFINE g == GenomeOf(e.specie)
           size == SizeOfEmbryo(e)
<1>1. e.specie \in Kinds /\ e.position \in -Half..Half /\ e.energy \in Store /\ e.life \in Store
  <2>1. 0 \in -Half..Half
    BY OrganismAssumption
  <2> QED BY <2>1, EmbryoSays DEF Viable
<1>2. size \in [width : Nat, height : Nat]
  BY EmbryoSays, AreasSay, SizeOfEmbryoSays DEF Viable
<1>3. Bounded(g)
  BY EmbryoSays, GenomesBounded
<1>4. e.energy.max <= g.creature.metabolism.max_energy /\ e.life.max <= g.creature.vital.max_life
  <2> DEFINE v == e.energy.value
             m == e.energy.max
             l == e.life.max
             fm == FirstMax(g)
             fl == FirstLife(g)
             half == FirstMax(g) \div 2
             me == g.creature.metabolism.max_energy
             ml == g.creature.vital.max_life
  <2>1. v \in Nat /\ m \in Nat /\ l \in Nat
    BY EmbryoSays
  <2>2. fm \in Nat /\ fl \in Nat /\ me \in Nat /\ ml \in Nat
        /\ fm + half + 60 <= me /\ fl + half + 60 <= ml
    BY <1>3 DEF Bounded
  <2>3. half \in Nat
    BY <2>2
  <2>4. fm <= m /\ fl <= l
    BY DEF Viable
  <2>5. v + m + l <= fm + half + fl + (IF IsZero(e.energy) THEN 60 ELSE 0)
    BY DEF Viable, Budget, Worth
  <2> HIDE DEF v, m, l, fm, fl, half, me, ml
  <2>6. v + m + l <= fm + half + fl + 60
    BY <2>1, <2>2, <2>3, <2>5
  <2>7. m <= me /\ l <= ml
    BY <2>1, <2>2, <2>3, <2>4, <2>6
  <2> QED BY <2>7 DEF m, l, me, ml
<1>5. HatchEmbryo(e) =
        [specie |-> e.specie, position |-> e.position, energy |-> e.energy,
         reserved |-> Limited(Part(50, e.energy.value), Part(NEONATE_FRACTION, g.creature.metabolism.max_reserved_energy)),
         life |-> e.life, size |-> size, organs |-> Organs(RandomGender, e.energy),
         intent |-> [type |-> "NOTHING", time |-> 0]]
  BY DEF HatchEmbryo, Genes
<1> HIDE DEF size
<1> QED BY <1>1, <1>2, <1>4, <1>5, BirthSays DEF g

\* What a trade of EmbryoMotor leaves of an embryo: it keeps its place and its
\* kind, its limits do not fall, and what it is worth rises only, by `free' at
\* most, when it spends the last of its energy.
Traded(e, d, free) ==
    /\ d \in Embryo
    /\ d.specie = e.specie /\ d.position = e.position /\ d.age = e.age
    /\ d.energy.value <= e.energy.value
    /\ e.energy.max <= d.energy.max /\ e.life.max <= d.life.max
    /\ Worth(d) <= Worth(e) + free
    /\ d.energy.value > 0 => Worth(d) <= Worth(e)

\* What a loss of energy leaves.
LEMMA SpentSays ==
    ASSUME NEW e \in Embryo, NEW cost \in Nat
    PROVE  /\ Lose(e.energy, cost) \in Store /\ Lose(e.energy, cost).max = e.energy.max
           /\ Lose(e.energy, cost).value \in Nat /\ Lose(e.energy, cost).value <= e.energy.value
           /\ Lose(e.energy, cost).value > 0 => Lose(e.energy, cost).value = e.energy.value - cost
  BY EmbryoSays, StoreSays DEF Lose, Clamped, Store

\* What a trade costs is a ratio.
LEMMA IncrementSays == ASSUME NEW r \in Int PROVE Increment(r) \in 0..One
<1> DEFINE distance == 2 * (r - 50)
           x == distance * distance
           p == x \div 100
<1>1. distance \in Int
  OBVIOUS
<1>2. x \in Int
  BY <1>1
<1> HIDE DEF x
<1>3. p \in Int
  BY <1>2
<1>4. Increment(r) = Normalized(IF r < 50 THEN One + p ELSE One - p)
  BY DEF Increment, Part, One, x
<1> HIDE DEF p
<1>5. (IF r < 50 THEN One + p ELSE One - p) \in Int
  BY <1>3 DEF One
<1> QED BY <1>4, <1>5, NormalizedSays

\* An increment's arithmetic: the trade is worth no more than it costs.
LEMMA GrowAreaSays ==
    ASSUME NEW e \in Embryo, e.area \in Areas[e.specie]
    PROVE  /\ Traded(e, GrowArea(e), 0)
           /\ GrowArea(e).area \in Areas[e.specie]
           /\ GrowArea(e).life = e.life /\ GrowArea(e).health = e.health
<1> DEFINE g == GenomeOf(e.specie)
           cost == Increment(Normalized(Part(Area(g.creature.morphology), (e.area * One) \div g.embryo.area)))
           energy == Lose(e.energy, cost)
           d == GrowArea(e)
<1>1. e.specie \in Species
  BY EmbryoSays
<1>2. cost \in Nat /\ e.area + cost \in Areas[e.specie] /\ e.area + cost \in Nat
  <2>1. CASE e.specie = "CRAB"
    <3>1. e.area \in {3, 103}
      BY <2>1 DEF Areas
    <3>2. Area(Crab.creature.morphology) = 77 /\ Crab.embryo.area = 25
      BY SMT DEF Crab, Area, Part, One
    <3>3. e.area = 3 => cost = 100
      <4>1. Increment(Normalized(Part(77, (3 * One) \div 25))) = 100
        BY SMT DEF Increment, Normalized, Clamped, Part, One
      <4> QED BY <2>1, <3>2, <4>1, DatabaseSays
    <3>4. e.area = 103 => cost = 0
      <4>1. Increment(Normalized(Part(77, (103 * One) \div 25))) = 0
        BY SMT DEF Increment, Normalized, Clamped, Part, One
      <4> QED BY <2>1, <3>2, <4>1, DatabaseSays
    <3> HIDE DEF cost
    <3> QED BY <2>1, <3>1, <3>3, <3>4 DEF Areas
  <2>2. CASE e.specie = "FISH"
    <3>1. e.area \in {2, 102}
      BY <2>2 DEF Areas
    <3>2. Area(Fish.creature.morphology) = 54 /\ Fish.embryo.area = 20
      BY SMT DEF Fish, Area, Part, One
    <3>3. e.area = 2 => cost = 100
      <4>1. Increment(Normalized(Part(54, (2 * One) \div 20))) = 100
        BY SMT DEF Increment, Normalized, Clamped, Part, One
      <4> QED BY <2>2, <3>2, <4>1, DatabaseSays
    <3>4. e.area = 102 => cost = 0
      <4>1. Increment(Normalized(Part(54, (102 * One) \div 20))) = 0
        BY SMT DEF Increment, Normalized, Clamped, Part, One
      <4> QED BY <2>2, <3>2, <4>1, DatabaseSays
    <3> HIDE DEF cost
    <3> QED BY <2>2, <3>1, <3>3, <3>4 DEF Areas
  <2>3. CASE e.specie = "CROCODILE"
    <3>1. e.area \in {10, 108}
      BY <2>3 DEF Areas
    <3>2. Area(Crocodile.creature.morphology) = 176 /\ Crocodile.embryo.area = 30
      BY SMT DEF Crocodile, Area, Part, One
    <3>3. e.area = 10 => cost = 98
      <4>1. Increment(Normalized(Part(176, (10 * One) \div 30))) = 98
        BY SMT DEF Increment, Normalized, Clamped, Part, One
      <4> QED BY <2>3, <3>2, <4>1, DatabaseSays
    <3>4. e.area = 108 => cost = 0
      <4>1. Increment(Normalized(Part(176, (108 * One) \div 30))) = 0
        BY SMT DEF Increment, Normalized, Clamped, Part, One
      <4> QED BY <2>3, <3>2, <4>1, DatabaseSays
    <3> HIDE DEF cost
    <3> QED BY <2>3, <3>1, <3>3, <3>4 DEF Areas
  <2>4. CASE e.specie = "HIPPOPOTAMUS"
    <3>1. e.area = 16
      BY <2>4 DEF Areas
    <3>2. Area(Hippopotamus.creature.morphology) = 234 /\ Hippopotamus.embryo.area = 35
      BY SMT DEF Hippopotamus, Area, Part, One
    <3>3. cost = 0
      <4>1. Increment(Normalized(Part(234, (16 * One) \div 35))) = 0
        BY SMT DEF Increment, Normalized, Clamped, Part, One
      <4> QED BY <2>4, <3>1, <3>2, <4>1, DatabaseSays
    <3> HIDE DEF cost
    <3> QED BY <2>4, <3>1, <3>3 DEF Areas
  <2> QED BY <1>1, <2>1, <2>2, <2>3, <2>4 DEF Species
<1>3. d = [e EXCEPT !.energy = energy, !.area = e.area + cost]
  BY DEF GrowArea, Trade, Embryo
<1> HIDE DEF cost
<1>4. /\ energy \in Store /\ energy.max = e.energy.max
      /\ energy.value \in Nat /\ energy.value <= e.energy.value
  BY <1>2, SpentSays
<1> HIDE DEF energy, d
<1>5. /\ d \in Embryo /\ d.energy = energy /\ d.area = e.area + cost
      /\ d.specie = e.specie /\ d.position = e.position /\ d.age = e.age
      /\ d.life = e.life /\ d.health = e.health
  BY <1>2, <1>3, <1>4 DEF Embryo
<1>6. Worth(d) <= Worth(e)
  BY <1>4, <1>5, EmbryoSays DEF Worth
<1>7. Worth(d) <= Worth(e) + 0 /\ e.energy.max <= d.energy.max /\ e.life.max <= d.life.max
  BY <1>4, <1>5, <1>6, EmbryoSays DEF Worth
<1> QED BY <1>2, <1>4, <1>5, <1>6, <1>7 DEF Traded, d

\* The life bought is paid for.
LEMMA GrowLifeSays ==
    ASSUME NEW e \in Embryo
    PROVE  Traded(e, GrowLife(e), 0) /\ GrowLife(e).area = e.area
<1> DEFINE cost == Increment(Ratio(e.life))
           energy == Lose(e.energy, cost)
           life == Gain(e.life, cost)
           d == GrowLife(e)
<1>1. cost \in Nat
  BY EmbryoSays, StoreSays, IncrementSays, RatiosAreNat
<1>2. d = [e EXCEPT !.energy = energy, !.life = life]
  BY DEF GrowLife, Trade, Embryo
<1> HIDE DEF cost
<1>3. /\ energy \in Store /\ energy.max = e.energy.max
      /\ energy.value \in Nat /\ energy.value <= e.energy.value
      /\ life \in Store /\ life.max = e.life.max
  BY <1>1, SpentSays, EmbryoSays, GainSays
<1> HIDE DEF energy, life, d
<1>4. /\ d \in Embryo /\ d.energy = energy /\ d.life = life
      /\ d.specie = e.specie /\ d.position = e.position /\ d.age = e.age /\ d.area = e.area
  BY <1>2, <1>3 DEF Embryo
<1>5. /\ Worth(d) <= Worth(e) /\ Worth(d) <= Worth(e) + 0
      /\ e.energy.max <= d.energy.max /\ e.life.max <= d.life.max
  BY <1>3, <1>4, EmbryoSays DEF Worth
<1> QED BY <1>3, <1>4, <1>5 DEF Traded, d

\* A greater limit of life is paid for, but for a last part of at most 30.
LEMMA GrowMaxLifeSays ==
    ASSUME NEW e \in Embryo
    PROVE  Traded(e, GrowMaxLife(e), 30) /\ GrowMaxLife(e).area = e.area
<1> DEFINE average == EmbryoLife(GenomeOf(e.specie))
           cost == Least(30, (e.life.max * One) \div average)
           energy == Lose(e.energy, cost)
           life == Widen(e.life, cost)
           d == GrowMaxLife(e)
<1>1. cost \in Nat /\ cost <= 30
  <2>1. average \in Nat \ {0}
    BY EmbryoSays, GenomesBounded DEF Bounded
  <2> HIDE DEF average
  <2>2. e.life.max * One \in Nat
    BY EmbryoSays DEF One
  <2>3. (e.life.max * One) \div average \in Nat
    BY <2>1, <2>2
  <2> QED BY <2>3 DEF Least
<1>2. d = [e EXCEPT !.energy = energy, !.life = life]
  BY DEF GrowMaxLife, Trade, Embryo
<1> HIDE DEF cost
<1>3. /\ energy \in Store /\ energy.max = e.energy.max
      /\ energy.value \in Nat /\ energy.value <= e.energy.value
      /\ energy.value > 0 => energy.value = e.energy.value - cost
      /\ life \in Store /\ life.max = e.life.max + cost
  BY <1>1, SpentSays, EmbryoSays, WidenSays
<1> HIDE DEF energy, life, d
<1>4. /\ d \in Embryo /\ d.energy = energy /\ d.life = life
      /\ d.specie = e.specie /\ d.position = e.position /\ d.age = e.age /\ d.area = e.area
  BY <1>2, <1>3 DEF Embryo
<1>5. /\ Worth(d) <= Worth(e) + 30
      /\ d.energy.value > 0 => Worth(d) <= Worth(e)
      /\ e.energy.max <= d.energy.max /\ e.life.max <= d.life.max
  <2>1. Worth(d) = energy.value + e.energy.max + (e.life.max + cost)
    BY <1>3, <1>4 DEF Worth
  <2> QED BY <1>1, <1>3, <1>4, <2>1, EmbryoSays DEF Worth
<1> QED BY <1>3, <1>4, <1>5 DEF Traded, d

\* So is a greater limit of energy.
LEMMA GrowMaxEnergySays ==
    ASSUME NEW e \in Embryo
    PROVE  Traded(e, GrowMaxEnergy(e), 30) /\ GrowMaxEnergy(e).area = e.area
<1> DEFINE average == EmbryoMaxEnergy(GenomeOf(e.specie))
           cost == Least((e.energy.max * One) \div average, 30)
           spent == Lose(e.energy, cost)
           energy == Widen(spent, cost)
           d == GrowMaxEnergy(e)
<1>1. cost \in Nat /\ cost <= 30
  <2>1. average \in Nat \ {0}
    BY EmbryoSays, GenomesBounded DEF Bounded
  <2> HIDE DEF average
  <2>2. e.energy.max * One \in Nat
    BY EmbryoSays DEF One
  <2>3. (e.energy.max * One) \div average \in Nat
    BY <2>1, <2>2
  <2> QED BY <2>3 DEF Least
<1>2. d = [e EXCEPT !.energy = energy]
  BY DEF GrowMaxEnergy, Trade, Embryo
<1> HIDE DEF cost
<1>3. /\ spent \in Store /\ spent.max = e.energy.max
      /\ spent.value \in Nat /\ spent.value <= e.energy.value
      /\ spent.value > 0 => spent.value = e.energy.value - cost
  BY <1>1, SpentSays
<1> HIDE DEF spent
<1>4. /\ energy \in Store /\ energy.max = e.energy.max + cost /\ energy.value = spent.value
  BY <1>1, <1>3, WidenSays
<1> HIDE DEF energy, d
<1>5. /\ d \in Embryo /\ d.energy = energy /\ d.life = e.life
      /\ d.specie = e.specie /\ d.position = e.position /\ d.age = e.age /\ d.area = e.area
  BY <1>2, <1>4 DEF Embryo
<1>6. /\ Worth(d) <= Worth(e) + 30
      /\ d.energy.value > 0 => Worth(d) <= Worth(e)
      /\ e.energy.max <= d.energy.max /\ e.life.max <= d.life.max
  <2>1. Worth(d) = spent.value + (e.energy.max + cost) + e.life.max
    BY <1>4, <1>5 DEF Worth
  <2> QED BY <1>1, <1>3, <1>4, <1>5, <2>1, EmbryoSays DEF Worth
<1> QED BY <1>3, <1>4, <1>5, <1>6 DEF Traded, d

\* Health costs energy, and no limit of the embryo depends on it.
LEMMA GrowHealthSays ==
    ASSUME NEW e \in Embryo
    PROVE  Traded(e, GrowHealth(e), 0) /\ GrowHealth(e).area = e.area
<1> DEFINE cost == Increment(e.health)
           energy == Lose(e.energy, cost)
           health == NormalizedPlus(e.health, cost)
           d == GrowHealth(e)
<1>1. cost \in Nat
  BY EmbryoSays, IncrementSays, RatiosAreNat
<1>2. d = [e EXCEPT !.energy = energy, !.health = health]
  BY DEF GrowHealth, Trade, Embryo
<1> HIDE DEF cost
<1>3. /\ energy \in Store /\ energy.max = e.energy.max
      /\ energy.value \in Nat /\ energy.value <= e.energy.value
  BY <1>1, SpentSays
<1>4. health \in 0..One
  <2>1. e.health + cost \in Int
    BY <1>1, EmbryoSays DEF One
  <2> QED BY <2>1, NormalizedSays DEF NormalizedPlus
<1> HIDE DEF energy, health, d
<1>5. /\ d \in Embryo /\ d.energy = energy /\ d.life = e.life
      /\ d.specie = e.specie /\ d.position = e.position /\ d.age = e.age /\ d.area = e.area
  BY <1>2, <1>3, <1>4 DEF Embryo
<1>6. /\ Worth(d) <= Worth(e) /\ Worth(d) <= Worth(e) + 0
      /\ e.energy.max <= d.energy.max /\ e.life.max <= d.life.max
  BY <1>3, <1>5, EmbryoSays DEF Worth
<1> QED BY <1>3, <1>5, <1>6 DEF Traded, d

\* The trades of a calf, one after the other: what each leaves of it.
LEMMA CalfPays ==
    ASSUME NEW a, NEW v, NEW m, NEW l, NEW ml, NEW h, NEW cost
    PROVE  Trade(Calf(a, v, m, l, ml, h), cost) = Calf(a, Clamped(v - cost, 0, m), m, l, ml, h)
<1> DEFINE w == Clamped(v - cost, 0, m)
           x == [value |-> w, max |-> m]
<1>1. Lose([value |-> v, max |-> m], cost) = x
  BY DEF Lose
<1>2. Calf(a, v, m, l, ml, h).energy = [value |-> v, max |-> m]
  BY DEF Calf
<1> HIDE DEF w
<1>3. Trade(Calf(a, v, m, l, ml, h), cost) = [Calf(a, v, m, l, ml, h) EXCEPT !.energy = x]
  BY <1>1, <1>2 DEF Trade
<1>4. [Calf(a, v, m, l, ml, h) EXCEPT !.energy = x] = Calf(a, w, m, l, ml, h)
  BY DEF Calf
<1> QED BY <1>3, <1>4 DEF w

\* Life a calf gains.
LEMMA CalfGains ==
    ASSUME NEW a, NEW v, NEW m, NEW l, NEW ml, NEW h, NEW q
    PROVE  [Calf(a, v, m, l, ml, h) EXCEPT !.life = Gain(@, q)] = Calf(a, v, m, Clamped(l + q, 0, ml), ml, h)
  BY DEF Calf, Gain

\* A greater limit of life.
LEMMA CalfLivesLonger ==
    ASSUME NEW a, NEW v, NEW m, NEW l, NEW ml, NEW h, NEW q
    PROVE  [Calf(a, v, m, l, ml, h) EXCEPT !.life = Widen(@, q)] = Calf(a, v, m, l, ml + q, h)
  BY DEF Calf, Widen

\* A greater limit of energy.
LEMMA CalfHoldsMore ==
    ASSUME NEW a, NEW v, NEW m, NEW l, NEW ml, NEW h, NEW q
    PROVE  [Calf(a, v, m, l, ml, h) EXCEPT !.energy = Widen(@, q)] = Calf(a, v, m + q, l, ml, h)
  BY DEF Calf, Widen

\* Health.
LEMMA CalfHealthier ==
    ASSUME NEW a, NEW v, NEW m, NEW l, NEW ml, NEW h, NEW q
    PROVE  [Calf(a, v, m, l, ml, h) EXCEPT !.health = NormalizedPlus(@, q)] =
              Calf(a, v, m, l, ml, Normalized(h + q))
  BY DEF Calf, NormalizedPlus

\* The genome of a calf, and its stores.
LEMMA CalfGenome ==
    ASSUME NEW a, NEW v, NEW m, NEW l, NEW ml, NEW h
    PROVE  GenomeOf(Calf(a, v, m, l, ml, h).specie) = Hippopotamus
<1>1. Calf(a, v, m, l, ml, h).specie = "HIPPOPOTAMUS"
  BY DEF Calf
<1> QED BY <1>1, DatabaseSays

\* The figures of the species that a calf grows by.
LEMMA HippopotamusSays ==
    /\ EmbryoLife(Hippopotamus) = 7500 /\ EmbryoMaxEnergy(Hippopotamus) = 5525
    /\ Area(Hippopotamus.creature.morphology) = 234 /\ Hippopotamus.embryo.area = 35
  BY SMT DEF Hippopotamus, Area, Part, One, EmbryoLife, EmbryoMaxEnergy

\* The five trades, by the cost of each.
LEMMA CalfGrowsArea ==
    ASSUME NEW a, NEW v \in Nat, NEW m \in Nat, v <= m, NEW l, NEW ml, NEW h
    PROVE  GrowArea(Calf(a, v, m, l, ml, h)) = Calf(a, v, m, l, ml, h)
<1> DEFINE e == Calf(a, v, m, l, ml, h)
<1>1. Increment(Normalized(Part(234, (16 * One) \div 35))) = 0
  BY SMT DEF Increment, Normalized, Clamped, Part, One
<1>2. e.area = 16
  BY DEF Calf
<1>3. GenomeOf(e.specie) = Hippopotamus
  BY CalfGenome
<1>4. Clamped(v - 0, 0, m) = v
  BY DEF Clamped
<1>5. Trade(e, 0) = e
  BY <1>4, CalfPays
<1>6. [e EXCEPT !.area = @ + 0] = e
  BY DEF Calf
<1> HIDE DEF e
<1>7. GrowArea(e) = [Trade(e, 0) EXCEPT !.area = @ + 0]
  BY <1>1, <1>2, <1>3, HippopotamusSays DEF GrowArea
<1> QED BY <1>5, <1>6, <1>7 DEF e

\* Its second trade.
LEMMA CalfGrowsLife ==
    ASSUME NEW a, NEW v, NEW m, NEW l, NEW ml, NEW h,
           NEW cost, cost = Increment(Ratio([value |-> l, max |-> ml]))
    PROVE  GrowLife(Calf(a, v, m, l, ml, h)) =
              Calf(a, Clamped(v - cost, 0, m), m, Clamped(l + cost, 0, ml), ml, h)
<1> DEFINE e == Calf(a, v, m, l, ml, h)
<1>1. e.life = [value |-> l, max |-> ml]
  BY DEF Calf
<1>2. [Trade(e, cost) EXCEPT !.life = Gain(@, cost)] =
         Calf(a, Clamped(v - cost, 0, m), m, Clamped(l + cost, 0, ml), ml, h)
  BY CalfPays, CalfGains
<1> HIDE DEF e
<1>3. GrowLife(e) = [Trade(e, cost) EXCEPT !.life = Gain(@, cost)]
  BY <1>1 DEF GrowLife
<1> QED BY <1>2, <1>3 DEF e

\* Its third.
LEMMA CalfGrowsMaxLife ==
    ASSUME NEW a, NEW v, NEW m, NEW l, NEW ml, NEW h,
           NEW cost, cost = Least(30, (ml * One) \div 7500)
    PROVE  GrowMaxLife(Calf(a, v, m, l, ml, h)) = Calf(a, Clamped(v - cost, 0, m), m, l, ml + cost, h)
<1> DEFINE e == Calf(a, v, m, l, ml, h)
<1>1. e.life.max = ml
  BY DEF Calf
<1>2. GenomeOf(e.specie) = Hippopotamus
  BY CalfGenome
<1>3. [Trade(e, cost) EXCEPT !.life = Widen(@, cost)] = Calf(a, Clamped(v - cost, 0, m), m, l, ml + cost, h)
  BY CalfPays, CalfLivesLonger
<1> HIDE DEF e
<1>4. GrowMaxLife(e) = [Trade(e, cost) EXCEPT !.life = Widen(@, cost)]
  BY <1>1, <1>2, HippopotamusSays DEF GrowMaxLife
<1> QED BY <1>3, <1>4 DEF e

\* Its fourth.
LEMMA CalfGrowsMaxEnergy ==
    ASSUME NEW a, NEW v, NEW m, NEW l, NEW ml, NEW h,
           NEW cost, cost = Least((m * One) \div 5525, 30)
    PROVE  GrowMaxEnergy(Calf(a, v, m, l, ml, h)) = Calf(a, Clamped(v - cost, 0, m), m + cost, l, ml, h)
<1> DEFINE e == Calf(a, v, m, l, ml, h)
<1>1. e.energy.max = m
  BY DEF Calf
<1>2. GenomeOf(e.specie) = Hippopotamus
  BY CalfGenome
<1>3. [Trade(e, cost) EXCEPT !.energy = Widen(@, cost)] = Calf(a, Clamped(v - cost, 0, m), m + cost, l, ml, h)
  BY CalfPays, CalfHoldsMore
<1> HIDE DEF e
<1>4. GrowMaxEnergy(e) = [Trade(e, cost) EXCEPT !.energy = Widen(@, cost)]
  BY <1>1, <1>2, HippopotamusSays DEF GrowMaxEnergy
<1> QED BY <1>3, <1>4 DEF e

\* Its last.
LEMMA CalfGrowsHealth ==
    ASSUME NEW a, NEW v, NEW m, NEW l, NEW ml, NEW h, NEW cost, cost = Increment(h)
    PROVE  GrowHealth(Calf(a, v, m, l, ml, h)) = Calf(a, Clamped(v - cost, 0, m), m, l, ml, Normalized(h + cost))
<1> DEFINE e == Calf(a, v, m, l, ml, h)
<1>1. e.health = h
  BY DEF Calf
<1>2. [Trade(e, cost) EXCEPT !.health = NormalizedPlus(@, cost)] =
         Calf(a, Clamped(v - cost, 0, m), m, l, ml, Normalized(h + cost))
  BY CalfPays, CalfHealthier
<1> HIDE DEF e
<1>3. GrowHealth(e) = [Trade(e, cost) EXCEPT !.health = NormalizedPlus(@, cost)]
  BY <1>1 DEF GrowHealth
<1> QED BY <1>2, <1>3 DEF e

\* A calf's three ticks: its energy is gone after the third.
LEMMA CalfGrows ==
    /\ GrowEmbryo(Calf(0, 394, 789, 750, 1500, 70)) = Calf(0, 176, 803, 850, 1520, 100)
    /\ GrowEmbryo(Calf(1, 176, 803, 850, 1520, 100)) = Calf(1, 43, 817, 949, 1540, 100)
    /\ GrowEmbryo(Calf(2, 43, 817, 949, 1540, 100)) = Calf(2, 0, 831, 1045, 1560, 100)
<1>1. GrowEmbryo(Calf(0, 394, 789, 750, 1500, 70)) = Calf(0, 176, 803, 850, 1520, 100)
  <2>1. GrowArea(Calf(0, 394, 789, 750, 1500, 70)) = Calf(0, 394, 789, 750, 1500, 70)
    BY CalfGrowsArea
  <2>2. GrowLife(Calf(0, 394, 789, 750, 1500, 70)) = Calf(0, 294, 789, 850, 1500, 70)
    <3>1. 100 = Increment(Ratio([value |-> 750, max |-> 1500]))
      BY SMT DEF Increment, Ratio, Normalized, Clamped, Part, One
    <3>2. Clamped(394 - 100, 0, 789) = 294 /\ Clamped(750 + 100, 0, 1500) = 850
      BY DEF Clamped
    <3> QED BY <3>1, <3>2, CalfGrowsLife
  <2>3. GrowMaxLife(Calf(0, 294, 789, 850, 1500, 70)) = Calf(0, 274, 789, 850, 1520, 70)
    <3>1. 20 = Least(30, (1500 * One) \div 7500) /\ Clamped(294 - 20, 0, 789) = 274 /\ 1500 + 20 = 1520
      BY SMT DEF Least, Clamped, One
    <3> QED BY <3>1, CalfGrowsMaxLife
  <2>4. GrowMaxEnergy(Calf(0, 274, 789, 850, 1520, 70)) = Calf(0, 260, 803, 850, 1520, 70)
    <3>1. 14 = Least((789 * One) \div 5525, 30) /\ Clamped(274 - 14, 0, 789) = 260 /\ 789 + 14 = 803
      BY SMT DEF Least, Clamped, One
    <3> QED BY <3>1, CalfGrowsMaxEnergy
  <2>5. GrowHealth(Calf(0, 260, 803, 850, 1520, 70)) = Calf(0, 176, 803, 850, 1520, 100)
    <3>1. 84 = Increment(70)
      BY SMT DEF Increment, Normalized, Clamped, Part, One
    <3>2. Clamped(260 - 84, 0, 803) = 176 /\ Normalized(70 + 84) = 100
      BY DEF Clamped, Normalized, One
    <3> QED BY <3>1, <3>2, CalfGrowsHealth
  <2> QED BY <2>1, <2>2, <2>3, <2>4, <2>5 DEF GrowEmbryo
<1>2. GrowEmbryo(Calf(1, 176, 803, 850, 1520, 100)) = Calf(1, 43, 817, 949, 1540, 100)
  <2>1. GrowArea(Calf(1, 176, 803, 850, 1520, 100)) = Calf(1, 176, 803, 850, 1520, 100)
    BY CalfGrowsArea
  <2>2. GrowLife(Calf(1, 176, 803, 850, 1520, 100)) = Calf(1, 77, 803, 949, 1520, 100)
    <3>1. 99 = Increment(Ratio([value |-> 850, max |-> 1520]))
      BY SMT DEF Increment, Ratio, Normalized, Clamped, Part, One
    <3>2. Clamped(176 - 99, 0, 803) = 77 /\ Clamped(850 + 99, 0, 1520) = 949
      BY DEF Clamped
    <3> QED BY <3>1, <3>2, CalfGrowsLife
  <2>3. GrowMaxLife(Calf(1, 77, 803, 949, 1520, 100)) = Calf(1, 57, 803, 949, 1540, 100)
    <3>1. 20 = Least(30, (1520 * One) \div 7500) /\ Clamped(77 - 20, 0, 803) = 57 /\ 1520 + 20 = 1540
      BY SMT DEF Least, Clamped, One
    <3> QED BY <3>1, CalfGrowsMaxLife
  <2>4. GrowMaxEnergy(Calf(1, 57, 803, 949, 1540, 100)) = Calf(1, 43, 817, 949, 1540, 100)
    <3>1. 14 = Least((803 * One) \div 5525, 30) /\ Clamped(57 - 14, 0, 803) = 43 /\ 803 + 14 = 817
      BY SMT DEF Least, Clamped, One
    <3> QED BY <3>1, CalfGrowsMaxEnergy
  <2>5. GrowHealth(Calf(1, 43, 817, 949, 1540, 100)) = Calf(1, 43, 817, 949, 1540, 100)
    <3>1. 0 = Increment(100)
      BY SMT DEF Increment, Normalized, Clamped, Part, One
    <3>2. Clamped(43 - 0, 0, 817) = 43 /\ Normalized(100 + 0) = 100
      BY DEF Clamped, Normalized, One
    <3> QED BY <3>1, <3>2, CalfGrowsHealth
  <2> QED BY <2>1, <2>2, <2>3, <2>4, <2>5 DEF GrowEmbryo
<1>3. GrowEmbryo(Calf(2, 43, 817, 949, 1540, 100)) = Calf(2, 0, 831, 1045, 1560, 100)
  <2>1. GrowArea(Calf(2, 43, 817, 949, 1540, 100)) = Calf(2, 43, 817, 949, 1540, 100)
    BY CalfGrowsArea
  <2>2. GrowLife(Calf(2, 43, 817, 949, 1540, 100)) = Calf(2, 0, 817, 1045, 1540, 100)
    <3>1. 96 = Increment(Ratio([value |-> 949, max |-> 1540]))
      BY SMT DEF Increment, Ratio, Normalized, Clamped, Part, One
    <3>2. Clamped(43 - 96, 0, 817) = 0 /\ Clamped(949 + 96, 0, 1540) = 1045
      BY DEF Clamped
    <3> QED BY <3>1, <3>2, CalfGrowsLife
  <2>3. GrowMaxLife(Calf(2, 0, 817, 1045, 1540, 100)) = Calf(2, 0, 817, 1045, 1560, 100)
    <3>1. 20 = Least(30, (1540 * One) \div 7500) /\ Clamped(0 - 20, 0, 817) = 0 /\ 1540 + 20 = 1560
      BY SMT DEF Least, Clamped, One
    <3> QED BY <3>1, CalfGrowsMaxLife
  <2>4. GrowMaxEnergy(Calf(2, 0, 817, 1045, 1560, 100)) = Calf(2, 0, 831, 1045, 1560, 100)
    <3>1. 14 = Least((817 * One) \div 5525, 30) /\ Clamped(0 - 14, 0, 817) = 0 /\ 817 + 14 = 831
      BY SMT DEF Least, Clamped, One
    <3> QED BY <3>1, CalfGrowsMaxEnergy
  <2>5. GrowHealth(Calf(2, 0, 831, 1045, 1560, 100)) = Calf(2, 0, 831, 1045, 1560, 100)
    <3>1. 0 = Increment(100)
      BY SMT DEF Increment, Normalized, Clamped, Part, One
    <3>2. Clamped(0 - 0, 0, 831) = 0 /\ Normalized(100 + 0) = 100
      BY DEF Clamped, Normalized, One
    <3> QED BY <3>1, <3>2, CalfGrowsHealth
  <2> QED BY <2>1, <2>2, <2>3, <2>4, <2>5 DEF GrowEmbryo
<1> QED BY <1>1, <1>2, <1>3

\* A tick of growth leaves a viable embryo viable, or dead for the next tick:
\* it costs it energy, and grows its limits by no more than that.
LEMMA GrowEmbryoSays ==
    ASSUME NEW e \in Embryo, Viable(e), ~IsDead(e)
    PROVE  LET d == [GrowEmbryo(e) EXCEPT !.age = @ + 1] IN
           d \in Embryo /\ Viable(d) /\ d.energy.value <= e.energy.value
<1> DEFINE e1 == GrowArea(e)
           e2 == GrowLife(e1)
           e3 == GrowMaxLife(e2)
           e4 == GrowMaxEnergy(e3)
           e5 == GrowHealth(e4)
           d == [e5 EXCEPT !.age = @ + 1]
<1>1. Traded(e, e1, 0) /\ e1.area \in Areas[e.specie]
  BY GrowAreaSays DEF Viable
<1> HIDE DEF e1
<1>2. Traded(e1, e2, 0) /\ e2.area = e1.area
  BY <1>1, GrowLifeSays DEF Traded
<1> HIDE DEF e2
<1>3. Traded(e2, e3, 30) /\ e3.area = e2.area
  BY <1>2, GrowMaxLifeSays DEF Traded
<1> HIDE DEF e3
<1>4. Traded(e3, e4, 30) /\ e4.area = e3.area
  BY <1>3, GrowMaxEnergySays DEF Traded
<1> HIDE DEF e4
<1>5. Traded(e4, e5, 0) /\ e5.area = e4.area
  BY <1>4, GrowHealthSays DEF Traded
<1>6. GrowEmbryo(e) = e5
  BY DEF GrowEmbryo, e4, e3, e2, e1
<1> HIDE DEF e5
<1>7. /\ e1 \in Embryo /\ e2 \in Embryo /\ e3 \in Embryo /\ e4 \in Embryo /\ e5 \in Embryo
      /\ e5.specie = e.specie /\ e5.position = e.position /\ e5.age = e.age
      /\ e5.area \in Areas[e.specie]
  BY <1>1, <1>2, <1>3, <1>4, <1>5 DEF Traded
<1>8. /\ Worth(e) \in Nat /\ Worth(e1) \in Nat /\ Worth(e2) \in Nat
      /\ Worth(e3) \in Nat /\ Worth(e4) \in Nat /\ Worth(e5) \in Nat
  BY <1>7, EmbryoSays DEF Worth
<1>9. /\ e.energy.value \in Nat /\ e1.energy.value \in Nat /\ e2.energy.value \in Nat
      /\ e3.energy.value \in Nat /\ e4.energy.value \in Nat /\ e5.energy.value \in Nat
  BY <1>7, EmbryoSays
<1>10. /\ e1.energy.value <= e.energy.value /\ e2.energy.value <= e1.energy.value
       /\ e3.energy.value <= e2.energy.value /\ e4.energy.value <= e3.energy.value
       /\ e5.energy.value <= e4.energy.value
  BY <1>1, <1>2, <1>3, <1>4, <1>5 DEF Traded
<1>11. e5.energy.value <= e.energy.value
  BY <1>9, <1>10
<1>12. /\ Worth(e1) <= Worth(e) /\ Worth(e2) <= Worth(e1) /\ Worth(e3) <= Worth(e2) + 30
       /\ Worth(e4) <= Worth(e3) + 30 /\ Worth(e5) <= Worth(e4)
       /\ e3.energy.value > 0 => Worth(e3) <= Worth(e2)
       /\ e4.energy.value > 0 => Worth(e4) <= Worth(e3)
  BY <1>1, <1>2, <1>3, <1>4, <1>5, <1>8 DEF Traded
<1>13. Worth(e5) <= Worth(e) + 60
  BY <1>8, <1>12
<1>14. e5.energy.value > 0 => Worth(e5) <= Worth(e)
  <2> SUFFICES ASSUME e5.energy.value > 0 PROVE Worth(e5) <= Worth(e)
    OBVIOUS
  <2>1. e4.energy.value > 0 /\ e3.energy.value > 0
    BY <1>9, <1>10
  <2> QED BY <1>8, <1>12, <2>1
<1>15. e.energy.max <= e5.energy.max /\ e.life.max <= e5.life.max
  <2>1. /\ e.energy.max \in Nat /\ e1.energy.max \in Nat /\ e2.energy.max \in Nat
        /\ e3.energy.max \in Nat /\ e4.energy.max \in Nat /\ e5.energy.max \in Nat
        /\ e.life.max \in Nat /\ e1.life.max \in Nat /\ e2.life.max \in Nat
        /\ e3.life.max \in Nat /\ e4.life.max \in Nat /\ e5.life.max \in Nat
    BY <1>7, EmbryoSays
  <2>2. /\ e.energy.max <= e1.energy.max /\ e1.energy.max <= e2.energy.max
        /\ e2.energy.max <= e3.energy.max /\ e3.energy.max <= e4.energy.max
        /\ e4.energy.max <= e5.energy.max
    BY <1>1, <1>2, <1>3, <1>4, <1>5 DEF Traded
  <2>3. /\ e.life.max <= e1.life.max /\ e1.life.max <= e2.life.max
        /\ e2.life.max <= e3.life.max /\ e3.life.max <= e4.life.max
        /\ e4.life.max <= e5.life.max
    BY <1>1, <1>2, <1>3, <1>4, <1>5 DEF Traded
  <2> QED BY <2>1, <2>2, <2>3
<1>16. /\ d \in Embryo /\ d.energy = e5.energy /\ d.life = e5.life /\ d.area = e5.area
       /\ d.specie = e.specie /\ d.position = e.position
  BY <1>7 DEF Embryo
<1>17. Budget(d)
  <2> DEFINE all == FirstMax(GenomeOf(e.specie)) + (FirstMax(GenomeOf(e.specie)) \div 2)
                      + FirstLife(GenomeOf(e.specie))
  <2>1. all \in Nat
    <3>1. FirstMax(GenomeOf(e.specie)) \in Nat /\ FirstLife(GenomeOf(e.specie)) \in Nat
      BY EmbryoSays, GenomesBounded DEF Bounded
    <3> QED BY <3>1
  <2>2. e.energy.value > 0
    BY <1>9 DEF IsDead, IsZero
  <2>3. Worth(e) <= all
    BY <2>1, <2>2 DEF Viable, Budget, IsZero
  <2>4. Worth(d) = Worth(e5)
    BY <1>16 DEF Worth
  <2>5. Budget(d) <=> Worth(d) <= all + (IF d.energy.value = 0 THEN 60 ELSE 0)
    BY <1>16 DEF Budget, IsZero
  <2> HIDE DEF all
  <2>6. CASE e5.energy.value > 0
    BY <1>8, <1>14, <1>16, <2>1, <2>3, <2>4, <2>5, <2>6
  <2>7. CASE e5.energy.value = 0
    BY <1>8, <1>13, <1>16, <2>1, <2>3, <2>4, <2>5, <2>7
  <2> QED BY <1>9, <2>6, <2>7
<1>18. FirstMax(GenomeOf(d.specie)) <= d.energy.max /\ FirstLife(GenomeOf(d.specie)) <= d.life.max
  <2>1. FirstMax(GenomeOf(e.specie)) \in Nat /\ FirstLife(GenomeOf(e.specie)) \in Nat
    BY EmbryoSays, GenomesBounded DEF Bounded
  <2>2. FirstMax(GenomeOf(e.specie)) <= e.energy.max /\ FirstLife(GenomeOf(e.specie)) <= e.life.max
    BY DEF Viable
  <2>3. e.energy.max \in Nat /\ e5.energy.max \in Nat /\ e.life.max \in Nat /\ e5.life.max \in Nat
    BY <1>7, EmbryoSays
  <2> QED BY <1>15, <1>16, <2>1, <2>2, <2>3
<1>19. d.specie = "HIPPOPOTAMUS" => d \in Calves
  <2> SUFFICES ASSUME d.specie = "HIPPOPOTAMUS" PROVE d \in Calves
    OBVIOUS
  <2>1. e \in Calves
    BY <1>16 DEF Viable
  <2>2. e # Calf(3, 0, 831, 1045, 1560, 100)
    <3>1. IsDead(Calf(3, 0, 831, 1045, 1560, 100))
      BY DEF IsDead, IsZero, Calf
    <3> QED BY <3>1
  <2>3. d = [GrowEmbryo(e) EXCEPT !.age = @ + 1]
    BY <1>6
  <2> HIDE DEF d
  <2>4. CASE e = Calf(0, 394, 789, 750, 1500, 70)
    <3>1. [Calf(0, 176, 803, 850, 1520, 100) EXCEPT !.age = @ + 1] = Calf(1, 176, 803, 850, 1520, 100)
      BY DEF Calf
    <3> QED BY <2>3, <2>4, <3>1, CalfGrows DEF Calves
  <2>5. CASE e = Calf(1, 176, 803, 850, 1520, 100)
    <3>1. [Calf(1, 43, 817, 949, 1540, 100) EXCEPT !.age = @ + 1] = Calf(2, 43, 817, 949, 1540, 100)
      BY DEF Calf
    <3> QED BY <2>3, <2>5, <3>1, CalfGrows DEF Calves
  <2>6. CASE e = Calf(2, 43, 817, 949, 1540, 100)
    <3>1. [Calf(2, 0, 831, 1045, 1560, 100) EXCEPT !.age = @ + 1] = Calf(3, 0, 831, 1045, 1560, 100)
      BY DEF Calf
    <3> QED BY <2>3, <2>6, <3>1, CalfGrows DEF Calves
  <2> QED BY <2>1, <2>2, <2>4, <2>5, <2>6 DEF Calves
<1>20. Viable(d)
  BY <1>7, <1>16, <1>17, <1>18, <1>19 DEF Viable
<1> QED BY <1>6, <1>11, <1>16, <1>20

\* A conceived embryo is viable: it has half of its limits.
LEMMA GenerateEmbryoSays ==
    ASSUME NEW s \in Kinds
    PROVE  GenerateEmbryo(s) \in Embryo /\ Viable(GenerateEmbryo(s))
<1> DEFINE g == GenomeOf(s)
           m == FirstMax(g)
           l == FirstLife(g)
           area == EmbryoArea(g) \div 5
           energy == Limited(m \div 2, m)
           life == Limited(l \div 2, l)
           e == [specie |-> s, energy |-> energy, life |-> life, health |-> g.embryo.health,
                 area |-> area, age |-> 0, position |-> 0]
<1>1. s \in Species
  BY KindsAreSpecies
<1>2. Bounded(g)
  BY <1>1, GenomesBounded
<1>3. m \in Nat /\ l \in Nat /\ g.embryo.health \in 0..One
  BY <1>2 DEF Bounded
<1>4. area \in Areas[s] /\ area \in Nat
  <2>1. CASE s = "CRAB"
    <3>1. EmbryoArea(Crab) \div 5 = 3
      BY SMT DEF Crab, EmbryoArea, Area, Part, One
    <3> QED BY <2>1, <3>1, DatabaseSays DEF Areas
  <2>2. CASE s = "FISH"
    <3>1. EmbryoArea(Fish) \div 5 = 2
      BY SMT DEF Fish, EmbryoArea, Area, Part, One
    <3> QED BY <2>2, <3>1, DatabaseSays DEF Areas
  <2>3. CASE s = "CROCODILE"
    <3>1. EmbryoArea(Crocodile) \div 5 = 10
      BY SMT DEF Crocodile, EmbryoArea, Area, Part, One
    <3> QED BY <2>3, <3>1, DatabaseSays DEF Areas
  <2>4. CASE s = "HIPPOPOTAMUS"
    <3>1. EmbryoArea(Hippopotamus) \div 5 = 16
      BY SMT DEF Hippopotamus, EmbryoArea, Area, Part, One
    <3> QED BY <2>4, <3>1, DatabaseSays DEF Areas
  <2> QED BY <1>1, <2>1, <2>2, <2>3, <2>4 DEF Species
<1>5. GenerateEmbryo(s) = e
  BY DEF GenerateEmbryo, FirstMax, FirstLife
<1>6. s = "HIPPOPOTAMUS" => e \in Calves
  <2> SUFFICES ASSUME s = "HIPPOPOTAMUS" PROVE e \in Calves
    OBVIOUS
  <2>1. g = Hippopotamus
    BY DatabaseSays
  <2>2. FirstMax(Hippopotamus) = 789 /\ FirstLife(Hippopotamus) = 1500 /\ Hippopotamus.embryo.health = 70
    BY SMT DEF Hippopotamus, FirstMax, FirstLife, EmbryoMaxEnergy, EmbryoLife, Part, One
  <2>3. area = 16
    BY <1>4 DEF Areas
  <2>4. Limited(789 \div 2, 789) = [value |-> 394, max |-> 789]
    BY DEF Limited, Clamped
  <2>5. Limited(1500 \div 2, 1500) = [value |-> 750, max |-> 1500]
    BY DEF Limited, Clamped
  <2>6. energy = [value |-> 394, max |-> 789] /\ life = [value |-> 750, max |-> 1500]
    BY <2>1, <2>2, <2>4, <2>5
  <2> HIDE DEF area, energy, life, g
  <2>7. e = Calf(0, 394, 789, 750, 1500, 70)
    BY <2>1, <2>2, <2>3, <2>6 DEF Calf
  <2> QED BY <2>7 DEF Calves
<1> HIDE DEF area
<1>7. /\ energy \in Store /\ energy.max = m /\ energy.value <= m \div 2
      /\ life \in Store /\ life.max = l
  <2> HIDE DEF m, l
  <2>1. m \div 2 \in Nat /\ l \div 2 \in Nat
    BY <1>3
  <2> QED BY <1>3, <2>1, LimitedSays
<1> HIDE DEF energy, life
<1>8. e \in Embryo
  BY <1>1, <1>3, <1>4, <1>7 DEF Embryo
<1>9. Budget(e)
  <2>1. Worth(e) = energy.value + m + l
    BY <1>7 DEF Worth
  <2>2. energy.value \in Nat
    BY <1>7, StoreSays
  <2>3. Budget(e) <=> Worth(e) <= m + (m \div 2) + l + (IF IsZero(energy) THEN 60 ELSE 0)
    BY DEF Budget
  <2> HIDE DEF m, l, e
  <2>4. energy.value + m + l <= m + (m \div 2) + l
    BY <1>3, <1>7, <2>2
  <2>5. m + (m \div 2) + l \in Nat
    BY <1>3
  <2> QED BY <1>3, <2>1, <2>2, <2>3, <2>4, <2>5
<1>10. FirstMax(GenomeOf(e.specie)) <= e.energy.max /\ FirstLife(GenomeOf(e.specie)) <= e.life.max
  BY <1>3, <1>7
<1>11. Viable(e)
  <2>1. e.specie = s /\ e.position = 0 /\ e.area = area
    OBVIOUS
  <2> HIDE DEF e
  <2> QED BY <1>4, <1>6, <1>9, <1>10, <2>1 DEF Viable
<1> QED BY <1>5, <1>8, <1>11

-----------------------------------------------------------------------------
(* Corpses.                                                                *)

\* A corpse's meat is a quantity.
LEMMA CorpseOfCreatureSays == ASSUME NEW c \in Creature PROVE CorpseOfCreature(c) \in Corpse
<1> DEFINE area == Area([width |-> c.size.width, height |-> c.size.height])
           v == c.energy.value
           r == c.reserved.value
<1>1. v \in Nat /\ r \in Nat
  BY CreatureSays, StoreSays
<1>2. area \in Nat
  <2>1. c.size.width \in Nat /\ c.size.height \in Nat
    BY CreatureSays
  <2> QED BY <2>1, PartOf DEF Area
<1> HIDE DEF area, v, r
<1>3. Part(50, v) \in Nat /\ Part(75, r) \in Nat /\ Part(area, r) \in Nat
  BY <1>1, <1>2, PartOf
<1>4. Part(20, Part(area, r)) \in Nat
  BY <1>3, PartOf
<1>5. Part(50, v) + Part(75, r) + Part(20, Part(area, r)) \in Nat
  BY <1>3, <1>4
<1>6. c.position \in Int /\ c.size \in [width : Nat, height : Nat]
  BY CreatureSays
<1> QED BY <1>5, <1>6 DEF CorpseOfCreature, Corpse, area, v, r

\* What the corpse of an embryo is.
LEMMA CorpseOfEmbryoSays ==
    ASSUME NEW e \in Embryo, Viable(e)
    PROVE  CorpseOfEmbryo(e) \in Corpse
<1> DEFINE v == e.energy.value
           area == e.area
<1>1. v \in Nat /\ area \in Nat /\ e.position \in Int
  BY EmbryoSays
<1>2. SizeOfEmbryo(e) \in [width : Nat, height : Nat]
  BY EmbryoSays, AreasSay, SizeOfEmbryoSays DEF Viable
<1> HIDE DEF v, area
<1>3. Part(40, v) \in Nat /\ Part(area, v) \in Nat
  BY <1>1, PartOf
<1>4. Part(15, Part(area, v)) \in Nat
  BY <1>3, PartOf
<1>5. Part(40, v) + Part(15, Part(area, v)) \in Nat
  BY <1>3, <1>4
<1> QED BY <1>1, <1>2, <1>5 DEF CorpseOfEmbryo, Corpse, v, area

-----------------------------------------------------------------------------
(* The registry.                                                           *)

\* Whether each entity of the tick is in its registry.
Queued ==
    \A i \in Ids :
        /\ <<"CREATURE", i>> \in turn => creatures[i] # NoEntity
        /\ <<"CORPSE", i>> \in turn => corpses[i] # NoEntity
        /\ <<"EMBRYO", i>> \in turn => embryos[i] # NoEntity

\* An entity is what is in the registry of its type.
LEMMA EntitiesSay ==
    ASSUME NEW i \in Ids
    PROVE  /\ <<"CREATURE", i>> \in Entities <=> creatures[i] # NoEntity
           /\ <<"CORPSE", i>> \in Entities <=> corpses[i] # NoEntity
           /\ <<"EMBRYO", i>> \in Entities <=> embryos[i] # NoEntity
           /\ At(<<"CREATURE", i>>) = creatures[i]
           /\ At(<<"CORPSE", i>>) = corpses[i]
           /\ At(<<"EMBRYO", i>>) = embryos[i]
<1>1. Registry["CREATURE"] = creatures /\ Registry["CORPSE"] = corpses /\ Registry["EMBRYO"] = embryos
  BY DEF Registry
<1>2. \A k \in {"CREATURE", "CORPSE", "EMBRYO"} : <<k, i>>[1] = k /\ <<k, i>>[2] = i
  OBVIOUS
<1>3. \A k \in {"CREATURE", "CORPSE", "EMBRYO"} : <<k, i>> \in Entities <=> Registry[k][i] # NoEntity
  BY <1>2 DEF Entities
<1> QED BY <1>1, <1>2, <1>3 DEF At

\* The tick's queue lies in the registry when each of its ids does.
LEMMA QueuedSays == Types => (turn \subseteq Entities <=> Queued)
<1> SUFFICES ASSUME Types PROVE turn \subseteq Entities <=> Queued
  OBVIOUS
<1>1. turn \in SUBSET ({"CREATURE", "CORPSE", "EMBRYO"} \X Ids)
  BY DEF Types
<1>2. turn \subseteq Entities => Queued
  BY EntitiesSay DEF Queued
<1>3. ASSUME Queued, NEW x \in turn PROVE x \in Entities
  <2>1. PICK k \in {"CREATURE", "CORPSE", "EMBRYO"}, i \in Ids : x = <<k, i>>
    BY <1>1
  <2> QED BY <1>3, <2>1, EntitiesSay DEF Queued
<1> QED BY <1>2, <1>3

\* What the invariant says of one entity.
LEMMA RegisteredSays ==
    ASSUME IInv, NEW i \in Ids
    PROVE  /\ creatures[i] # NoEntity => creatures[i] \in Creature /\ Sound(creatures[i]) /\ i <= given
           /\ corpses[i] # NoEntity => corpses[i] \in Corpse /\ corpses[i].meat \in Nat /\ i <= given
           /\ embryos[i] # NoEntity => embryos[i] \in Embryo /\ Viable(embryos[i]) /\ i <= given
<1>1. /\ creatures[i] # NoEntity => creatures[i] \in Creature
      /\ corpses[i] # NoEntity => corpses[i] \in Corpse
      /\ embryos[i] # NoEntity => embryos[i] \in Embryo
  BY DEF IInv, Types
<1>2. \A p \in Corpse : p.meat \in Nat
  BY DEF Corpse
<1>3. \A j \in 1..given : j <= given
  OBVIOUS
<1>4. /\ creatures[i] # NoEntity => Sound(creatures[i]) /\ i <= given
      /\ corpses[i] # NoEntity => i <= given
      /\ embryos[i] # NoEntity => Viable(embryos[i]) /\ i <= given
  BY <1>3 DEF IInv, Populated, In
<1> QED BY <1>1, <1>2, <1>4

\* A new id is nobody's.
LEMMA NewIdSays ==
    ASSUME IInv, NEW id \in Ids, NewId(id)
    PROVE  /\ creatures[id] = NoEntity /\ corpses[id] = NoEntity /\ embryos[id] = NoEntity
           /\ given' \in 0..MaxIds /\ given <= given' /\ id <= given'
<1>1. given \in Nat /\ MaxIds \in Nat /\ id \in 1..MaxIds
  BY OrganismAssumption DEF IInv, Types, Ids
<1>2. id = given + 1 /\ given' = id
  BY DEF NewId
<1>3. ~ (id <= given)
  BY <1>1, <1>2
<1>4. given' \in 0..MaxIds /\ given <= given' /\ id <= given'
  BY <1>1, <1>2
<1> QED BY <1>3, <1>4, RegisteredSays

\* What is in sight is in the registry.
LEMMA InSightSays == ASSUME NEW c PROVE InSight(c) \subseteq Entities
  BY DEF InSight

\* The goals of a hungry creature are corpses in the registry.
LEMMA CandidatesSay ==
    ASSUME NEW c, NEW x \in Candidates(Perceive(c))
    PROVE  /\ x \in Entities /\ x[1] = "CORPSE" /\ x[2] \in Ids
           /\ x = <<"CORPSE", x[2]>> /\ corpses[x[2]] # NoEntity
<1>1. x \in DOMAIN Perceive(c).entities /\ x[1] = "CORPSE"
  BY DEF Candidates, Reduce, Filter, Filters, View
<1>2. DOMAIN Perceive(c).entities = InSight(c)
  BY DEF Perceive, Perceived
<1>3. x \in Entities
  BY <1>1, <1>2, InSightSays
<1>4. PICK k \in {"CREATURE", "CORPSE", "EMBRYO"}, i \in Ids : x = <<k, i>>
  BY <1>3 DEF Entities
<1>5. x = <<"CORPSE", i>> /\ x[2] = i
  BY <1>1, <1>4
<1> QED BY <1>1, <1>3, <1>5, EntitiesSay

-----------------------------------------------------------------------------
(* What a step may do to each registry, and to the tick.                   *)

CreaturesGo ==
    /\ creatures' \in [Ids -> Creature \cup {NoEntity}]
    /\ \A i \in Ids : creatures'[i] # NoEntity =>
          /\ Sound(creatures'[i]) /\ i <= given'
          /\ creatures[i] # NoEntity => Carried(creatures[i], creatures'[i])

CorpsesGo ==
    /\ corpses' \in [Ids -> Corpse \cup {NoEntity}]
    /\ \A i \in Ids : corpses'[i] # NoEntity => i <= given'

EmbryosGo ==
    /\ embryos' \in [Ids -> Embryo \cup {NoEntity}]
    /\ \A i \in Ids : embryos'[i] # NoEntity => Viable(embryos'[i]) /\ i <= given'

TickGoes ==
    /\ given' \in 0..MaxIds
    /\ turn' \in SUBSET ({"CREATURE", "CORPSE", "EMBRYO"} \X Ids)
    /\ tick' \in Nat /\ calls' \in 0..Len(MaxTicks) /\ halted' \in BOOLEAN
    /\ halted' \/ Queued'

\* No creature, corpse, embryo gains.
CreaturesPay ==
    \A i \in Ids : creatures[i] # NoEntity /\ creatures'[i] # NoEntity =>
        EnergyOf(creatures'[i]) <= EnergyOf(creatures[i])

CorpsesPay ==
    \A i \in Ids : corpses[i] # NoEntity /\ corpses'[i] # NoEntity => corpses'[i].meat <= corpses[i].meat

EmbryosPay ==
    \A i \in Ids : embryos[i] # NoEntity /\ embryos'[i] # NoEntity =>
        embryos'[i].energy.value <= embryos[i].energy.value

\* The laws of a step: it keeps the invariant, every pregnancy goes on, and
\* those who were there have no more energy together.
Kept ==
    \A i \in Ids : creatures[i] # NoEntity /\ creatures'[i] # NoEntity => Carried(creatures[i], creatures'[i])

NotRaised ==
    EnergyIn(creatures', corpses', embryos', Entities) <= EnergyIn(creatures, corpses, embryos, Entities)

Lawful == IInv' /\ Kept /\ NotRaised

\* What the invariant needs of a step, registry by registry.
LEMMA InvariantKept ==
    ASSUME CreaturesGo, CorpsesGo, EmbryosGo, TickGoes
    PROVE  IInv' /\ Kept
<1>1. Types'
  BY DEF Types, CreaturesGo, CorpsesGo, EmbryosGo, TickGoes
<1>2. Types' => (turn' \subseteq Entities' <=> Queued')
  <2>1. (Types => (turn \subseteq Entities <=> Queued))'
    BY QueuedSays, PTL
  <2> QED BY <2>1
<1>3. halted' \/ turn' \subseteq Entities'
  BY <1>1, <1>2 DEF TickGoes
<1>4. \A i \in Ids : i <= given' => i \in 1..given'
  <2>1. given' \in Nat
    BY OrganismAssumption DEF TickGoes
  <2>2. Ids \subseteq Nat \ {0}
    BY OrganismAssumption DEF Ids
  <2> QED BY <2>1, <2>2
<1>5. (In(creatures) \cup In(corpses) \cup In(embryos))' \subseteq 1..given'
  BY <1>4 DEF In, CreaturesGo, CorpsesGo, EmbryosGo
<1>6. \A i \in In(creatures)' : Sound(creatures'[i])
  BY DEF In, CreaturesGo
<1>7. \A i \in In(embryos)' : Viable(embryos'[i])
  BY DEF In, EmbryosGo
<1>8. Populated'
  BY <1>3, <1>5, <1>6, <1>7 DEF Populated, In
<1> QED BY <1>1, <1>8 DEF IInv, Kept, CreaturesGo

\* What one id contributes to the energy of some entities.
Share(c, p, e, some, i) ==
    (IF <<"CREATURE", i>> \in some /\ c # NoEntity THEN EnergyOf(c) ELSE 0)
    + (IF <<"CORPSE", i>> \in some /\ p # NoEntity THEN p.meat ELSE 0)
    + (IF <<"EMBRYO", i>> \in some /\ e # NoEntity THEN e.energy.value ELSE 0)

\* The energy under an id is a quantity.
LEMMA ShareSays ==
    ASSUME NEW c \in Creature \cup {NoEntity}, NEW p \in Corpse \cup {NoEntity},
           NEW e \in Embryo \cup {NoEntity}, NEW some, NEW i
    PROVE  Share(c, p, e, some, i) \in Nat
<1>1. c # NoEntity => EnergyOf(c) \in Nat
  BY EnergyOfSays
<1>2. p # NoEntity => p.meat \in Nat
  BY DEF Corpse
<1>3. e # NoEntity => e.energy.value \in Nat
  BY EmbryoSays
<1> DEFINE x == IF <<"CREATURE", i>> \in some /\ c # NoEntity THEN EnergyOf(c) ELSE 0
           y == IF <<"CORPSE", i>> \in some /\ p # NoEntity THEN p.meat ELSE 0
           z == IF <<"EMBRYO", i>> \in some /\ e # NoEntity THEN e.energy.value ELSE 0
<1>4. x \in Nat /\ y \in Nat /\ z \in Nat
  BY <1>1, <1>2, <1>3
<1>5. Share(c, p, e, some, i) = x + y + z
  BY DEF Share
<1> HIDE DEF x, y, z
<1> QED BY <1>4, <1>5

\* The energy of some entities is the sum of the shares.
LEMMA EnergySums ==
    ASSUME NEW cs, NEW ps, NEW es, NEW some
    PROVE  EnergyIn(cs, ps, es, some) = Sum([i \in Ids |-> Share(cs[i], ps[i], es[i], some, i)])
  BY DEF EnergyIn, Total, Sum, Share

\* There are finitely many ids.
LEMMA IdsFinite == IsFiniteSet(Ids)
  BY OrganismAssumption, FS_Interval DEF Ids

\* The three parts of a share are compared one by one.
LEMMA SharesCompared ==
    ASSUME NEW c \in Creature \cup {NoEntity}, NEW p \in Corpse \cup {NoEntity},
           NEW e \in Embryo \cup {NoEntity},
           NEW d \in Creature \cup {NoEntity}, NEW q \in Corpse \cup {NoEntity},
           NEW f \in Embryo \cup {NoEntity}, NEW some, NEW i,
           <<"CREATURE", i>> \in some => c # NoEntity,
           <<"CORPSE", i>> \in some => p # NoEntity,
           <<"EMBRYO", i>> \in some => e # NoEntity,
           c # NoEntity /\ d # NoEntity => EnergyOf(d) <= EnergyOf(c),
           p # NoEntity /\ q # NoEntity => q.meat <= p.meat,
           e # NoEntity /\ f # NoEntity => f.energy.value <= e.energy.value
    PROVE  Share(d, q, f, some, i) <= Share(c, p, e, some, i)
<1> DEFINE x == IF <<"CREATURE", i>> \in some /\ c # NoEntity THEN EnergyOf(c) ELSE 0
           y == IF <<"CORPSE", i>> \in some /\ p # NoEntity THEN p.meat ELSE 0
           z == IF <<"EMBRYO", i>> \in some /\ e # NoEntity THEN e.energy.value ELSE 0
           u == IF <<"CREATURE", i>> \in some /\ d # NoEntity THEN EnergyOf(d) ELSE 0
           v == IF <<"CORPSE", i>> \in some /\ q # NoEntity THEN q.meat ELSE 0
           w == IF <<"EMBRYO", i>> \in some /\ f # NoEntity THEN f.energy.value ELSE 0
<1>1. /\ c # NoEntity => EnergyOf(c) \in Nat
      /\ d # NoEntity => EnergyOf(d) \in Nat
  BY EnergyOfSays
<1>2. /\ p # NoEntity => p.meat \in Nat
      /\ q # NoEntity => q.meat \in Nat
  BY DEF Corpse
<1>3. /\ e # NoEntity => e.energy.value \in Nat
      /\ f # NoEntity => f.energy.value \in Nat
  BY EmbryoSays
<1>4. x \in Nat /\ u \in Nat /\ u <= x
  BY <1>1
<1>5. y \in Nat /\ v \in Nat /\ v <= y
  BY <1>2
<1>6. z \in Nat /\ w \in Nat /\ w <= z
  BY <1>3
<1>7. Share(c, p, e, some, i) = x + y + z /\ Share(d, q, f, some, i) = u + v + w
  BY DEF Share
<1> HIDE DEF x, y, z, u, v, w
<1> QED BY <1>4, <1>5, <1>6, <1>7

\* When nobody gains energy the world has none from nothing.
LEMMA EveryonePays ==
    ASSUME IInv, CreaturesGo, CorpsesGo, EmbryosGo, CreaturesPay, CorpsesPay, EmbryosPay
    PROVE  NotRaised
<1> DEFINE f == [i \in Ids |-> Share(creatures[i], corpses[i], embryos[i], Entities, i)]
           g == [i \in Ids |-> Share(creatures'[i], corpses'[i], embryos'[i], Entities, i)]
<1>1. ASSUME NEW i \in Ids
      PROVE  /\ creatures[i] \in Creature \cup {NoEntity} /\ creatures'[i] \in Creature \cup {NoEntity}
             /\ corpses[i] \in Corpse \cup {NoEntity} /\ corpses'[i] \in Corpse \cup {NoEntity}
             /\ embryos[i] \in Embryo \cup {NoEntity} /\ embryos'[i] \in Embryo \cup {NoEntity}
  BY DEF IInv, Types, CreaturesGo, CorpsesGo, EmbryosGo
<1>2. f \in [Ids -> Nat] /\ g \in [Ids -> Nat]
  BY <1>1, ShareSays
<1>3. ASSUME NEW i \in Ids PROVE g[i] <= f[i]
  <2>1. /\ <<"CREATURE", i>> \in Entities => creatures[i] # NoEntity
        /\ <<"CORPSE", i>> \in Entities => corpses[i] # NoEntity
        /\ <<"EMBRYO", i>> \in Entities => embryos[i] # NoEntity
    BY EntitiesSay
  <2>2. /\ creatures[i] # NoEntity /\ creatures'[i] # NoEntity => EnergyOf(creatures'[i]) <= EnergyOf(creatures[i])
        /\ corpses[i] # NoEntity /\ corpses'[i] # NoEntity => corpses'[i].meat <= corpses[i].meat
        /\ embryos[i] # NoEntity /\ embryos'[i] # NoEntity => embryos'[i].energy.value <= embryos[i].energy.value
    BY DEF CreaturesPay, CorpsesPay, EmbryosPay
  <2>3. Share(creatures'[i], corpses'[i], embryos'[i], Entities, i)
          <= Share(creatures[i], corpses[i], embryos[i], Entities, i)
    BY <1>1, <2>1, <2>2, SharesCompared
  <2> QED BY <2>3
<1>4. Sum(g) <= Sum(f)
  <2> HIDE DEF f, g
  <2> QED BY <1>2, <1>3, IdsFinite, SumNotRaised
<1> QED BY <1>4, EnergySums DEF NotRaised

\* One creature takes from one corpse what it gains.
LEMMA OneTakesFromOne ==
    ASSUME IInv, CreaturesGo, CorpsesGo, EmbryosGo,
           NEW i \in Ids, NEW j \in Ids,
           creatures[i] # NoEntity, corpses[j] # NoEntity,
           creatures'[i] # NoEntity, corpses'[j] # NoEntity,
           EnergyOf(creatures'[i]) + corpses'[j].meat <= EnergyOf(creatures[i]) + corpses[j].meat,
           \A k \in Ids : k # i => creatures'[k] = creatures[k],
           \A k \in Ids : k # j => corpses'[k] = corpses[k],
           embryos' = embryos
    PROVE  NotRaised
<1> DEFINE f == [k \in Ids |-> Share(creatures[k], corpses[k], embryos[k], Entities, k)]
           g == [k \in Ids |-> Share(creatures'[k], corpses'[k], embryos'[k], Entities, k)]
           x(k) == IF creatures[k] # NoEntity THEN EnergyOf(creatures[k]) ELSE 0
           y(k) == IF corpses[k] # NoEntity THEN corpses[k].meat ELSE 0
           z(k) == IF embryos[k] # NoEntity THEN embryos[k].energy.value ELSE 0
           u(k) == IF creatures[k] # NoEntity /\ creatures'[k] # NoEntity THEN EnergyOf(creatures'[k]) ELSE 0
           v(k) == IF corpses[k] # NoEntity /\ corpses'[k] # NoEntity THEN corpses'[k].meat ELSE 0
<1>1. ASSUME NEW k \in Ids
      PROVE  /\ creatures[k] \in Creature \cup {NoEntity} /\ creatures'[k] \in Creature \cup {NoEntity}
             /\ corpses[k] \in Corpse \cup {NoEntity} /\ corpses'[k] \in Corpse \cup {NoEntity}
             /\ embryos[k] \in Embryo \cup {NoEntity} /\ embryos'[k] \in Embryo \cup {NoEntity}
  BY DEF IInv, Types, CreaturesGo, CorpsesGo, EmbryosGo
<1>2. f \in [Ids -> Nat] /\ g \in [Ids -> Nat]
  BY <1>1, ShareSays
<1>3. ASSUME NEW k \in Ids PROVE f[k] = x(k) + y(k) + z(k) /\ g[k] = u(k) + v(k) + z(k)
  BY EntitiesSay DEF Share
<1>4. ASSUME NEW k \in Ids PROVE x(k) \in Nat /\ y(k) \in Nat /\ z(k) \in Nat /\ u(k) \in Nat /\ v(k) \in Nat
  <2>1. /\ creatures[k] # NoEntity => EnergyOf(creatures[k]) \in Nat
        /\ creatures'[k] # NoEntity => EnergyOf(creatures'[k]) \in Nat
    BY <1>1, EnergyOfSays
  <2>2. \A q \in Corpse : q.meat \in Nat
    BY DEF Corpse
  <2>3. /\ corpses[k] # NoEntity => corpses[k].meat \in Nat
        /\ corpses'[k] # NoEntity => corpses'[k].meat \in Nat
    BY <1>1, <2>2
  <2>4. embryos[k] # NoEntity => embryos[k].energy.value \in Nat
    BY <1>1, EmbryoSays
  <2> QED BY <2>1, <2>3, <2>4
<1>5. \A k \in Ids : k # i => u(k) = x(k)
  OBVIOUS
<1>6. \A k \in Ids : k # j => v(k) = y(k)
  OBVIOUS
<1>7. u(i) + v(j) <= x(i) + y(j)
  OBVIOUS
<1> HIDE DEF f, g, x, y, z, u, v
<1>8. CASE i = j
  <2>1. g[i] <= f[i]
    BY <1>3, <1>4, <1>7, <1>8
  <2>2. \A k \in Ids : k # i => g[k] <= f[k]
    BY <1>2, <1>3, <1>4, <1>5, <1>6, <1>8
  <2>3. Sum(g) <= Sum(f)
    BY <1>2, <2>1, <2>2, IdsFinite, SumNotRaised
  <2> QED BY <2>3, EnergySums DEF NotRaised, f, g
<1>9. CASE i # j
  <2>1. u(j) = x(j) /\ v(i) = y(i)
    BY <1>5, <1>6, <1>9
  <2>2. g[i] + g[j] <= f[i] + f[j]
    <3>1. g[i] = u(i) + y(i) + z(i) /\ g[j] = x(j) + v(j) + z(j)
      BY <1>3, <2>1
    <3>2. f[i] = x(i) + y(i) + z(i) /\ f[j] = x(j) + y(j) + z(j)
      BY <1>3
    <3>3. \A a1, a2, a3, b1, b2, b3, c1, c2 \in Nat :
             c1 + c2 <= a1 + b2 => (c1 + a2 + a3) + (b1 + c2 + b3) <= (a1 + a2 + a3) + (b1 + b2 + b3)
      OBVIOUS
    <3>4. (u(i) + y(i) + z(i)) + (x(j) + v(j) + z(j)) <= (x(i) + y(i) + z(i)) + (x(j) + y(j) + z(j))
      BY <1>4, <1>7, <3>3
    <3> QED BY <3>1, <3>2, <3>4
  <2>3. \A k \in Ids \ {i, j} : g[k] <= f[k]
    BY <1>2, <1>3, <1>4, <1>5, <1>6
  <2>4. Sum(g) <= Sum(f)
    BY <1>2, <1>9, <2>2, <2>3, IdsFinite, SumTransferred
  <2> QED BY <2>4, EnergySums DEF NotRaised, f, g
<1> QED BY <1>8, <1>9

-----------------------------------------------------------------------------
(* Updates of one registry.                                                *)

\* A step that leaves the creatures alone.
LEMMA CreaturesStay ==
    ASSUME IInv, creatures' = creatures, given \in Nat, given' \in Nat, given <= given'
    PROVE  CreaturesGo /\ CreaturesPay
<1>1. \A i \in Ids : creatures[i] # NoEntity =>
         creatures[i] \in Creature /\ Sound(creatures[i]) /\ i <= given'
  BY RegisteredSays, OrganismAssumption DEF Ids
<1>2. \A i \in Ids : creatures[i] # NoEntity => Carried(creatures[i], creatures[i])
  BY <1>1, CarriedByTheSameOrgans
<1>3. \A i \in Ids : creatures[i] # NoEntity => EnergyOf(creatures[i]) \in Nat
  BY <1>1, EnergyOfSays
<1>4. CreaturesGo
  BY <1>1, <1>2 DEF CreaturesGo, IInv, Types
<1>5. CreaturesPay
  BY <1>3 DEF CreaturesPay
<1> QED BY <1>4, <1>5

\* One creature is added or becomes another.
LEMMA CreatureReplaced ==
    ASSUME IInv, given \in Nat, given' \in Nat, given <= given',
           NEW i \in Ids, i <= given', NEW d \in Creature, Sound(d),
           creatures' = [creatures EXCEPT ![i] = d],
           creatures[i] # NoEntity => Carried(creatures[i], d)
    PROVE  /\ CreaturesGo
           /\ (creatures[i] # NoEntity => EnergyOf(d) <= EnergyOf(creatures[i])) => CreaturesPay
<1>1. creatures \in [Ids -> Creature \cup {NoEntity}]
  BY DEF IInv, Types
<1>2. creatures' \in [Ids -> Creature \cup {NoEntity}]
  BY <1>1
<1>3. creatures'[i] = d /\ \A j \in Ids \ {i} : creatures'[j] = creatures[j]
  BY <1>1
<1>4. \A j \in Ids : creatures[j] # NoEntity =>
         creatures[j] \in Creature /\ Sound(creatures[j]) /\ j <= given'
  BY RegisteredSays, OrganismAssumption DEF Ids
<1>5. \A j \in Ids : creatures[j] # NoEntity => Carried(creatures[j], creatures[j])
  BY <1>4, CarriedByTheSameOrgans
<1>6. \A j \in Ids : creatures[j] # NoEntity => EnergyOf(creatures[j]) \in Nat
  BY <1>4, EnergyOfSays
<1>7. CreaturesGo
  BY <1>2, <1>3, <1>4, <1>5 DEF CreaturesGo
<1>8. (creatures[i] # NoEntity => EnergyOf(d) <= EnergyOf(creatures[i])) => CreaturesPay
  BY <1>3, <1>6 DEF CreaturesPay
<1> QED BY <1>7, <1>8

\* A step that removes one.
LEMMA CreatureRemoved ==
    ASSUME IInv, given' = given, NEW i \in Ids, creatures' = [creatures EXCEPT ![i] = NoEntity]
    PROVE  CreaturesGo /\ CreaturesPay
<1>1. creatures \in [Ids -> Creature \cup {NoEntity}]
  BY DEF IInv, Types
<1>2. creatures' \in [Ids -> Creature \cup {NoEntity}]
  BY <1>1
<1>3. creatures'[i] = NoEntity /\ \A j \in Ids \ {i} : creatures'[j] = creatures[j]
  BY <1>1
<1>4. \A j \in Ids : creatures[j] # NoEntity =>
         creatures[j] \in Creature /\ Sound(creatures[j]) /\ j <= given'
  BY RegisteredSays
<1>5. \A j \in Ids : creatures[j] # NoEntity => Carried(creatures[j], creatures[j])
  BY <1>4, CarriedByTheSameOrgans
<1>6. \A j \in Ids : creatures[j] # NoEntity => EnergyOf(creatures[j]) \in Nat
  BY <1>4, EnergyOfSays
<1>7. CreaturesGo
  BY <1>2, <1>3, <1>4, <1>5 DEF CreaturesGo
<1>8. CreaturesPay
  BY <1>3, <1>6 DEF CreaturesPay
<1> QED BY <1>7, <1>8

\* A step that leaves the corpses alone.
LEMMA CorpsesStay ==
    ASSUME IInv, corpses' = corpses, given \in Nat, given' \in Nat, given <= given'
    PROVE  CorpsesGo /\ CorpsesPay
<1>1. \A i \in Ids : corpses[i] # NoEntity => corpses[i].meat \in Nat /\ i <= given'
  BY RegisteredSays, OrganismAssumption DEF Ids
<1>2. CorpsesGo
  BY <1>1 DEF CorpsesGo, IInv, Types
<1>3. CorpsesPay
  BY <1>1 DEF CorpsesPay
<1> QED BY <1>2, <1>3

\* One corpse is added, shrinks or goes.
LEMMA CorpseReplaced ==
    ASSUME IInv, given \in Nat, given' \in Nat, given <= given',
           NEW i \in Ids, i <= given', NEW p \in Corpse \cup {NoEntity},
           corpses' = [corpses EXCEPT ![i] = p],
           corpses[i] # NoEntity /\ p # NoEntity => p.meat <= corpses[i].meat
    PROVE  CorpsesGo /\ CorpsesPay
<1>1. corpses \in [Ids -> Corpse \cup {NoEntity}]
  BY DEF IInv, Types
<1>2. corpses' \in [Ids -> Corpse \cup {NoEntity}]
  BY <1>1
<1>3. corpses'[i] = p /\ \A j \in Ids \ {i} : corpses'[j] = corpses[j]
  BY <1>1
<1>4. \A j \in Ids : corpses[j] # NoEntity => corpses[j].meat \in Nat /\ j <= given'
  BY RegisteredSays, OrganismAssumption DEF Ids
<1>5. CorpsesGo
  BY <1>2, <1>3, <1>4 DEF CorpsesGo
<1>6. CorpsesPay
  BY <1>3, <1>4 DEF CorpsesPay
<1> QED BY <1>5, <1>6

\* A step that leaves the embryos alone.
LEMMA EmbryosStay ==
    ASSUME IInv, embryos' = embryos, given \in Nat, given' \in Nat, given <= given'
    PROVE  EmbryosGo /\ EmbryosPay
<1>1. \A i \in Ids : embryos[i] # NoEntity => embryos[i] \in Embryo /\ Viable(embryos[i]) /\ i <= given'
  BY RegisteredSays, OrganismAssumption DEF Ids
<1>2. \A i \in Ids : embryos[i] # NoEntity => embryos[i].energy.value \in Nat
  BY <1>1, EmbryoSays
<1>3. EmbryosGo
  BY <1>1 DEF EmbryosGo, IInv, Types
<1>4. EmbryosPay
  BY <1>2 DEF EmbryosPay
<1> QED BY <1>3, <1>4

\* One embryo is added, grows or goes.
LEMMA EmbryoReplaced ==
    ASSUME IInv, given \in Nat, given' \in Nat, given <= given',
           NEW i \in Ids, i <= given', NEW e \in Embryo \cup {NoEntity},
           e # NoEntity => Viable(e),
           embryos' = [embryos EXCEPT ![i] = e],
           embryos[i] # NoEntity /\ e # NoEntity => e.energy.value <= embryos[i].energy.value
    PROVE  EmbryosGo /\ EmbryosPay
<1>1. embryos \in [Ids -> Embryo \cup {NoEntity}]
  BY DEF IInv, Types
<1>2. embryos' \in [Ids -> Embryo \cup {NoEntity}]
  BY <1>1
<1>3. embryos'[i] = e /\ \A j \in Ids \ {i} : embryos'[j] = embryos[j]
  BY <1>1
<1>4. \A j \in Ids : embryos[j] # NoEntity => embryos[j] \in Embryo /\ Viable(embryos[j]) /\ j <= given'
  BY RegisteredSays, OrganismAssumption DEF Ids
<1>5. \A j \in Ids : embryos[j] # NoEntity => embryos[j].energy.value \in Nat
  BY <1>4, EmbryoSays
<1>6. EmbryosGo
  BY <1>2, <1>3, <1>4 DEF EmbryosGo
<1>7. EmbryosPay
  BY <1>3, <1>5 DEF EmbryosPay
<1> QED BY <1>6, <1>7

\* Three registries that go and pay make a lawful step.
LEMMA LawfulParts ==
    ASSUME IInv, TickGoes, CreaturesGo, CorpsesGo, EmbryosGo, CreaturesPay, CorpsesPay, EmbryosPay
    PROVE  Lawful
  BY InvariantKept, EveryonePays DEF Lawful

-----------------------------------------------------------------------------
(* Between ticks.                                                          *)

\* A caller's call leaves no tick under way.
LEMMA CalledSays ==
    ASSUME IInv, Called, turn' = turn, halted' = halted, given' \in 0..MaxIds
    PROVE  TickGoes
<1>1. turn = {} /\ calls < Len(MaxTicks) /\ calls' = calls + 1 /\ tick' = tick
  BY DEF Called, Idle
<1>2. Len(MaxTicks) \in Nat /\ calls \in 0..Len(MaxTicks)
  BY OrganismAssumption DEF IInv, Types
<1>3. calls' \in 0..Len(MaxTicks)
  BY <1>1, <1>2
<1>4. Queued'
  BY <1>1 DEF Queued
<1> QED BY <1>1, <1>3, <1>4 DEF TickGoes, IInv, Types

\* The bound of ids and the ids.
LEMMA GivenSays ==
    ASSUME IInv
    PROVE  given \in Nat /\ given \in 0..MaxIds /\ given <= given /\ MaxIds \in Nat
           /\ Ids \subseteq Nat /\ 0..MaxIds \subseteq Nat
  BY OrganismAssumption DEF IInv, Types, Ids

\* A creature is added under a new id.
LEMMA AddCreatureLawful == ASSUME IInv, AddCreature PROVE Lawful
<1>1. PICK id \in Ids, b \in Blueprints :
         NewId(id) /\ creatures' = [creatures EXCEPT ![id] = FromBlueprint(b)]
  BY DEF AddCreature
<1>2. Called /\ corpses' = corpses /\ embryos' = embryos /\ turn' = turn /\ halted' = halted
  BY DEF AddCreature
<1>3. creatures[id] = NoEntity /\ given' \in 0..MaxIds /\ given <= given' /\ id <= given'
  BY <1>1, NewIdSays
<1>4. given \in Nat /\ given' \in Nat
  BY <1>3, GivenSays
<1>5. FromBlueprint(b) \in Creature /\ Sound(FromBlueprint(b))
  BY FromBlueprintSays
<1>6. CreaturesGo /\ CreaturesPay
  BY <1>1, <1>3, <1>4, <1>5, CreatureReplaced
<1>7. CorpsesGo /\ CorpsesPay /\ EmbryosGo /\ EmbryosPay
  BY <1>2, <1>3, <1>4, CorpsesStay, EmbryosStay
<1>8. TickGoes
  BY <1>2, <1>3, CalledSays
<1> QED BY <1>6, <1>7, <1>8, LawfulParts

\* So is a corpse, which has no more energy than whom it is made of.
LEMMA MakeCorpseLawful == ASSUME IInv, MakeCorpse PROVE Lawful
<1>1. PICK id \in Ids, x \in Entities :
         /\ NewId(id) /\ x[1] # "CORPSE"
         /\ corpses' = [corpses EXCEPT ![id] = IF x[1] = "EMBRYO" THEN CorpseOfEmbryo(At(x))
                                               ELSE CorpseOfCreature(At(x))]
  BY DEF MakeCorpse
<1>2. Called /\ creatures' = creatures /\ embryos' = embryos /\ turn' = turn /\ halted' = halted
  BY DEF MakeCorpse
<1>3. corpses[id] = NoEntity /\ given' \in 0..MaxIds /\ given <= given' /\ id <= given'
  BY <1>1, NewIdSays
<1>4. given \in Nat /\ given' \in Nat
  BY <1>3, GivenSays
<1> DEFINE p == IF x[1] = "EMBRYO" THEN CorpseOfEmbryo(At(x)) ELSE CorpseOfCreature(At(x))
<1>5. p \in Corpse
  <2>1. PICK k \in {"CREATURE", "CORPSE", "EMBRYO"}, i \in Ids : x = <<k, i>>
    BY DEF Entities
  <2>2. CASE x = <<"EMBRYO", i>>
    <3>1. At(x) \in Embryo /\ Viable(At(x))
      BY <2>2, EntitiesSay, RegisteredSays
    <3> QED BY <2>2, <3>1, CorpseOfEmbryoSays
  <2>3. CASE x = <<"CREATURE", i>>
    <3>1. At(x) \in Creature
      BY <2>3, EntitiesSay, RegisteredSays
    <3> QED BY <2>3, <3>1, CorpseOfCreatureSays
  <2> QED BY <1>1, <2>1, <2>2, <2>3
<1>6. CorpsesGo /\ CorpsesPay
  <2>1. corpses' = [corpses EXCEPT ![id] = p]
    BY <1>1
  <2> HIDE DEF p
  <2> QED BY <1>3, <1>4, <1>5, <2>1, CorpseReplaced
<1>7. CreaturesGo /\ CreaturesPay /\ EmbryosGo /\ EmbryosPay
  BY <1>2, <1>3, <1>4, CreaturesStay, EmbryosStay
<1>8. TickGoes
  BY <1>2, <1>3, CalledSays
<1> QED BY <1>6, <1>7, <1>8, LawfulParts

\* An attack takes life, and no energy.
LEMMA AttackLawful == ASSUME IInv, NEW i \in Ids, NEW j \in Ids, Attack(i, j) PROVE Lawful
<1>1. /\ Called /\ creatures[i] # NoEntity /\ creatures[j] # NoEntity
      /\ creatures' = [creatures EXCEPT ![j].life = Lose(@, Strength(creatures[i]))]
      /\ corpses' = corpses /\ embryos' = embryos /\ given' = given /\ turn' = turn /\ halted' = halted
  BY DEF Attack, In
<1>2. /\ creatures[i] \in Creature
      /\ creatures[j] \in Creature /\ Sound(creatures[j]) /\ j <= given
  BY <1>1, RegisteredSays
<1> DEFINE q == Strength(creatures[i])
           d == [creatures[j] EXCEPT !.life = Lose(@, q)]
<1>3. q \in Nat
  BY <1>2, StrengthSays
<1>4. creatures' = [creatures EXCEPT ![j] = d]
  BY <1>1
<1> HIDE DEF q
<1>5. /\ d \in Creature /\ Sound(d) /\ EnergyOf(d) = EnergyOf(creatures[j])
      /\ d.organs = creatures[j].organs
  BY <1>2, <1>3, AttackedSays
<1> HIDE DEF d
<1>6. Carried(creatures[j], d)
  BY <1>2, <1>5, CarriedByTheSameOrgans
<1>7. EnergyOf(d) <= EnergyOf(creatures[j])
  BY <1>5, EnergyOfSays
<1>8. CreaturesGo /\ CreaturesPay
  BY <1>1, <1>2, <1>4, <1>5, <1>6, <1>7, GivenSays, CreatureReplaced
<1>9. CorpsesGo /\ CorpsesPay /\ EmbryosGo /\ EmbryosPay
  BY <1>1, GivenSays, CorpsesStay, EmbryosStay
<1>10. TickGoes
  BY <1>1, GivenSays, CalledSays
<1> QED BY <1>8, <1>9, <1>10, LawfulParts

\* The energy of an embryo is what its mother's uterus is left without.
LEMMA ConceiveLawful == ASSUME IInv, NEW i \in Ids, Conceive(i) PROVE Lawful
<1>1. /\ Called /\ creatures[i] # NoEntity
      /\ creatures[i].organs # <<>> /\ ~IsPregnant(creatures[i])
      /\ corpses' = corpses /\ turn' = turn /\ halted' = halted
  BY DEF Conceive, In
<1>2. PICK id \in Ids, count \in Counts, drawn \in Counts :
         /\ creatures' = [creatures EXCEPT ![i] = Conceived(@, count, drawn, id)]
         /\ IF drawn = 0 THEN UNCHANGED <<embryos, given>>
            ELSE /\ NewId(id)
                 /\ embryos' = [embryos EXCEPT ![id] = GenerateEmbryo(creatures[i].specie)]
  BY DEF Conceive
<1>3. creatures[i] \in Creature /\ Sound(creatures[i]) /\ i <= given
  BY <1>1, RegisteredSays
<1> DEFINE d == Conceived(creatures[i], count, drawn, id)
<1>4. d \in Creature /\ Sound(d) /\ EnergyOf(d) <= EnergyOf(creatures[i])
  <2>1. count \in Nat /\ drawn \in Nat
    BY OrganismAssumption
  <2> QED BY <1>1, <1>3, <2>1, ConceivedSays
<1>5. creatures' = [creatures EXCEPT ![i] = d]
  BY <1>2
<1> HIDE DEF d
<1>6. Carried(creatures[i], d)
  BY <1>1 DEF Carried
<1>7. given' \in 0..MaxIds /\ given <= given' /\ given' \in Nat /\ given \in Nat
      /\ EmbryosGo /\ EmbryosPay
  <2>1. CASE drawn = 0
    BY <1>2, <2>1, GivenSays, EmbryosStay
  <2>2. CASE drawn # 0
    <3>1. /\ embryos[id] = NoEntity
          /\ given' \in 0..MaxIds /\ given <= given' /\ id <= given'
      BY <1>2, <2>2, NewIdSays
    <3>2. given' \in Nat /\ given \in Nat
      BY <3>1, GivenSays
    <3>3. creatures[i].specie \in Kinds
      BY <1>3 DEF Sound, CreatureOK, Kinds
    <3> DEFINE e == GenerateEmbryo(creatures[i].specie)
    <3>4. e \in Embryo /\ Viable(e)
      BY <3>3, GenerateEmbryoSays
    <3>5. embryos' = [embryos EXCEPT ![id] = e]
      BY <1>2, <2>2
    <3> HIDE DEF e
    <3>6. EmbryosGo /\ EmbryosPay
      BY <3>1, <3>2, <3>4, <3>5, EmbryoReplaced
    <3> QED BY <3>1, <3>2, <3>6
  <2> QED BY <2>1, <2>2
<1>8. CreaturesGo /\ CreaturesPay
  <2>1. i <= given'
    BY <1>3, <1>7, GivenSays
  <2> QED BY <1>3, <1>4, <1>5, <1>6, <1>7, <2>1, CreatureReplaced
<1>9. CorpsesGo /\ CorpsesPay
  BY <1>1, <1>7, CorpsesStay
<1>10. TickGoes
  BY <1>1, <1>7, CalledSays
<1> QED BY <1>7, <1>8, <1>9, <1>10, LawfulParts

\* A creature hatches with the energy of its embryo, under the same id.
LEMMA HatchLawful == ASSUME IInv, NEW i \in Ids, Hatch(i) PROVE Lawful
<1>1. /\ Called /\ embryos[i] # NoEntity /\ creatures[i] = NoEntity
      /\ creatures' = [creatures EXCEPT ![i] = HatchEmbryo(embryos[i])]
      /\ embryos' \in {embryos, [embryos EXCEPT ![i] = NoEntity]}
      /\ corpses' = corpses /\ given' = given /\ turn' = turn /\ halted' = halted
  BY DEF Hatch, In
<1>2. embryos[i] \in Embryo /\ Viable(embryos[i]) /\ i <= given
  BY <1>1, RegisteredSays
<1>3. HatchEmbryo(embryos[i]) \in Creature /\ Sound(HatchEmbryo(embryos[i]))
  BY <1>2, HatchSays
<1>4. CreaturesGo /\ CreaturesPay
  BY <1>1, <1>2, <1>3, GivenSays, CreatureReplaced
<1>5. CorpsesGo /\ CorpsesPay
  BY <1>1, GivenSays, CorpsesStay
<1>6. EmbryosGo /\ EmbryosPay
  <2>1. CASE embryos' = embryos
    BY <1>1, <2>1, GivenSays, EmbryosStay
  <2>2. CASE embryos' = [embryos EXCEPT ![i] = NoEntity]
    <3> DEFINE e == NoEntity
    <3>1. e \in Embryo \cup {NoEntity} /\ e = NoEntity
      OBVIOUS
    <3>2. embryos' = [embryos EXCEPT ![i] = e]
      BY <2>2
    <3> HIDE DEF e
    <3> QED BY <1>1, <1>2, <3>1, <3>2, GivenSays, EmbryoReplaced
  <2> QED BY <1>1, <2>1, <2>2
<1>7. TickGoes
  BY <1>1, GivenSays, CalledSays
<1> QED BY <1>4, <1>5, <1>6, <1>7, LawfulParts

\* A tick begins with all there are.
LEMMA BeginTickLawful == ASSUME IInv, BeginTick PROVE Lawful
<1>1. /\ tick' = tick + 1 /\ turn' = Entities
      /\ creatures' = creatures /\ corpses' = corpses /\ embryos' = embryos
      /\ given' = given /\ calls' = calls /\ halted' = halted
  BY DEF BeginTick
<1>2. /\ CreaturesGo /\ CreaturesPay /\ CorpsesGo /\ CorpsesPay /\ EmbryosGo /\ EmbryosPay
  BY <1>1, GivenSays, CreaturesStay, CorpsesStay, EmbryosStay
<1>3. turn' \in SUBSET ({"CREATURE", "CORPSE", "EMBRYO"} \X Ids)
  BY <1>1 DEF Entities
<1>4. Queued'
  BY <1>1, EntitiesSay DEF Queued
<1>5. TickGoes
  BY <1>1, <1>3, <1>4 DEF TickGoes, IInv, Types
<1> QED BY <1>2, <1>5, LawfulParts

-----------------------------------------------------------------------------
(* One entity's run.                                                       *)

\* The tick goes on as long as the run leaves the others in their registries.
LEMMA DoneSays ==
    ASSUME IInv, NEW x, Runs(x), Done(x),
           \A i \in Ids : <<"CREATURE", i>> # x /\ creatures[i] # NoEntity => creatures'[i] # NoEntity,
           \A i \in Ids : <<"CORPSE", i>> # x /\ corpses[i] # NoEntity => corpses'[i] # NoEntity,
           \A i \in Ids : <<"EMBRYO", i>> # x /\ embryos[i] # NoEntity => embryos'[i] # NoEntity
    PROVE  TickGoes
<1>1. /\ ~halted /\ given' = given /\ tick' = tick /\ calls' = calls
      /\ turn' = turn \ {x} /\ halted' = halted
  BY DEF Runs, Done
<1>2. Types /\ turn \subseteq Entities
  BY <1>1 DEF IInv, Populated
<1>3. Queued
  BY <1>2, QueuedSays
<1>4. Queued'
  BY <1>1, <1>3 DEF Queued
<1> QED BY <1>1, <1>2, <1>4 DEF TickGoes, Types

\* A tick that is cut short has nothing left to run.
LEMMA ThrowsSays == ASSUME IInv, NEW x, Runs(x), Throws PROVE TickGoes
<1>1. /\ given' = given /\ tick' = tick /\ calls' = calls
      /\ turn' = {} /\ halted' = halted
  BY DEF Runs, Throws
<1>2. Queued'
  BY <1>1 DEF Queued
<1> QED BY <1>1, <1>2 DEF TickGoes, IInv, Types

\* An exception leaves the queue as it is.
LEMMA HaltedSays == ASSUME IInv, NEW x, Runs(x), turn' = turn, halted' = TRUE PROVE TickGoes
<1>1. given' = given /\ tick' = tick /\ calls' = calls
  BY DEF Runs
<1> QED BY <1>1 DEF TickGoes, IInv, Types

\* The id of what runs is that of an entity in its registry.
LEMMA RunningSays ==
    ASSUME IInv, NEW i \in Ids
    PROVE  /\ Runs(<<"CREATURE", i>>) =>
                 /\ creatures[i] # NoEntity /\ creatures[i] \in Creature /\ Sound(creatures[i])
                 /\ i <= given /\ given' = given
           /\ Runs(<<"CORPSE", i>>) =>
                 corpses[i] # NoEntity /\ corpses[i] \in Corpse /\ i <= given /\ given' = given
           /\ Runs(<<"EMBRYO", i>>) =>
                 /\ embryos[i] # NoEntity /\ embryos[i] \in Embryo /\ Viable(embryos[i])
                 /\ i <= given /\ given' = given
<1>1. \A x : Runs(x) => x \in Entities /\ given' = given
  BY DEF Runs, IInv, Populated
<1> QED BY <1>1, EntitiesSay, RegisteredSays

\* What is left of a corpse is one.
LEMMA RestSays ==
    ASSUME IInv, NEW j \in Ids, corpses[j] # NoEntity, NEW meat \in 0..corpses[j].meat,
           corpses' = [corpses EXCEPT ![j].meat = meat], given' = given
    PROVE  /\ corpses'[j] # NoEntity /\ corpses'[j].meat = meat
           /\ \A k \in Ids : k # j => corpses'[k] = corpses[k]
           /\ CorpsesGo /\ CorpsesPay
<1>1. corpses[j] \in Corpse /\ corpses[j].meat \in Nat /\ j <= given
  BY RegisteredSays
<1> DEFINE p == [corpses[j] EXCEPT !.meat = meat]
<1>2. p \in Corpse /\ p.meat = meat
  BY <1>1 DEF Corpse
<1>3. corpses' = [corpses EXCEPT ![j] = p]
  OBVIOUS
<1>4. corpses \in [Ids -> Corpse \cup {NoEntity}]
  BY DEF IInv, Types
<1> HIDE DEF p
<1>5. NoEntity \notin Corpse
  BY OrganismAssumption DEF Corpse
<1>6. corpses'[j] = p /\ \A k \in Ids : k # j => corpses'[k] = corpses[k]
  BY <1>3, <1>4
<1>7. p.meat <= corpses[j].meat
  BY <1>1, <1>2
<1>8. CorpsesGo /\ CorpsesPay
  BY <1>1, <1>2, <1>3, <1>7, GivenSays, CorpseReplaced
<1> QED BY <1>2, <1>5, <1>6, <1>8

\* A creature that has lived and thought is the one it was, with no more energy.
Aged(i, c) ==
    /\ c \in Creature /\ Sound(c)
    /\ Carried(creatures[i], c)
    /\ EnergyOf(c) <= EnergyOf(creatures[i])

\* Both creatures a turn computes are within their limits and richer by nothing.
LEMMA AgedSays ==
    ASSUME IInv, NEW i \in Ids, Runs(<<"CREATURE", i>>), NEW hungry
    PROVE  Aged(i, Lived(creatures[i])) /\ Aged(i, Think(Lived(creatures[i]), hungry))
<1>1. creatures[i] \in Creature /\ Sound(creatures[i])
  BY RunningSays
<1> DEFINE lived == Lived(creatures[i])
           c == Think(lived, hungry)
<1>2. /\ lived \in Creature /\ Sound(lived)
      /\ EnergyOf(lived) <= EnergyOf(creatures[i])
      /\ lived.specie = creatures[i].specie /\ Carried(creatures[i], lived)
  BY <1>1, LivedSays
<1> HIDE DEF lived
<1>3. /\ c \in Creature /\ Sound(c) /\ EnergyOf(c) = EnergyOf(lived)
      /\ c.specie = lived.specie /\ c.organs = lived.organs
  BY <1>2, ThinkSays
<1> HIDE DEF c
<1>4. Carried(creatures[i], c)
  BY <1>2, <1>3 DEF Carried, IsPregnant, Pregnancy
<1> QED BY <1>2, <1>3, <1>4 DEF Aged, lived, c

\* The creature's run when it only changes itself.
LEMMA AloneLawful ==
    ASSUME IInv, NEW i \in Ids, Runs(<<"CREATURE", i>>), NEW c, Aged(i, c),
           creatures' = [creatures EXCEPT ![i] = c], corpses' = corpses, embryos' = embryos,
           Done(<<"CREATURE", i>>) \/ Throws
    PROVE  Lawful
<1>1. i <= given /\ given' = given
  BY RunningSays
<1>2. CreaturesGo /\ CreaturesPay
  BY <1>1, GivenSays, CreatureReplaced DEF Aged
<1>3. CorpsesGo /\ CorpsesPay /\ EmbryosGo /\ EmbryosPay
  BY <1>1, GivenSays, CorpsesStay, EmbryosStay
<1>4. TickGoes
  <2>1. \A k \in Ids : <<"CREATURE", k>> # <<"CREATURE", i>> => creatures'[k] = creatures[k]
    BY DEF IInv, Types
  <2> QED BY <2>1, DoneSays, ThrowsSays
<1> QED BY <1>2, <1>3, <1>4, LawfulParts

\* A move changes a position at most.
LEMMA MoveLawful ==
    ASSUME IInv, NEW i \in Ids, Runs(<<"CREATURE", i>>), NEW c, Aged(i, c), NEW place,
           Move(i, c, place), embryos' = embryos, Done(<<"CREATURE", i>>)
    PROVE  Lawful
<1>1. CASE creatures' = [creatures EXCEPT ![i] = c]
  BY <1>1, AloneLawful DEF Move
<1>2. CASE place \in -Half..Half /\ creatures' = [creatures EXCEPT ![i] = [c EXCEPT !.position = place]]
  <2> DEFINE d == [c EXCEPT !.position = place]
  <2>1. d \in Creature /\ Sound(d) /\ EnergyOf(d) = EnergyOf(c) /\ d.organs = c.organs
    BY <1>2, MovedSays DEF Aged
  <2>2. creatures' = [creatures EXCEPT ![i] = d] /\ corpses' = corpses
    BY <1>2 DEF Move
  <2> HIDE DEF d
  <2>3. Carried(creatures[i], d)
    BY <2>1 DEF Aged, Carried, IsPregnant, Pregnancy
  <2>4. Aged(i, d)
    BY <2>1, <2>3 DEF Aged
  <2> QED BY <2>2, <2>4, AloneLawful
<1> QED BY <1>1, <1>2 DEF Move

\* A meal moves energy from a corpse to a creature.
LEMMA EatLawful ==
    ASSUME IInv, NEW i \in Ids, Runs(<<"CREATURE", i>>), NEW c, Aged(i, c),
           NEW x \in Candidates(Perceive(c)), Eat(i, c, x), embryos' = embryos, Done(<<"CREATURE", i>>)
    PROVE  Lawful
<1>1. creatures[i] # NoEntity /\ creatures[i] \in Creature /\ i <= given /\ given' = given
  BY RunningSays
<1>2. PICK j \in Ids : x[2] = j /\ corpses[j] # NoEntity
  BY CandidatesSay
<1>3. corpses[j] \in Corpse /\ corpses[j].meat \in Nat
  BY <1>2, RegisteredSays
<1> DEFINE meat == corpses[j].meat
           d == Fed(c, meat)
           rest == Left(c, meat)
<1>4. /\ d \in Creature /\ Sound(d) /\ d.organs = c.organs /\ rest \in Nat
      /\ EnergyOf(d) + rest = EnergyOf(c) + meat
  BY <1>3, FedSays DEF Aged
<1>5. rest \in 0..meat
  BY <1>3, LeftSays DEF Aged
<1>6. creatures' = [creatures EXCEPT ![i] = d] /\ corpses' = [corpses EXCEPT ![j].meat = rest]
  BY <1>2 DEF Eat
<1> HIDE DEF d, rest
<1>7. Carried(creatures[i], d)
  BY <1>4 DEF Aged, Carried, IsPregnant, Pregnancy
<1>8. /\ corpses'[j] # NoEntity /\ corpses'[j].meat = rest
      /\ \A k \in Ids : k # j => corpses'[k] = corpses[k]
      /\ CorpsesGo /\ CorpsesPay
  BY <1>1, <1>2, <1>5, <1>6, RestSays
<1>9. CreaturesGo /\ (EnergyOf(d) <= EnergyOf(creatures[i]) => CreaturesPay)
  BY <1>1, <1>4, <1>6, <1>7, GivenSays, CreatureReplaced
<1>10. EmbryosGo /\ EmbryosPay
  BY <1>1, GivenSays, EmbryosStay
<1>11. creatures'[i] = d /\ \A k \in Ids : k # i => creatures'[k] = creatures[k]
  BY <1>6 DEF IInv, Types
<1>12. TickGoes
  <2>1. \A k \in Ids : <<"CREATURE", k>> # <<"CREATURE", i>> => creatures'[k] = creatures[k]
    BY <1>11
  <2>2. \A k \in Ids : corpses[k] # NoEntity => corpses'[k] # NoEntity
    BY <1>8
  <2> QED BY <2>1, <2>2, DoneSays
<1>13. NotRaised
  <2>1. CASE d = NoEntity
    <3>1. CreaturesPay
      <4>1. \A k \in Ids : creatures[k] # NoEntity => EnergyOf(creatures[k]) \in Nat
        BY RegisteredSays, EnergyOfSays
      <4> QED BY <1>11, <2>1, <4>1 DEF CreaturesPay
    <3> QED BY <1>8, <1>9, <1>10, <3>1, EveryonePays
  <2>2. CASE d # NoEntity
    <3>1. EnergyOf(creatures'[i]) + corpses'[j].meat <= EnergyOf(creatures[i]) + corpses[j].meat
      <4>1. EnergyOf(d) \in Nat /\ EnergyOf(c) \in Nat /\ EnergyOf(creatures[i]) \in Nat
        BY <1>1, <1>4, EnergyOfSays DEF Aged
      <4>2. EnergyOf(c) <= EnergyOf(creatures[i])
        BY DEF Aged
      <4>3. \A p, q, r, s, t \in Nat : p + q = r + s /\ r <= t => p + q <= t + s
        OBVIOUS
      <4>4. EnergyOf(d) + rest <= EnergyOf(creatures[i]) + meat
        BY <1>3, <1>4, <4>1, <4>2, <4>3
      <4> QED BY <1>8, <1>11, <4>4
    <3> QED BY <1>1, <1>2, <1>8, <1>9, <1>10, <1>11, <2>2, <3>1, OneTakesFromOne
  <2> QED BY <2>1, <2>2
<1> QED BY <1>8, <1>9, <1>10, <1>12, <1>13, InvariantKept DEF Lawful

\* The turn of a living creature: it lives, and then moves, eats, rests or throws.
LEMMA RunCreatureLawful == ASSUME IInv, NEW i \in Ids, RunCreature(i) PROVE Lawful
<1> DEFINE lived == Lived(creatures[i])
<1>1. Runs(<<"CREATURE", i>>) /\ embryos' = embryos
  BY DEF RunCreature
<1>2. CASE Perceivable(lived)
  <2>1. PICK hungry \in Hungers :
           LET c == Think(lived, hungry) IN
           \/ (DoNothing(i, c) \/ FindFood(i, c)) /\ Done(<<"CREATURE", i>>)
           \/ /\ creatures' = [creatures EXCEPT ![i] = c] /\ UNCHANGED corpses
              /\ Throws
    BY <1>2 DEF RunCreature
  <2> DEFINE c == Think(lived, hungry)
  <2>2. Aged(i, c)
    BY <1>1, AgedSays
  <2>3. \/ (DoNothing(i, c) \/ FindFood(i, c)) /\ Done(<<"CREATURE", i>>)
        \/ creatures' = [creatures EXCEPT ![i] = c] /\ corpses' = corpses /\ Throws
    BY <2>1
  <2> HIDE DEF c
  <2>4. CASE DoNothing(i, c) /\ Done(<<"CREATURE", i>>)
    <3>1. CASE creatures' = [creatures EXCEPT ![i] = c] /\ UNCHANGED corpses
      BY <1>1, <2>2, <2>4, <3>1, AloneLawful
    <3>2. CASE Move(i, c, c.position + One)
      BY <1>1, <2>2, <2>4, <3>2, MoveLawful
    <3> QED BY <2>4, <3>1, <3>2 DEF DoNothing
  <2>5. CASE FindFood(i, c) /\ Done(<<"CREATURE", i>>)
    <3>1. PICK x \in Candidates(Perceive(c)) :
             Eat(i, c, x) \/ \E place \in Places \ {c.position} : Move(i, c, place)
      BY <2>5 DEF FindFood
    <3> QED BY <1>1, <2>2, <2>5, <3>1, EatLawful, MoveLawful
  <2>6. CASE creatures' = [creatures EXCEPT ![i] = c] /\ corpses' = corpses /\ Throws
    BY <1>1, <2>2, <2>6, AloneLawful
  <2> QED BY <2>3, <2>4, <2>5, <2>6
<1>3. CASE ~Perceivable(lived)
  <2>1. creatures' = [creatures EXCEPT ![i] = lived] /\ corpses' = corpses /\ Throws
    BY <1>3 DEF RunCreature
  <2>2. Aged(i, lived)
    BY <1>1, AgedSays
  <2> HIDE DEF lived
  <2> QED BY <1>1, <2>1, <2>2, AloneLawful
<1> QED BY <1>2, <1>3

\* The turn of a dead one, which is removed.
LEMMA RunDeadCreatureLawful == ASSUME IInv, NEW i \in Ids, RunDeadCreature(i) PROVE Lawful
<1>1. /\ Runs(<<"CREATURE", i>>) /\ embryos' = embryos
      /\ creatures' = [creatures EXCEPT ![i] = NoEntity]
  BY DEF RunDeadCreature
<1>2. creatures[i] \in Creature /\ given' = given
  BY <1>1, RunningSays
<1>3. CreaturesGo /\ CreaturesPay /\ EmbryosGo /\ EmbryosPay
  BY <1>1, <1>2, GivenSays, CreatureRemoved, EmbryosStay
<1>4. \A k \in Ids : <<"CREATURE", k>> # <<"CREATURE", i>> => creatures'[k] = creatures[k]
  BY <1>1 DEF IInv, Types
<1>5. CASE corpses' = corpses /\ (Done(<<"CREATURE", i>>) \/ Throws \/ (turn' = turn /\ halted' = TRUE))
  <2>1. CorpsesGo /\ CorpsesPay
    BY <1>2, <1>5, GivenSays, CorpsesStay
  <2>2. TickGoes
    BY <1>1, <1>4, <1>5, DoneSays, ThrowsSays, HaltedSays
  <2> QED BY <1>3, <2>1, <2>2, LawfulParts
<1>6. CASE /\ \E y \in Candidates(Perceive(creatures[i])) :
                 corpses' = [corpses EXCEPT ![y[2]].meat = Left(creatures[i], @)]
           /\ Done(<<"CREATURE", i>>)
  <2>1. PICK j \in Ids : /\ corpses[j] # NoEntity
                         /\ corpses' = [corpses EXCEPT ![j].meat = Left(creatures[i], @)]
    BY <1>6, CandidatesSay
  <2>2. corpses[j].meat \in Nat
    BY <2>1, RegisteredSays
  <2> DEFINE rest == Left(creatures[i], corpses[j].meat)
  <2>3. rest \in 0..corpses[j].meat
    BY <1>2, <2>2, LeftSays
  <2>4. corpses' = [corpses EXCEPT ![j].meat = rest]
    BY <2>1
  <2> HIDE DEF rest
  <2>5. /\ corpses'[j] # NoEntity /\ \A k \in Ids : k # j => corpses'[k] = corpses[k]
        /\ CorpsesGo /\ CorpsesPay
    BY <1>2, <2>1, <2>3, <2>4, RestSays
  <2>6. \A k \in Ids : corpses[k] # NoEntity => corpses'[k] # NoEntity
    BY <2>5
  <2>7. TickGoes
    BY <1>1, <1>4, <1>6, <2>6, DoneSays
  <2> QED BY <1>3, <2>5, <2>7, LawfulParts
<1> QED BY <1>5, <1>6 DEF RunDeadCreature

\* The turn of an embryo: it grows, or is removed.
LEMMA RunEmbryoLawful == ASSUME IInv, NEW i \in Ids, RunEmbryo(i) PROVE Lawful
<1>1. Runs(<<"EMBRYO", i>>) /\ creatures' = creatures /\ corpses' = corpses
  BY DEF RunEmbryo
<1>2. embryos[i] \in Embryo /\ Viable(embryos[i]) /\ i <= given /\ given' = given
  BY <1>1, RunningSays
<1>3. CreaturesGo /\ CreaturesPay /\ CorpsesGo /\ CorpsesPay
  BY <1>1, <1>2, GivenSays, CreaturesStay, CorpsesStay
<1> DEFINE d == IF IsDead(embryos[i]) THEN NoEntity ELSE [GrowEmbryo(embryos[i]) EXCEPT !.age = @ + 1]
<1>4. /\ embryos' = [embryos EXCEPT ![i] = d]
      /\ Done(<<"EMBRYO", i>>) \/ (turn' = turn /\ halted' = TRUE)
  <2>1. CASE IsDead(embryos[i])
    BY <2>1 DEF RunEmbryo
  <2>2. CASE ~IsDead(embryos[i])
    <3> DEFINE grown == [GrowEmbryo(embryos[i]) EXCEPT !.age = @ + 1]
    <3>1. embryos' = [embryos EXCEPT ![i] = grown]
      BY <2>2 DEF RunEmbryo
    <3>2. Done(<<"EMBRYO", i>>)
      BY <2>2 DEF RunEmbryo
    <3>3. d = grown
      BY <2>2
    <3> HIDE DEF d, grown
    <3> QED BY <3>1, <3>2, <3>3
  <2> QED BY <2>1, <2>2
<1>5. /\ d \in Embryo \cup {NoEntity}
      /\ d # NoEntity => Viable(d) /\ d.energy.value <= embryos[i].energy.value
  BY <1>2, GrowEmbryoSays
<1> HIDE DEF d
<1>6. EmbryosGo /\ EmbryosPay
  BY <1>2, <1>4, <1>5, GivenSays, EmbryoReplaced
<1>7. \A k \in Ids : <<"EMBRYO", k>> # <<"EMBRYO", i>> => embryos'[k] = embryos[k]
  BY <1>4 DEF IInv, Types
<1>8. TickGoes
  BY <1>1, <1>4, <1>7, DoneSays, HaltedSays
<1> QED BY <1>3, <1>6, <1>8, LawfulParts

\* The turn of a corpse.
LEMMA RunCorpseLawful == ASSUME IInv, NEW i \in Ids, RunCorpse(i) PROVE Lawful
<1>1. /\ Runs(<<"CORPSE", i>>) /\ Done(<<"CORPSE", i>>)
      /\ creatures' = creatures /\ embryos' = embryos
  BY DEF RunCorpse
<1>2. corpses[i] # NoEntity /\ corpses[i] \in Corpse /\ i <= given /\ given' = given
  BY <1>1, RunningSays
<1>3. corpses[i].meat \in Nat
  BY <1>2, RegisteredSays
<1> DEFINE meat == corpses[i].meat \div 10
           p == IF meat = 0 THEN NoEntity ELSE [corpses[i] EXCEPT !.meat = meat]
<1>4. meat \in Nat /\ meat <= corpses[i].meat
  <2>1. \A m \in Nat : m \div 10 \in Nat /\ m \div 10 <= m
    BY SMT
  <2> QED BY <1>3, <2>1
<1>5. corpses' = [corpses EXCEPT ![i] = p]
  BY DEF RunCorpse
<1> HIDE DEF meat
<1>6. p \in Corpse \cup {NoEntity} /\ (p # NoEntity => p.meat <= corpses[i].meat)
  <2>1. [corpses[i] EXCEPT !.meat = meat] \in Corpse /\ [corpses[i] EXCEPT !.meat = meat].meat = meat
    BY <1>2, <1>4 DEF Corpse
  <2> QED BY <1>4, <2>1
<1> HIDE DEF p
<1>7. CorpsesGo /\ CorpsesPay
  BY <1>2, <1>5, <1>6, GivenSays, CorpseReplaced
<1>8. CreaturesGo /\ CreaturesPay /\ EmbryosGo /\ EmbryosPay
  BY <1>1, <1>2, GivenSays, CreaturesStay, EmbryosStay
<1>9. \A k \in Ids : <<"CORPSE", k>> # <<"CORPSE", i>> => corpses'[k] = corpses[k]
  BY <1>5 DEF IInv, Types
<1>10. TickGoes
  BY <1>1, <1>9, DoneSays
<1> QED BY <1>7, <1>8, <1>10, LawfulParts

\* No step at all.
LEMMA StutterLawful == ASSUME IInv, UNCHANGED vars PROVE Lawful
<1>1. /\ creatures' = creatures /\ corpses' = corpses /\ embryos' = embryos /\ given' = given
      /\ turn' = turn /\ tick' = tick /\ calls' = calls /\ halted' = halted
  BY DEF vars
<1>2. CreaturesGo /\ CreaturesPay /\ CorpsesGo /\ CorpsesPay /\ EmbryosGo /\ EmbryosPay
  BY <1>1, GivenSays, CreaturesStay, CorpsesStay, EmbryosStay
<1>3. halted \/ Queued
  BY QueuedSays DEF IInv, Populated
<1>4. halted' \/ Queued'
  BY <1>1, <1>3 DEF Queued
<1>5. TickGoes
  BY <1>1, <1>4 DEF TickGoes, IInv, Types
<1> QED BY <1>2, <1>5, LawfulParts

\* Every step.
LEMMA NextLawful == ASSUME IInv, [Next]_vars PROVE Lawful
<1>1. CASE AddCreature \/ MakeCorpse \/ BeginTick
  BY <1>1, AddCreatureLawful, MakeCorpseLawful, BeginTickLawful
<1>2. CASE \E i, j \in Ids : Attack(i, j)
  BY <1>2, AttackLawful
<1>3. CASE \E i \in Ids : Conceive(i) \/ Hatch(i)
  BY <1>3, ConceiveLawful, HatchLawful
<1>4. CASE \E i \in Ids : RunCreature(i) \/ RunDeadCreature(i) \/ RunEmbryo(i) \/ RunCorpse(i)
  BY <1>4, RunCreatureLawful, RunDeadCreatureLawful, RunEmbryoLawful, RunCorpseLawful
<1>5. CASE UNCHANGED vars
  BY <1>5, StutterLawful
<1> QED BY <1>1, <1>2, <1>3, <1>4, <1>5 DEF Next

-----------------------------------------------------------------------------
(* What follows for every behaviour.                                       *)

\* The initial states.
LEMMA InitSound == Init => IInv
<1> SUFFICES ASSUME Init PROVE IInv
  OBVIOUS
<1>1. /\ \A i \in Ids : creatures[i] = NoEntity /\ corpses[i] = NoEntity /\ embryos[i] = NoEntity
      /\ given = 0 /\ turn = {} /\ tick = 0 /\ calls = 0 /\ halted = FALSE
  BY DEF Init
<1>2. MaxIds \in Nat /\ Len(MaxTicks) \in Nat
  BY OrganismAssumption
<1>3. Types
  <2>1. /\ creatures \in [Ids -> Creature \cup {NoEntity}]
        /\ corpses \in [Ids -> Corpse \cup {NoEntity}]
        /\ embryos \in [Ids -> Embryo \cup {NoEntity}]
    BY DEF Init
  <2>2. given \in 0..MaxIds /\ calls \in 0..Len(MaxTicks) /\ tick \in Nat /\ halted \in BOOLEAN
    <3>1. 0 \in 0..MaxIds /\ 0 \in 0..Len(MaxTicks)
      BY <1>2
    <3> QED BY <1>1, <3>1
  <2> QED BY <1>1, <2>1, <2>2 DEF Types
<1>4. In(creatures) = {} /\ In(corpses) = {} /\ In(embryos) = {}
  BY <1>1 DEF In
<1>5. Populated
  BY <1>1, <1>4 DEF Populated
<1> QED BY <1>3, <1>5 DEF IInv

\* Every behaviour keeps the types, the limits of what it creates, the ids
\* given, and the tick's queue in the registry.
THEOREM Invariance == Spec => []IInv
<1>1. Init => IInv
  BY InitSound
<1>2. IInv /\ [Next]_vars => IInv'
  BY NextLawful DEF Lawful
<1> QED BY <1>1, <1>2, PTL DEF Spec

\* Nothing a creature goes through takes a store outside its limits.
THEOREM LimitsHold == Spec => []WithinLimits
<1>1. ASSUME IInv PROVE WithinLimits
  <2>1. \A i \in In(creatures) : CreatureOK(creatures[i])
    BY <1>1 DEF IInv, Populated, Sound
  <2>2. ASSUME NEW i \in In(embryos)
        PROVE  IsLimited(embryos[i].energy) /\ IsLimited(embryos[i].life) /\ embryos[i].health \in 0..One
    <3>1. i \in Ids /\ embryos[i] # NoEntity
      BY DEF In
    <3> QED BY <1>1, <3>1, RegisteredSays, EmbryoSays
  <2>3. \A i \in In(corpses) : corpses[i].meat \in Nat
    BY <1>1, RegisteredSays DEF In
  <2>4. halted \/ turn \subseteq Entities
    BY <1>1 DEF IInv, Populated
  <2>5. tick \in Nat /\ calls \in 0..Len(MaxTicks) /\ halted \in BOOLEAN
    BY <1>1 DEF IInv, Types
  <2> QED BY <2>1, <2>2, <2>3, <2>4, <2>5 DEF WithinLimits
<1> QED BY <1>1, Invariance, PTL

\* No embryo of a viviparous mother lives to half of her gestation.
THEOREM CalvesStarve == Spec => []EmbryoStarves
<1>1. ASSUME IInv PROVE EmbryoStarves
  <2> SUFFICES ASSUME NEW i \in In(embryos), Genes(embryos[i]).reproductive.viviparous
               PROVE  embryos[i].age < Genes(embryos[i]).reproductive.gestation_limit \div 2
    BY DEF EmbryoStarves
  <2>1. i \in Ids /\ embryos[i] # NoEntity
    BY DEF In
  <2>2. embryos[i] \in Embryo /\ Viable(embryos[i])
    BY <1>1, <2>1, RegisteredSays
  <2>3. embryos[i].specie \in Species
    BY <2>2, EmbryoSays
  <2>4. /\ ~Crab.creature.reproductive.viviparous
        /\ ~Fish.creature.reproductive.viviparous
        /\ ~Crocodile.creature.reproductive.viviparous
    BY SMT DEF Crab, Fish, Crocodile
  <2>5. embryos[i].specie = "HIPPOPOTAMUS"
    BY <2>3, <2>4, DatabaseSays DEF Genes, Species
  <2>6. Genes(embryos[i]).reproductive.gestation_limit = 8
    <3>1. Hippopotamus.creature.reproductive.gestation_limit = 8
      BY SMT DEF Hippopotamus
    <3> QED BY <2>5, <3>1, DatabaseSays DEF Genes
  <2>7. embryos[i].age \in 0..3
    <3>1. \A e \in Calves : e.age \in 0..3
      BY DEF Calves, Calf
    <3> QED BY <2>2, <2>5, <3>1 DEF Viable
  <2> QED BY <2>6, <2>7
<1> QED BY <1>1, Invariance, PTL

\* A pregnancy never ends, and never loses an embryo.
THEOREM PregnanciesGoOn == Spec => PregnancyNeverEnds
<1>1. ASSUME IInv, [Next]_vars
      PROVE  \A i \in In(creatures) : IsPregnant(creatures[i]) /\ creatures'[i] # NoEntity =>
                /\ IsPregnant(creatures'[i])
                /\ Pregnancy(creatures'[i]).embryos = Pregnancy(creatures[i]).embryos
                /\ Pregnancy(creatures'[i]).gestation.value
                     \in Pregnancy(creatures[i]).gestation.value..Genes(creatures[i]).reproductive.gestation_limit
  <2>1. Kept
    BY <1>1, NextLawful DEF Lawful
  <2> QED BY <2>1 DEF Kept, Carried, In
<1> QED BY <1>1, Invariance, PTL DEF Spec, PregnancyNeverEnds

\* Those in the world never have more energy together than before.
THEOREM EnergyNeverRises == Spec => NoEnergyFromNothing
<1>1. ASSUME IInv, [Next]_vars
      PROVE  EnergyIn(creatures', corpses', embryos', Entities) <= EnergyIn(creatures, corpses, embryos, Entities)
  BY <1>1, NextLawful DEF Lawful, NotRaised
<1> QED BY <1>1, Invariance, PTL DEF Spec, NoEnergyFromNothing

-----------------------------------------------------------------------------
(* What cuts a tick short.                                                 *)

\* What the creature in its turn sees, it sees from where it was.
LEMMA ThinkerSays ==
    ASSUME IInv, NEW i \in Ids, Runs(<<"CREATURE", i>>), NEW hungry
    PROVE  LET lived == Lived(creatures[i])
               c == Think(lived, hungry)
           IN  /\ lived.position = creatures[i].position /\ lived.specie = creatures[i].specie
               /\ c.position = creatures[i].position /\ c.specie = creatures[i].specie
<1>1. creatures[i] \in Creature /\ Sound(creatures[i])
  BY RunningSays
<1> DEFINE lived == Lived(creatures[i])
           c == Think(lived, hungry)
<1>2. /\ lived \in Creature /\ Sound(lived)
      /\ lived.specie = creatures[i].specie /\ lived.position = creatures[i].position
  BY <1>1, LivedSays
<1> HIDE DEF lived
<1>3. c.specie = lived.specie /\ c.position = lived.position
  BY <1>2, ThinkSays
<1> QED BY <1>2, <1>3 DEF lived

\* The vision radius of a creature is at least two metres.
LEMMA RadiusSays ==
    ASSUME NEW c \in Creature
    PROVE  GenomeOf(c.specie).core.vision_radius \in Nat /\ GenomeOf(c.specie).core.vision_radius >= 200
  BY CreatureSays, GenomesBounded DEF Bounded

\* Boxes that meet lie within each other's extents, and conversely.
LEMMA BoxesMeet ==
    ASSUME NEW p \in Int, NEW q \in Int, NEW e \in Nat, NEW f \in Nat
    PROVE  Intersects(Box(p, e), Box(q, f)) <=> (p - q <= e + f /\ q - p <= e + f)
  BY DEF Intersects, Box

\* An embryo in sight is within the vision radius.
LEMMA EmbryosInSight ==
    ASSUME IInv, NEW i \in Ids, creatures[i] \in Creature,
           NEW c, c.position = creatures[i].position, c.specie = creatures[i].specie,
           NEW y \in InSight(c), y[1] = "EMBRYO"
    PROVE  Near(<<"CREATURE", i>>, y, GenomeOf(creatures[i].specie).core.vision_radius)
<1> DEFINE radius == GenomeOf(creatures[i].specie).core.vision_radius
           p == creatures[i].position
           q == At(y).position
           width == WidthOf(y)
<1>1. radius \in Nat /\ radius >= 200
  BY RadiusSays
<1>2. y \in Entities
  BY InSightSays
<1>3. PICK j \in Ids : y = <<"EMBRYO", j>>
  <2>1. PICK k \in {"CREATURE", "CORPSE", "EMBRYO"}, j \in Ids : y = <<k, j>>
    BY <1>2 DEF Entities
  <2> QED BY <2>1
<1>4. At(y) \in Embryo /\ Viable(At(y))
  BY <1>2, <1>3, EntitiesSay, RegisteredSays
<1>5. p \in Int /\ q \in Int
  BY <1>4, CreatureSays, EmbryoSays
<1>6. width \in 1..131
  <2>1. At(y).area \in 1..108
    BY <1>4, EmbryoSays, AreasSay DEF Viable
  <2>2. width = SizeOfEmbryo(At(y)).width
    BY DEF WidthOf
  <2> QED BY <2>1, <2>2, SizeOfEmbryoSays
<1>7. Intersects(Box(p, radius \div 2), Box(q, width \div 2))
  BY DEF InSight, SizeBox
<1> HIDE DEF radius, p, q, width
<1>8. radius \div 2 \in Nat /\ width \div 2 \in Nat /\ (radius \div 2) + (width \div 2) <= radius
  <2>1. \A m \in Nat : m <= 131 => m \div 2 \in Nat /\ m \div 2 <= 65
    BY SMT
  <2>2. \A m \in Nat : m >= 200 => m \div 2 \in Nat /\ (m \div 2) + 65 <= m
    BY SMT
  <2>3. width \in Nat /\ width <= 131
    BY <1>6
  <2> QED BY <1>1, <2>1, <2>2, <2>3
<1>9. p - q <= (radius \div 2) + (width \div 2) /\ q - p <= (radius \div 2) + (width \div 2)
  BY <1>5, <1>7, <1>8, BoxesMeet
<1>10. p - q \in -radius..radius
  <2> DEFINE s == (radius \div 2) + (width \div 2)
  <2>1. s \in Nat /\ s <= radius /\ p - q <= s /\ q - p <= s
    BY <1>8, <1>9
  <2> HIDE DEF s
  <2> QED BY <1>1, <1>5, <2>1
<1>11. At(<<"CREATURE", i>>).position = p
  BY EntitiesSay DEF p
<1> QED BY <1>10, <1>11 DEF Near, p, q, radius

\* A corpse within half the vision radius is a goal.
LEMMA CorpsesNear ==
    ASSUME IInv, NEW i \in Ids, creatures[i] \in Creature,
           NEW c, c.position = creatures[i].position, c.specie = creatures[i].specie,
           NEW y \in Entities, y[1] = "CORPSE",
           Near(<<"CREATURE", i>>, y, GenomeOf(creatures[i].specie).core.vision_radius \div 2)
    PROVE  y \in Candidates(Perceive(c))
<1> DEFINE radius == GenomeOf(creatures[i].specie).core.vision_radius
           p == creatures[i].position
           q == At(y).position
           width == WidthOf(y)
           seen == Perceive(c)
<1>1. radius \in Nat /\ radius >= 200
  BY RadiusSays
<1>2. PICK j \in Ids : y = <<"CORPSE", j>>
  <2>1. PICK k \in {"CREATURE", "CORPSE", "EMBRYO"}, j \in Ids : y = <<k, j>>
    BY DEF Entities
  <2> QED BY <2>1
<1>3. At(y) \in Corpse
  BY <1>2, EntitiesSay, RegisteredSays
<1>4. q \in Int /\ width \in Nat
  <2>1. At(y).position \in Int /\ At(y).size.width \in Nat
    BY <1>3 DEF Corpse
  <2>2. width = At(y).size.width
    BY DEF WidthOf
  <2> QED BY <2>1, <2>2
<1>5. p \in Int
  BY CreatureSays
<1>6. p - q \in -(radius \div 2)..(radius \div 2)
  BY EntitiesSay DEF Near
<1>7. Intersects(Box(p, radius \div 2), Box(q, width \div 2)) /\ Intersects(Box(p, radius), Box(q, width \div 2))
  <2> HIDE DEF radius, p, q, width
  <2>1. \A m \in Nat : m \div 2 \in Nat /\ m \div 2 <= m
    BY SMT
  <2> DEFINE e == radius \div 2
             f == width \div 2
  <2>2. e \in Nat /\ e <= radius /\ f \in Nat
    BY <1>1, <1>4, <2>1
  <2>3. p - q \in -e..e
    BY <1>6
  <2> HIDE DEF e, f
  <2>4. p - q <= e + f /\ q - p <= e + f /\ p - q <= radius + f /\ q - p <= radius + f
    BY <1>1, <1>4, <1>5, <2>2, <2>3
  <2>5. Intersects(Box(p, e), Box(q, f)) /\ Intersects(Box(p, radius), Box(q, f))
    BY <1>1, <1>4, <1>5, <2>2, <2>4, BoxesMeet
  <2> QED BY <2>5 DEF e, f
<1>8. y \in InSight(c)
  BY <1>7 DEF InSight, SizeBox
<1>9. /\ DOMAIN seen.entities = InSight(c)
      /\ \A z \in InSight(c) : seen.entities[z].position = At(z).position /\ seen.entities[z].width = WidthOf(z)
      /\ seen.radius = radius /\ seen.position = p
  BY DEF Perceive, Perceived
<1>10. y \in InBox(seen.entities, VisionBox(seen))
  <2>1. VisionBox(seen) = Box(p, radius)
    BY <1>9 DEF VisionBox, RadiusBox
  <2>2. SizeBox(seen.entities[y].width, seen.entities[y].position) = Box(q, width \div 2)
    BY <1>8, <1>9 DEF SizeBox
  <2> HIDE DEF radius, p, q, width, seen
  <2> QED BY <1>7, <1>8, <1>9, <2>1, <2>2 DEF InBox
<1> HIDE DEF seen
<1>11. y \in Reduce(seen, FIND_FOOD_RADIUS, NoFilter).entities
  BY <1>8, <1>9, <1>10 DEF Reduce, Filter, Filters, View, Accepts
<1> QED BY <1>11 DEF Candidates, seen

\* What the registry holds of every number.
LEMMA RegistriesSay ==
    \A j \in Ids : /\ At(<<"CREATURE", j>>) = creatures[j]
                   /\ At(<<"CORPSE", j>>) = corpses[j]
                   /\ At(<<"EMBRYO", j>>) = embryos[j]
  BY EntitiesSay

\* In a step that changes the registry of one creature alone the others stay.
LEMMA OthersStay ==
    ASSUME IInv, NEW i \in Ids, NEW c, creatures' = [creatures EXCEPT ![i] = c],
           corpses' = corpses, embryos' = embryos
    PROVE  /\ \A y \in Entities \ {<<"CREATURE", i>>} : At(y)' = At(y)
           /\ At(<<"CREATURE", i>>)' = c
<1>1. \A j \in Ids : /\ At(<<"CREATURE", j>>) = creatures[j]
                     /\ At(<<"CORPSE", j>>) = corpses[j]
                     /\ At(<<"EMBRYO", j>>) = embryos[j]
  BY EntitiesSay
<1>2. \A j \in Ids : /\ At(<<"CREATURE", j>>)' = creatures'[j]
                     /\ At(<<"CORPSE", j>>)' = corpses'[j]
                     /\ At(<<"EMBRYO", j>>)' = embryos'[j]
  <2>1. /\ Registry'["CREATURE"] = creatures' /\ Registry'["CORPSE"] = corpses'
        /\ Registry'["EMBRYO"] = embryos'
    BY DEF Registry
  <2> QED BY <2>1 DEF At
<1>3. creatures'[i] = c /\ \A j \in Ids \ {i} : creatures'[j] = creatures[j]
  BY DEF IInv, Types
<1>4. ASSUME NEW y \in Entities, y # <<"CREATURE", i>> PROVE At(y)' = At(y)
  <2>1. PICK k \in {"CREATURE", "CORPSE", "EMBRYO"}, j \in Ids : y = <<k, j>>
    BY DEF Entities
  <2>2. k = "CREATURE" => j # i
    BY <1>4, <2>1
  <2>3. CASE k = "CREATURE"
    BY <1>1, <1>2, <1>3, <2>1, <2>2, <2>3
  <2>4. CASE k = "CORPSE"
    BY <1>1, <1>2, <2>1, <2>4
  <2>5. CASE k = "EMBRYO"
    BY <1>1, <1>2, <2>1, <2>5
  <2> QED BY <2>3, <2>4, <2>5
<1> QED BY <1>2, <1>3, <1>4

\* The reasons of a tick that is cut short in the turn of x.
Reasons(x) ==
    /\ x[1] = "CREATURE" /\ \A y \in Entities \ {x} : At(y)' = At(y)
    /\ LET radius == GenomeOf(At(x).specie).core.vision_radius IN
       \/ IsDead(At(x))
       \/ \E y \in Entities : y[1] = "EMBRYO" /\ Near(x, y, radius)
       \/ /\ At(x)'.intent.type = "FIND_FOOD"
          /\ \A y \in Entities : y[1] = "CORPSE" => ~Near(x, y, radius \div 2)

\* A living creature throws for one of the last two.
LEMMA CreatureThrows ==
    ASSUME IInv, NEW i \in Ids, RunCreature(i), ~Done(<<"CREATURE", i>>)
    PROVE  Reasons(<<"CREATURE", i>>)
<1> DEFINE x == <<"CREATURE", i>>
           lived == Lived(creatures[i])
<1>1. Runs(x) /\ embryos' = embryos
  BY DEF RunCreature
<1>2. creatures[i] \in Creature /\ At(x) = creatures[i] /\ x[1] = "CREATURE"
  BY <1>1, RunningSays, EntitiesSay
<1>3. CASE Perceivable(lived)
  <2>1. PICK hungry \in Hungers :
           LET c == Think(lived, hungry) IN
           /\ c.intent.type = "FIND_FOOD" /\ Candidates(Perceive(c)) = {}
           /\ creatures' = [creatures EXCEPT ![i] = c] /\ UNCHANGED corpses
    BY <1>3 DEF RunCreature
  <2> DEFINE c == Think(lived, hungry)
  <2>2. /\ c.intent.type = "FIND_FOOD" /\ Candidates(Perceive(c)) = {}
        /\ creatures' = [creatures EXCEPT ![i] = c] /\ corpses' = corpses
    BY <2>1
  <2>3. c.position = creatures[i].position /\ c.specie = creatures[i].specie
    BY <1>1, ThinkerSays
  <2> HIDE DEF c
  <2>4. (\A y \in Entities \ {x} : At(y)' = At(y)) /\ At(x)' = c
    BY <1>1, <2>2, OthersStay
  <2>5. ASSUME NEW y \in Entities, y[1] = "CORPSE"
        PROVE  ~Near(x, y, GenomeOf(creatures[i].specie).core.vision_radius \div 2)
    BY <1>2, <2>2, <2>3, <2>5, CorpsesNear
  <2> DEFINE r == GenomeOf(creatures[i].specie).core.vision_radius
  <2>6. GenomeOf(At(x).specie).core.vision_radius = r
    BY <1>2
  <2>7. \A y \in Entities : y[1] = "CORPSE" => ~Near(x, y, r \div 2)
    BY <2>5
  <2>8. At(x)'.intent.type = "FIND_FOOD"
    BY <2>2, <2>4
  <2> HIDE DEF x, r
  <2>9. Reasons(x)
    BY <1>2, <2>4, <2>6, <2>7, <2>8 DEF Reasons
  <2> QED BY <2>9 DEF x
<1>4. CASE ~Perceivable(lived)
  <2>1. creatures' = [creatures EXCEPT ![i] = lived] /\ corpses' = corpses
    BY <1>4 DEF RunCreature
  <2>2. PICK y \in InSight(lived) : y[1] = "EMBRYO"
    BY <1>4 DEF Perceivable
  <2>3. lived.position = creatures[i].position /\ lived.specie = creatures[i].specie
    BY <1>1, ThinkerSays
  <2> HIDE DEF lived
  <2>4. \A z \in Entities \ {x} : At(z)' = At(z)
    BY <1>1, <2>1, OthersStay
  <2>5. Near(x, y, GenomeOf(creatures[i].specie).core.vision_radius)
    BY <1>2, <2>2, <2>3, EmbryosInSight
  <2>6. y \in Entities
    BY InSightSays
  <2> DEFINE r == GenomeOf(creatures[i].specie).core.vision_radius
  <2>7. GenomeOf(At(x).specie).core.vision_radius = r
    BY <1>2
  <2>8. Near(x, y, r)
    BY <2>5
  <2> HIDE DEF x, r
  <2>9. Reasons(x)
    BY <1>2, <2>2, <2>4, <2>6, <2>7, <2>8 DEF Reasons
  <2> QED BY <2>9 DEF x
<1> QED BY <1>3, <1>4

\* A dead one for the first.
LEMMA DeadCreatureThrows ==
    ASSUME IInv, NEW i \in Ids, RunDeadCreature(i), ~Done(<<"CREATURE", i>>)
    PROVE  Reasons(<<"CREATURE", i>>)
<1> DEFINE x == <<"CREATURE", i>>
<1>1. /\ Runs(x) /\ embryos' = embryos /\ corpses' = corpses /\ IsDead(creatures[i])
      /\ creatures' = [creatures EXCEPT ![i] = NoEntity]
  BY DEF RunDeadCreature
<1>2. At(x) = creatures[i] /\ x[1] = "CREATURE"
  BY EntitiesSay
<1>3. \A y \in Entities \ {x} : At(y)' = At(y)
  BY <1>1, OthersStay
<1>4. IsDead(At(x))
  BY <1>1, <1>2
<1> HIDE DEF x
<1>5. Reasons(x)
  BY <1>2, <1>3, <1>4 DEF Reasons
<1> QED BY <1>5 DEF x

\* A run that is done leaves the others theirs.
LEMMA TheLastIsDone ==
    ASSUME NEW x, Done(x), turn' = {}
    PROVE  ~ (Cardinality(turn) > 1)
<1>1. turn = {} \/ turn = {x}
  BY DEF Done
<1>2. Cardinality({}) = 0 /\ Cardinality({x}) = 1
  BY FS_EmptySet, FS_Singleton
<1> QED BY <1>1, <1>2

\* Nothing but a creature in its turn cuts a tick short.
LEMMA OnlyCreaturesThrow ==
    ASSUME IInv, Next, turn' = {}, Cardinality(turn) > 1
    PROVE  \E x \in turn : Reasons(x)
<1>1. Cardinality({}) = 0
  BY FS_EmptySet
<1>2. turn # {} /\ turn' # turn
  BY <1>1
<1>3. ~Idle
  BY <1>2 DEF Idle
<1>4. PICK i \in Ids : RunCreature(i) \/ RunDeadCreature(i) \/ RunEmbryo(i) \/ RunCorpse(i)
  BY <1>3 DEF Next, AddCreature, MakeCorpse, BeginTick, Attack, Conceive, Hatch, Called
<1>5. CASE RunCreature(i)
  <2>1. <<"CREATURE", i>> \in turn
    BY <1>5 DEF RunCreature, Runs
  <2>2. ~Done(<<"CREATURE", i>>)
    BY TheLastIsDone
  <2> QED BY <1>5, <2>1, <2>2, CreatureThrows
<1>6. CASE RunDeadCreature(i)
  <2>1. <<"CREATURE", i>> \in turn
    BY <1>6 DEF RunDeadCreature, Runs
  <2>2. ~Done(<<"CREATURE", i>>)
    BY TheLastIsDone
  <2> QED BY <1>6, <2>1, <2>2, DeadCreatureThrows
<1>7. CASE RunEmbryo(i)
  BY <1>2, <1>7, TheLastIsDone DEF RunEmbryo
<1>8. CASE RunCorpse(i)
  BY <1>8, TheLastIsDone DEF RunCorpse
<1> QED BY <1>4, <1>5, <1>6, <1>7, <1>8

\* A tick is cut short for one of three reasons only.
THEOREM TicksAreWhole == Spec => CutShortOnlyBlind
<1>1. ASSUME IInv, [Next]_vars
      PROVE  [turn' = {} /\ Cardinality(turn) > 1 =>
                 \E x \in turn :
                    /\ x[1] = "CREATURE" /\ \A y \in Entities \ {x} : At(y)' = At(y)
                    /\ LET radius == GenomeOf(At(x).specie).core.vision_radius IN
                       \/ IsDead(At(x))
                       \/ \E y \in Entities : y[1] = "EMBRYO" /\ Near(x, y, radius)
                       \/ /\ At(x)'.intent.type = "FIND_FOOD"
                          /\ \A y \in Entities : y[1] = "CORPSE" => ~Near(x, y, radius \div 2)]_vars
  BY <1>1, OnlyCreaturesThrow DEF Reasons
<1> QED BY <1>1, Invariance, PTL DEF Spec, CutShortOnlyBlind

-----------------------------------------------------------------------------
(* Views.                                                                  *)

\* A filter of a perception shows ids the perception has.
LEMMA FilterShows ==
    ASSUME NEW p, NEW f
    PROVE  Filter(p, f).of = p /\ Resolves(Filter(p, f))
  BY DEF Filter, View, Resolves

\* So does one that is given lists.
LEMMA FilterIdsShows ==
    ASSUME NEW p, NEW entities, NEW soils, NEW f
    PROVE  LET w == FilterIds(p, entities, soils, f) IN
           w.of = p /\ Resolves(w) /\ w.entities \subseteq entities /\ w.soils \subseteq soils
  BY DEF FilterIds, View, Resolves

\* A view made from another one: it shows ids the perception has, and neither an
\* entity nor a soil that the other hides.
Narrows(w, v) ==
    Resolves(w) /\ w.entities \subseteq v.entities /\ w.soils \subseteq v.soils

\* A filter of a view narrows it.
LEMMA FilterViewNarrows ==
    ASSUME NEW v, NEW f
    PROVE  Narrows(FilterView(v, f), v)
<1> DEFINE w == FilterIds(v.of, v.entities, v.soils, f)
<1>1. Resolves(w) /\ w.entities \subseteq v.entities /\ w.soils \subseteq v.soils
  BY FilterIdsShows
<1> QED BY <1>1 DEF FilterView, Narrows

\* A filter of a view that is given lists narrows it.
LEMMA FilterViewIdsNarrows ==
    ASSUME NEW v, NEW entities, NEW soils, NEW f
    PROVE  Narrows(FilterViewIds(v, entities, soils, f), v)
<1> DEFINE w == FilterIds(v.of, v.entities \cap entities, v.soils \cap soils, f)
<1>1. Resolves(w) /\ w.entities \subseteq v.entities \cap entities /\ w.soils \subseteq v.soils \cap soils
  BY FilterIdsShows
<1> QED BY <1>1 DEF FilterViewIds, Narrows

\* Every view of a perception shows ids the perception has.
LEMMA FirstViewsShow ==
    ASSUME NEW p, NEW v \in FirstViews(p)
    PROVE  Resolves(v)
<1>1. CASE \E f \in AnyFilters : v = Filter(p, f)
  BY <1>1, FilterShows
<1>2. CASE \E n \in AnyFilter : v = Reduce(p, 500, n)
  BY <1>2, FilterShows DEF Reduce
<1>3. CASE \E f \in SUBSET Two : v \in {OnlyEntities(p, f), OnlySoils(p, f), OnlyNatures(p, f)}
  BY <1>3, FilterShows DEF OnlyEntities, OnlySoils, OnlyNatures
<1>4. ASSUME NEW f \in SUBSET Two, NEW ids \in SUBSET Two,
             v \in {OnlyEntitiesIds(p, f, ids), OnlySoilsIds(p, f, ids), OnlyNaturesIds(p, f, ids)}
      PROVE  Resolves(v)
  <2>1. Resolves(OnlyEntitiesIds(p, f, ids)) /\ Resolves(OnlySoilsIds(p, f, ids))
    BY FilterIdsShows DEF OnlyEntitiesIds, OnlySoilsIds
  <2>2. Resolves(OnlyNaturesIds(p, f, ids))
    BY DEF OnlyNaturesIds, View, Resolves
  <2> QED BY <1>4, <2>1, <2>2
<1> DEFINE A == {Filter(p, f) : f \in AnyFilters}
           B == {Reduce(p, 500, n) : n \in AnyFilter}
           C == UNION {{OnlyEntities(p, f), OnlySoils(p, f), OnlyNatures(p, f)} : f \in SUBSET Two}
           D == UNION {{OnlyEntitiesIds(p, f, ids), OnlySoilsIds(p, f, ids), OnlyNaturesIds(p, f, ids)} :
                         f, ids \in SUBSET Two}
<1>5. v \in A \cup B \cup C \cup D
  BY DEF FirstViews
<1>6. v \in A => Resolves(v)
  BY <1>1
<1>7. v \in B => Resolves(v)
  BY <1>2
<1>8. v \in C => Resolves(v)
  BY <1>3
<1>9. v \in D => Resolves(v)
  BY <1>4
<1> HIDE DEF A, B, C, D
<1> QED BY <1>5, <1>6, <1>7, <1>8, <1>9

\* Every view of a view narrows it.
LEMMA NextViewsNarrow ==
    ASSUME NEW v, Resolves(v), NEW w \in NextViews(v)
    PROVE  Narrows(w, v)
<1>1. CASE \E f \in AnyFilters : w = FilterView(v, f)
  BY <1>1, FilterViewNarrows
<1>2. CASE \E n \in AnyFilter : w = ReduceView(v, 500, n)
  BY <1>2, FilterViewNarrows DEF ReduceView
<1>3. CASE \E ids \in SUBSET Two, f \in AnyFilters : w = FilterViewIds(v, ids, ids, f)
  BY <1>3, FilterViewIdsNarrows
<1>4. CASE \E f \in SUBSET Two : w \in {OnlyEntitiesOf(v, f), OnlySoilsOf(v, f), OnlyNaturesOf(v, f)}
  BY <1>4, FilterViewNarrows DEF OnlyEntitiesOf, OnlySoilsOf, OnlyNaturesOf
<1>5. ASSUME NEW f \in SUBSET Two, NEW ids \in SUBSET Two,
             w \in {OnlyEntitiesOfIds(v, f, ids), OnlySoilsOfIds(v, f, ids), OnlyNaturesOfIds(v, f, ids)}
      PROVE  Narrows(w, v)
  <2>1. Narrows(OnlyEntitiesOfIds(v, f, ids), v) /\ Narrows(OnlySoilsOfIds(v, f, ids), v)
    BY FilterViewIdsNarrows DEF OnlyEntitiesOfIds, OnlySoilsOfIds
  <2>2. Narrows(OnlyNaturesOfIds(v, f, ids), v)
    BY DEF OnlyNaturesOfIds, View, Resolves, Narrows
  <2> QED BY <1>5, <2>1, <2>2
<1> DEFINE A == {FilterView(v, f) : f \in AnyFilters}
           B == {ReduceView(v, 500, n) : n \in AnyFilter}
           C == {FilterViewIds(v, ids, ids, f) : ids \in SUBSET Two, f \in AnyFilters}
           D == UNION {{OnlyEntitiesOf(v, f), OnlySoilsOf(v, f), OnlyNaturesOf(v, f)} : f \in SUBSET Two}
           E == UNION {{OnlyEntitiesOfIds(v, f, ids), OnlySoilsOfIds(v, f, ids), OnlyNaturesOfIds(v, f, ids)} :
                         f, ids \in SUBSET Two}
<1>6. w \in A \cup B \cup C \cup D \cup E
  BY DEF NextViews
<1>7. w \in A => Narrows(w, v)
  BY <1>1
<1>8. w \in B => Narrows(w, v)
  BY <1>2
<1>9. w \in C => Narrows(w, v)
  BY <1>3
<1>10. w \in D => Narrows(w, v)
  BY <1>4
<1>11. w \in E => Narrows(w, v)
  BY <1>5
<1> HIDE DEF A, B, C, D, E
<1> QED BY <1>6, <1>7, <1>8, <1>9, <1>10, <1>11

\* A view never shows an id its perception lacks, nor, however it was made from
\* another one, an entity or a soil the other hides: whatever is perceived and
\* wherever from.
THEOREM FiltersNarrow == Spec => []ViewsNarrow
<1>1. ViewsNarrow
  BY FirstViewsShow, NextViewsNarrow DEF ViewsNarrow, Narrows
<1> QED BY <1>1, PTL

=============================================================================
