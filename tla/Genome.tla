------------------------------- MODULE Genome -------------------------------
(***************************************************************************)
(* The genome database: what each species is made of.  Only the genes      *)
(* that some operation reads are kept; numbers are hundredths.             *)
(***************************************************************************)
EXTENDS Limited

Species == {"CRAB", "FISH", "CROCODILE", "HIPPOPOTAMUS"}

\* Diet: grass and raw meat scores; the sum the constructor compares with 1 is
\* a NormalizedValue, which is never above it.
Diet(grass, meat) == [GRASS_MATTER |-> grass, RAW_MEAT |-> meat]

Crocodile ==
    [creature |-> [metabolism |-> [max_energy |-> 10000, max_reserved_energy |-> 4000, diet |-> Diet(5, 85),
                                   growth |-> [max_energy |-> 30, max_reserved_energy |-> 25]],
                   vital |-> [max_life |-> 10000, average_health |-> 85],
                   morphology |-> [width |-> 220, height |-> 80],
                   reproductive |-> [viviparous |-> FALSE, children |-> 40, gestation_limit |-> 0, fertility_limit |-> 2]],
     embryo |-> [max_energy |-> 55, max_life |-> 45, health |-> 60, area |-> 30],
     core |-> [vision_radius |-> 2000, moves |-> {"SWIMM", "WALK"}]]

Fish ==
    [creature |-> [metabolism |-> [max_energy |-> 1000, max_reserved_energy |-> 400, diet |-> Diet(20, 70),
                                   growth |-> [max_energy |-> 55, max_reserved_energy |-> 45]],
                   vital |-> [max_life |-> 900, average_health |-> 45],
                   morphology |-> [width |-> 120, height |-> 45],
                   reproductive |-> [viviparous |-> FALSE, children |-> 1000, gestation_limit |-> 0, fertility_limit |-> 10]],
     embryo |-> [max_energy |-> 35, max_life |-> 30, health |-> 40, area |-> 20],
     core |-> [vision_radius |-> 500, moves |-> {"SWIMM"}]]

Crab ==
    [creature |-> [metabolism |-> [max_energy |-> 4000, max_reserved_energy |-> 1500, diet |-> Diet(45, 35),
                                   growth |-> [max_energy |-> 40, max_reserved_energy |-> 35]],
                   vital |-> [max_life |-> 3000, average_health |-> 55],
                   morphology |-> [width |-> 140, height |-> 55],
                   reproductive |-> [viviparous |-> FALSE, children |-> 1000000, gestation_limit |-> 0, fertility_limit |-> 20]],
     embryo |-> [max_energy |-> 45, max_life |-> 35, health |-> 50, area |-> 25],
     core |-> [vision_radius |-> 200, moves |-> {"WALK"}]]

Hippopotamus ==
    [creature |-> [metabolism |-> [max_energy |-> 8500, max_reserved_energy |-> 3500, diet |-> Diet(80, 5),
                                   growth |-> [max_energy |-> 25, max_reserved_energy |-> 20]],
                   vital |-> [max_life |-> 15000, average_health |-> 90],
                   morphology |-> [width |-> 180, height |-> 130],
                   reproductive |-> [viviparous |-> TRUE, children |-> 1, gestation_limit |-> 8, fertility_limit |-> 1]],
     embryo |-> [max_energy |-> 65, max_life |-> 50, health |-> 70, area |-> 35],
     core |-> [vision_radius |-> 1000, moves |-> {"SWIMM", "WALK"}]]

MetabolismGenome ==
    [max_energy : Nat, max_reserved_energy : Nat, diet : [GRASS_MATTER : 0..One, RAW_MEAT : 0..One],
     growth : [max_energy : Nat, max_reserved_energy : Nat]]

VitalGenome == [max_life : Nat, average_health : 0..One]

MorphologyGenome == [width : Nat, height : Nat]

\* reproductive_way_genome is one of two empty genomes.
ReproductiveGenome == [viviparous : BOOLEAN, children : Nat, gestation_limit : Nat, fertility_limit : Nat]

CreatureGenome ==
    [metabolism : MetabolismGenome, vital : VitalGenome, morphology : MorphologyGenome,
     reproductive : ReproductiveGenome]

EmbryoGenome == [max_energy : 0..One, max_life : 0..One, health : 0..One, area : 0..One]

CoreGenome == [vision_radius : Nat, moves : SUBSET {"WALK", "SWIMM"}]

Genomes == [creature : CreatureGenome, embryo : EmbryoGenome, core : CoreGenome]

Database == [CRAB |-> Crab, FISH |-> Fish, CROCODILE |-> Crocodile, HIPPOPOTAMUS |-> Hippopotamus]

\* The constructors of the genomes' members accept what the database gives them.
ASSUME DatabaseAssumption == Database \in [Species -> Genomes]

\* get_genome throws for a species without one; the database has all four.
GenomeOf(specie) == Database[specie]

-----------------------------------------------------------------------------
(* What an embryo of the genome has on average.                            *)

Area(size) == Part(size.width, size.height)

EmbryoMaxEnergy(g) == Part(g.embryo.max_energy, g.creature.metabolism.max_energy)

EmbryoArea(g) == Part(g.embryo.area, Area(g.creature.morphology))

EmbryoLife(g) == Part(g.embryo.max_life, g.creature.vital.max_life)

=============================================================================
