----------------------------- MODULE ProtocolMC -----------------------------
(* A small world: creatures of both genders, a corpse, three pieces of soil. *)
EXTENDS Protocol

Female == [gender |-> "FEMALE", specie |-> "FISH", x |-> 3, y |-> -2, name |-> <<75, 97>>, id |-> 7]
Male   == [gender |-> "MALE", specie |-> "CRAB", x |-> 0, y |-> 0, name |-> <<>>, id |-> 8]

MCCreatures == {Female, Male}
MCCorpses   == {[id |-> 9, rawMeat |-> 5, x |-> 300, y |-> -1, width |-> 2, height |-> 1]}
MCTerritory == [width |-> 121000, height |-> 40]

\* Rock, water and sand, at x = 0, 30000 and 60000; what is laid at 90000 and 120000 is refused.
Soils == GenTerrain(MCTerritory, 30000, <<-90, 80, 10, 0, 40>>, <<10, 20, 13, 15, 11>>, <<20, 21, 22, 23, 24>>)

\* The registry of the pieces is not ordered: one order that is not the order of their making.
MCSoilOrders == {<<Soils[3], Soils[1], Soils[2]>>}

Make == [op |-> "make_creature", gender |-> Nothing, specie |-> "CROCODILE", position |-> <<1, -1>>, name |-> <<65, 66>>]

MCCalls == {[op |-> "see_creature", id |-> 7], [op |-> "see_creature", id |-> 8], [op |-> "see_corpse", id |-> 9], [op |-> "see_soil", id |-> 21],
            [op |-> "see_all_soils"], [op |-> "see_territory"], Make}

=============================================================================
