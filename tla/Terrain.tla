------------------------------ MODULE Terrain ------------------------------
(***************************************************************************)
(* The soil of a territory: what a piece of each type is made of           *)
(* (terrain/soil), and how a territory is covered with pieces              *)
(* (terrain_gen).  FastNoise and the random radii are parameters; noise is *)
(* in hundredths.                                                          *)
(***************************************************************************)
EXTENDS Integers, Sequences

CONSTANT Nothing     \* std::nullopt, and a component that is not there

Blueprint(properties, required, movementCost) ==
    [properties |-> properties, required |-> required, damage |-> Nothing, movementCost |-> movementCost]

SoilBlueprints ==
    [DIRT  |-> Blueprint(<<>>, <<"WALK">>, 1),
     SAND  |-> Blueprint(<<>>, <<>>, 2),
     ROCK  |-> Blueprint(<<"DANGEROUS">>, <<"WALK">>, 1),
     WATER |-> Blueprint(<<>>, <<"SWIMM">>, 1)]

GenSoilPiece(type, radius, x, y, id) ==
    LET b == SoilBlueprints[type]
    IN  [type |-> type, properties |-> b.properties, required |-> b.required, damage |-> b.damage,
         movementCost |-> b.movementCost, radius |-> radius, x |-> x, y |-> y, id |-> id]

SoilTypeOf(noise) ==
    LET factor == (noise + 100) \div 2
    IN CASE factor < 25                  -> "ROCK"
         [] factor \in 25..49            -> "DIRT"
         [] factor \in 50..74            -> "SAND"
         [] OTHER                        -> "WATER"

(* RSTService::add takes a piece when the territory, which lies around 0, contains it. *)
Fits(size, piece) ==
    /\ -size.width <= 2 * (piece.x - piece.radius)  /\ 2 * (piece.x + piece.radius) <= size.width
    /\ -size.height <= 2 * (piece.y - piece.radius) /\ 2 * (piece.y + piece.radius) <= size.height

(* A piece every epsilon from 0 to the whole width and height, the n-th of the noise, the radius
   and the id drawn for it; the territory refuses what is beyond half of either, and nothing is
   laid at negative coordinates. *)
GenTerrain(size, epsilon, noise, radius, id) ==
    LET rows    == size.height \div epsilon + 1
        columns == size.width \div epsilon + 1
        laid    == [n \in 1..columns * rows |->
                       GenSoilPiece(SoilTypeOf(noise[n]), radius[n],
                                    ((n - 1) \div rows) * epsilon, ((n - 1) % rows) * epsilon, id[n])]
    IN  SelectSeq(laid, LAMBDA piece : Fits(size, piece))

=============================================================================
