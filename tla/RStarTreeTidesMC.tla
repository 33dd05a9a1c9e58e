-------------------------- MODULE RStarTreeTidesMC --------------------------
(***************************************************************************)
(* Fill and drain, for TLC: boxes enter in order until the tree is turned, *)
(* at any multiple of Pace, and leave in the order of a stride until it is *)
(* turned again.  An exception can only be followed by a clear.            *)
(***************************************************************************)
EXTENDS RStarTreeMC

CONSTANTS
  Strides,   \* the orders in which boxes leave
  Pace,      \* the tree may turn when it holds a multiple of Pace ids
  Turns      \* how many tides there are

VARIABLE tides   \* the strides so far, 0 while boxes enter

Prime == 53
Stride == Last(tides)

Enter == /\ Stride = 0
         /\ \E id \in Ids \ registry : (\A other \in Ids \ registry : id <= other) /\ AddValue(id)

Leave == /\ Stride # 0
         /\ \E id \in registry :
              /\ \A other \in registry : (id * Stride) % Prime <= (other * Stride) % Prime
              /\ RemoveValue(id)

Turn == /\ Cardinality(registry) % Pace = 0
        /\ Len(tides) < Turns
        /\ \E s \in (IF Stride = 0 THEN Strides ELSE {0}) : tides' = Append(tides, s)
        /\ UNCHANGED vars

\* All are cleared away, and boxes enter again.
Wipe == /\ thrown \/ Cardinality(registry) % Pace = 0
        /\ Len(tides) < Turns
        /\ tides' = Append(tides, 0)
        /\ Clear

TidesInit == Init /\ tides = <<0>>
TidesNext == (~thrown /\ (((Enter \/ Leave) /\ UNCHANGED tides) \/ Turn)) \/ Wipe
TidesSpec == TidesInit /\ [][TidesNext]_<<vars, tides>>
=============================================================================
