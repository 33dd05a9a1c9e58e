----------------------------- MODULE OrganismMC -----------------------------
(***************************************************************************)
(* Organism on a small territory, and the views of a small perception.     *)
(***************************************************************************)
EXTENDS Organism

MCSoils == [s \in {0, 300} |-> [position |-> s, radius |-> 50]]

MCBlueprints ==
    {[specie |-> "HIPPOPOTAMUS", gender |-> "FEMALE", position |-> 0],
     [specie |-> "FISH", gender |-> "MALE", position |-> 300]}

MCMaxTicks == <<0, 11, 0, 3>>

-----------------------------------------------------------------------------
(* The views, over every filter of a perception of two of each kind.       *)

Two == {0, 300}

Things == [s \in Two |-> [position |-> s, width |-> 100]]

Sample(position) == Perceived(Things, Things, Things, 200, position)

AnyFilter == {NoFilter} \cup {<<f>> : f \in SUBSET Two}

AnyFilters == {f \in {Filters(e, s, n) : e, s, n \in AnyFilter} : Viewable(f)}

FirstViews(p) ==
    {Filter(p, f) : f \in AnyFilters} \cup {Reduce(p, 500, n) : n \in AnyFilter}
        \cup (UNION {{OnlyEntities(p, f), OnlySoils(p, f), OnlyNatures(p, f)} : f \in SUBSET Two})
        \cup UNION {{OnlyEntitiesIds(p, f, ids), OnlySoilsIds(p, f, ids), OnlyNaturesIds(p, f, ids)} :
                       f, ids \in SUBSET Two}

NextViews(v) ==
    {FilterView(v, f) : f \in AnyFilters} \cup {ReduceView(v, 500, n) : n \in AnyFilter}
        \cup {FilterViewIds(v, ids, ids, f) : ids \in SUBSET Two, f \in AnyFilters}
        \cup (UNION {{OnlyEntitiesOf(v, f), OnlySoilsOf(v, f), OnlyNaturesOf(v, f)} : f \in SUBSET Two})
        \cup UNION {{OnlyEntitiesOfIds(v, f, ids), OnlySoilsOfIds(v, f, ids), OnlyNaturesOfIds(v, f, ids)} :
                       f, ids \in SUBSET Two}

\* Filtering a view never shows an entity or a soil the view had hidden, and
\* every id in a view can be looked up in its perception.  Natures are not so:
\* what an earlier filter rejected comes back.
ViewsNarrow ==
    \A i \in In(creatures) : given = 1 /\ tick = 0 =>
        \A v \in FirstViews(Sample(creatures[i].position)) :
            Resolves(v) /\ \A w \in NextViews(v) :
                Resolves(w) /\ w.entities \subseteq v.entities /\ w.soils \subseteq v.soils

=============================================================================
