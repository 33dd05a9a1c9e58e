----------------------------- MODULE Perception -----------------------------
(***************************************************************************)
(* What a creature perceives, and the views that filter it.                *)
(*                                                                         *)
(* A Perception holds three registries: a function from the ids in it to   *)
(* what is perceived of each.  A filter is the set of the ids it accepts;  *)
(* an optional one is a sequence of at most one filter.  Positions lie on  *)
(* a line (hundredths of a metre), so a box is an interval.                *)
(***************************************************************************)
EXTENDS Integers, Sequences

Box(centre, extent) == [lo |-> centre - extent, hi |-> centre + extent]

SizeBox(width, position) == Box(position, width \div 2)

RadiusBox(radius, position) == Box(position, radius)

Intersects(a, b) == a.lo <= b.hi /\ a.hi >= b.lo

Perceived(entities, soils, natures, radius, position) ==
    [entities |-> entities, soils |-> soils, natures |-> natures, radius |-> radius, position |-> position]

VisionBox(p) == RadiusBox(p.radius, p.position)

-----------------------------------------------------------------------------
(* Views                                                                   *)

NoFilter == <<>>

Accepts(filter, id) == filter = NoFilter \/ id \in filter[1]

Filters(entity, soil, nature) == [entity |-> entity, soil |-> soil, nature |-> nature]

\* Without any filter the constructor throws.
Viewable(f) == f.entity # NoFilter \/ f.soil # NoFilter \/ f.nature # NoFilter

View(p, entities, soils, natures) ==
    [of |-> p, entities |-> entities, soils |-> soils, natures |-> natures]

\* resolved_entities() and its like look every id up: at() throws for a missing one.
Resolves(v) ==
    /\ v.entities \subseteq DOMAIN v.of.entities
    /\ v.soils \subseteq DOMAIN v.of.soils
    /\ v.natures \subseteq DOMAIN v.of.natures

FilterIds_IgnoresIds(p, entities, soils, f) ==
    View(p, {i \in DOMAIN p.entities : Accepts(f.entity, i)}, {i \in soils : Accepts(f.soil, i)},
         {i \in DOMAIN p.natures : Accepts(f.nature, i)})

\* filter(perception): what its filters accept.
Filter(p, f) ==
    View(p, {i \in DOMAIN p.entities : Accepts(f.entity, i)},
            {i \in DOMAIN p.soils : Accepts(f.soil, i)},
            {i \in DOMAIN p.natures : Accepts(f.nature, i)})

\* filter(perception, ids): of the entities and soils listed; there is no list
\* of natures, and all of them are considered.
FilterIds(p, entities, soils, f) ==
    View(p, {i \in DOMAIN p.entities \cap entities : Accepts(f.entity, i)},
            {i \in DOMAIN p.soils \cap soils : Accepts(f.soil, i)},
            {i \in DOMAIN p.natures : Accepts(f.nature, i)})

\* filter(view): natures an earlier filter rejected are back.
FilterView(v, f) == FilterIds(v.of, v.entities, v.soils, f)

\* filter(view, ids): the natures it collects from the view are not passed on.
FilterViewIds(v, entities, soils, f) ==
    FilterIds(v.of, v.entities \cap entities, v.soils \cap soils, f)

OnlyEntities(p, filter) == Filter(p, Filters(<<filter>>, NoFilter, NoFilter))

OnlyEntitiesOf(v, filter) == FilterView(v, Filters(<<filter>>, NoFilter, NoFilter))

OnlyEntitiesIds(p, filter, entities) ==
    FilterIds(p, entities, DOMAIN p.soils, Filters(<<filter>>, NoFilter, NoFilter))

OnlyEntitiesOfIds(v, filter, entities) ==
    FilterViewIds(v, entities, v.soils, Filters(<<filter>>, NoFilter, NoFilter))

OnlySoils(p, filter) == Filter(p, Filters(NoFilter, <<filter>>, NoFilter))

OnlySoilsOf(v, filter) == FilterView(v, Filters(NoFilter, <<filter>>, NoFilter))

OnlySoilsIds(p, filter, soils) ==
    FilterIds(p, DOMAIN p.entities, soils, Filters(NoFilter, <<filter>>, NoFilter))

OnlySoilsOfIds(v, filter, soils) ==
    FilterViewIds(v, v.entities, soils, Filters(NoFilter, <<filter>>, NoFilter))

OnlyNatures(p, filter) == Filter(p, Filters(NoFilter, NoFilter, <<filter>>))

OnlyNaturesOf(v, filter) == FilterView(v, Filters(NoFilter, NoFilter, <<filter>>))

\* The list restricts the perception's natures to those the filter accepts ...
OnlyNaturesIds(p, filter, natures) ==
    View(p, DOMAIN p.entities, DOMAIN p.soils, {i \in DOMAIN p.natures \cap natures : i \in filter})

\* ... but a view's only to those listed: this filter is kept and never called.
OnlyNaturesOfIds(v, filter, natures) == View(v.of, v.entities, v.soils, v.natures \cap natures)

InBox(registry, box) == {i \in DOMAIN registry : Intersects(box, SizeBox(registry[i].width, registry[i].position))}

\* reduce(perception): to the box of the perception itself, whatever `radius'
\* is; the entity and soil filters it is given are not used either.
Reduce(p, radius, nature) ==
    Filter(p, Filters(<<InBox(p.entities, VisionBox(p))>>, <<InBox(p.soils, VisionBox(p))>>, nature))

ReduceView(v, radius, nature) ==
    FilterView(v, Filters(<<InBox(v.of.entities, VisionBox(v.of))>>, <<InBox(v.of.soils, VisionBox(v.of))>>, nature))

=============================================================================
