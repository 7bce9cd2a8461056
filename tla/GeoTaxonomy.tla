---------------------------- MODULE GeoTaxonomy ----------------------------
(***************************************************************************)
(* The geography collections and their seed (geo.service.ts, geo.seed.ts): *)
(* a script upserts the levels from the top, and may die at any point and  *)
(* be run again, or twice at once, while the API looks places up.          *)
(***************************************************************************)
EXTENDS Naturals, Geography

CONSTANT Seeder     \* runs of seed:geo at the same time

VARIABLES
    rows,           \* the places in the database
    seeder,         \* the level each run works on, and what it has left there
    seeded          \* has a run ever completed?  No action looks at it.

geo == <<rows, seeder, seeded>>

----------------------------------------------------------------------------

Levels == <<Division, District, Upazila, Area>>

Off == [level |-> 0, left |-> {}]

GeoTypeOK ==
    /\ rows \subseteq Place
    /\ seeder \in [Seeder -> [level : 0..4, left : SUBSET Place]]
    /\ seeded \in BOOLEAN

GeoInit ==
    /\ rows = {}
    /\ seeder = [s \in Seeder |-> Off]
    /\ seeded = FALSE

SeedStarts(s) ==
    /\ seeder[s] = Off
    /\ seeder' = [seeder EXCEPT ![s] = [level |-> 1, left |-> Division]]
    /\ UNCHANGED <<rows, seeded>>

\* The ids of the level above were read once it was complete, and no row is ever
\* removed.
RequireParent(p) == IF p \in Division THEN TRUE ELSE Parent[p] \in rows

\* One row after the other in the order of the seed file; the areas are one unordered
\* bulk.
NextRows(s) ==
    LET left == seeder[s].left IN
    IF seeder[s].level = 4 \/ left = {} THEN left ELSE {CHOOSE p \in left : TRUE}

UpsertRow(s) ==
    \E p \in NextRows(s) :
        /\ RequireParent(p)
        /\ rows' = rows \cup {p}
        /\ seeder' = [seeder EXCEPT ![s].left = @ \ {p}]
        /\ UNCHANGED seeded

LevelDone(s) == seeder[s].left = {}

NextLevel(s) ==
    /\ seeder[s].level \in 1..3
    /\ LevelDone(s)
    /\ seeder' = [seeder EXCEPT ![s] = [level |-> @.level + 1, left |-> Levels[@.level + 1]]]
    /\ UNCHANGED <<rows, seeded>>

SeedEnds(s) ==
    /\ seeder[s].level = 4
    /\ LevelDone(s)
    /\ seeder' = [seeder EXCEPT ![s] = Off]
    /\ seeded' = TRUE
    /\ UNCHANGED rows

\* A write fails, a duplicate key among them, or the process dies.
SeedDies(s) ==
    /\ seeder[s] # Off
    /\ seeder' = [seeder EXCEPT ![s] = Off]
    /\ UNCHANGED <<rows, seeded>>

GeoNext == \E s \in Seeder : \/ SeedStarts(s) \/ UpsertRow(s) \/ NextLevel(s)
                             \/ SeedEnds(s) \/ SeedDies(s)

----------------------------------------------------------------------------
\* resolveListingLocation.

\* Mutant: an area is looked up without its upazila.
ResolvesLooseArea(c) ==
    /\ c.district \in rows
    /\ Parent[c.district] \in rows
    /\ c.upazila # NoPlace => c.upazila \in rows /\ Parent[c.upazila] = c.district
    /\ c.area # NoPlace => c.area \in rows

\* One look at the rows stands for the four the code takes: they only grow, and a
\* row's parent is settled.
Resolves(c) ==
    /\ c.district \in rows
    /\ Parent[c.district] \in rows
    /\ c.upazila # NoPlace => c.upazila \in rows /\ Parent[c.upazila] = c.district
    /\ c.area # NoPlace => c.area \in rows /\ Parent[c.area] = c.upazila
============================================================================
