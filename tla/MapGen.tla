------------------------------- MODULE MapGen -------------------------------
(* TileMap: the level that server and client build from the same seed, on a   *)
(* small grid.  A grid is the set of the cells that are on.  The noise of the  *)
(* random generator is a choice: each rectangle of dry cells along the left    *)
(* border, in water, and dirt everywhere or nowhere.  GameSimulation::init()    *)
(* then clears the middle of the map, where the players are placed.  Textures, *)
(* drawing and props are left out.                                           *)
EXTENDS Integers, FiniteSets, FiniteSetsExt

CONSTANTS
    cols, rows,    \* the size of the map (kMapCols, kMapRows)
    tileRadius     \* the radius init() clears around the center, in cells

VARIABLES
    water, dirt,   \* the two grids
    stage          \* what init() has done

vars == <<water, dirt, stage>>

Cells == (0 .. cols - 1) \X (0 .. rows - 1)

border == 2

Interior == {x \in Cells : /\ x[1] \in border .. cols - border - 1
                           /\ x[2] \in border .. rows - border - 1}

(* The eight cells around x, also those outside the map.                      *)
Around(x) == ((x[1] - 1 .. x[1] + 1) \X (x[2] - 1 .. x[2] + 1)) \ {x}

(* Cells beyond the map read as borderValue.                                 *)
Neighbours(grid, borderValue, x) ==
    Cardinality({y \in Around(x) : IF y \in Cells THEN y \in grid ELSE borderValue})

(* One pass of smoothing; every cell is read from the grid of the pass before. *)
Smooth(grid, borderValue) ==
    (IF borderValue THEN Cells \ Interior ELSE {})
        \union {x \in Interior :
                  LET on == Neighbours(grid, borderValue, x)
                  IN on >= 5 \/ (on = 4 /\ x \in grid)}

runCellularAutomata(noise, passes, borderValue) ==
    FoldSet(LAMBDA pass, grid : Smooth(grid, borderValue),
            noise \union (IF borderValue THEN Cells \ Interior ELSE {}), 1 .. passes)

(* The cells that are reached from a region over land, four ways.             *)
Beside(x) == {<<x[1] + 1, x[2]>>, <<x[1] - 1, x[2]>>, <<x[1], x[2] + 1>>, <<x[1], x[2] - 1>>}

RECURSIVE Reached(_, _)
Reached(region, land) ==
    LET next == region \union (UNION {Beside(x) : x \in region} \intersect land)
    IN IF next = region THEN region ELSE Reached(next, land)

(* The landmasses, each flooded from one of its cells.                        *)
RECURSIVE Landmasses(_)
Landmasses(land) ==
    IF land = {} THEN {}
    ELSE LET mass == Reached({CHOOSE x \in land : TRUE}, land)
         IN {mass} \union Landmasses(land \ mass)

(* The largest landmass, the first one of several in reading order.           *)
FirstCell(mass) == Min({x[2] * cols + x[1] : x \in mass})

Mainland(land) ==
    LET masses == Landmasses(land)
    IN CHOOSE mass \in masses :
           \A other \in masses \ {mass} :
               \/ Cardinality(other) < Cardinality(mass)
               \/ Cardinality(other) = Cardinality(mass) /\ FirstCell(mass) < FirstCell(other)

Land == Cells \ water

(* No dirt on the water or on the shore; beyond the map is water.             *)
clearDirtNearWater(grown) == {x \in grown : Around(x) \union {x} \subseteq Land}

-----------------------------------------------------------------------------
Rectangles ==
    {{x \in Interior : x[1] <= c /\ x[2] \in r1 .. r2}
        : c \in border .. cols - border - 1, r1, r2 \in border .. rows - border - 1}

Init == water = {} /\ dirt = {} /\ stage = "empty"

FillWater ==
    /\ stage = "empty"
    /\ \E dry \in Rectangles :
         water' = runCellularAutomata(Interior \ dry, 4, TRUE)
    /\ stage' = "water" /\ UNCHANGED dirt

removeIslands ==
    /\ stage = "water"
    /\ water' = IF Land = {} THEN water ELSE Cells \ Mainland(Land)
    /\ stage' = "mainland" /\ UNCHANGED dirt

(* Dirt grows by the same rule, without a border.                             *)
FillDirt ==
    /\ stage = "mainland"
    /\ \E noise \in {{}, Interior} :
         dirt' = clearDirtNearWater(runCellularAutomata(noise, 3, FALSE))
    /\ stage' = "generated" /\ UNCHANGED water

(* The center of the map in world units, half a tile off as cellAtWorld() is.   *)
Center == <<(cols - 1) \div 2, (rows - 1) \div 2>>

Clearing ==
    {x \in Cells : (x[1] - Center[1]) * (x[1] - Center[1])
                 + (x[2] - Center[2]) * (x[2] - Center[2]) <= tileRadius * tileRadius}

carveLand ==
    /\ stage = "generated"
    /\ water' = water \ Clearing /\ dirt' = dirt \ Clearing
    /\ stage' = "ready"

Next == FillWater \/ removeIslands \/ FillDirt \/ carveLand

Spec == Init /\ [][Next]_vars

-----------------------------------------------------------------------------
(* MAP_GENERATION.md, Step 2, of removeIslands(): "This guarantees all walkable *)
(* land is one connected mass, so the player can never be stranded on (or stare *)
(* at) an unreachable island."  The map the match is played on is the one after *)
(* init(), which clears the middle last.                                     *)
OneLandMass == stage = "ready" => Cardinality(Landmasses(Land)) = 1
=============================================================================
