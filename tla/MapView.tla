------------------------------- MODULE MapView -------------------------------
(***************************************************************************)
(* The map view of a dataset: the rows that hold coordinates, in a pair of   *)
(* columns or in a column of geometry, as markers over map tiles and as a    *)
(* list; the others in a list of their own.  A click on a marker or in the   *)
(* list selects the row in both; a change of language draws all anew.        *)
(* Coordinates are in hundredths of a degree.                                *)
(***************************************************************************)
EXTENDS Integers, FiniteSets

CONSTANTS MvMaxInputs  \* bound: clicks and changes of language

VARIABLES
    mvRows,   \* the rows, and whether the dataset has a pair of coordinate columns
    mvUi,     \* the row selected, the rows highlighted on the map and in the list
    mvCounts  \* inputs so far
mvVars == <<mvRows, mvUi, mvCounts>>

MvIds == {1, 2}
Bad == 99999   \* a value no number is read from
NoPoint == <<Bad, Bad>>
Latitudes == {-9000, 0, 6000}
Longitudes == {-18000, 2400, 2405, 18000}
\* What a column of geometry may hold: nothing, a point, a point outside the world.
Geometries == {NoPoint, <<6000, 2405>>, <<6000, 18001>>}
-----------------------------------------------------------------------------
(* Points *)

isValidCoordinatePair(p) == /\ p[1] # Bad /\ -9000 <= p[1] /\ p[1] <= 9000
                            /\ p[2] # Bad /\ -18000 <= p[2] /\ p[2] <= 18000
ValidOrNone(p) == IF isValidCoordinatePair(p) THEN p ELSE NoPoint
parseCoordinatePairFromColumns(row) == ValidOrNone(<<row.lat, row.lng>>)
parseCoordinateFromRowValues(row) == ValidOrNone(row.geo)

\* extract_map_points: the pair if it holds coordinates, else the first geometry that does.
OnePlaceOnly(row) ==
    IF mvRows.pair THEN parseCoordinatePairFromColumns(row) ELSE parseCoordinateFromRowValues(row)
CoordinateOf(row) ==
    IF mvRows.pair /\ parseCoordinatePairFromColumns(row) # NoPoint
    THEN parseCoordinatePairFromColumns(row) ELSE parseCoordinateFromRowValues(row)

extract_map_points == {r \in MvIds : CoordinateOf(mvRows.rows[r]) # NoPoint}
getRowsWithoutCoordinates == MvIds \ extract_map_points
MvPoints == {CoordinateOf(mvRows.rows[r]) : r \in extract_map_points}
Lowest(S) == CHOOSE x \in S : \A y \in S : x <= y
Highest(S) == CHOOSE x \in S : \A y \in S : x >= y
-----------------------------------------------------------------------------
(* The plane and its tiles *)

TileSize == 256
Scale(zoom) == 2 ^ zoom

resolveTileZoom ==
    LET lats == {p[1] : p \in MvPoints}
        lngs == {p[2] : p \in MvPoints}
        span == Highest({Highest(lats) - Lowest(lats), Highest(lngs) - Lowest(lngs)})
    IN  CASE span <= 2 -> 14 [] span <= 8 -> 13 [] span <= 25 -> 12 [] span <= 75 -> 10
          [] span <= 200 -> 8 [] span <= 800 -> 6 [] OTHER -> 4

\* The share of the world above a latitude, in thousandths; the poles are cut off.
AboveLatitude(lat) == CASE lat = -9000 -> 1000 [] lat = 0 -> 500 [] lat = 6000 -> 290
Pixels(thousandths, zoom) == (thousandths * Scale(zoom) * 32) \div 125  \* 256 pixels for 1000
projectCoordinateToWorldPixel(p, zoom) ==
    [x |-> ((((p[2] + 18000) * Scale(zoom)) \div 36) * 32) \div 125, y |-> Pixels(AboveLatitude(p[1]), zoom)]

\* resolveTileWorldBounds: at least two tiles wide and high, and a padding of 18 percent.
Padded(values) ==
    LET center == (Lowest(values) + Highest(values)) \div 2
        base == Highest({Highest(values) - Lowest(values), 2 * TileSize})
        half == (base * 118) \div 200
    IN  [from |-> center - half, to |-> center + half]
resolveTileWorldBounds(zoom) ==
    LET pixels == {projectCoordinateToWorldPixel(p, zoom) : p \in MvPoints}
    IN  [x |-> Padded({p.x : p \in pixels}), y |-> Padded({p.y : p \in pixels})]

\* createTileLayer: the tiles from the one with the first pixel to the one with the last; beyond
\* the poles there is none, beyond the date line the map goes round.
createTileLayer ==
    LET zoom == resolveTileZoom
        bounds == resolveTileWorldBounds(zoom)
    IN  [zoom |-> zoom, bounds |-> bounds,
         columns |-> (bounds.x.from \div TileSize)..(bounds.x.to \div TileSize),
         lines |-> ((bounds.y.from \div TileSize)..(bounds.y.to \div TileSize)) \cap 0..(Scale(zoom) - 1)]
-----------------------------------------------------------------------------
(* What is shown *)

NoneSelected == 0

\* create_map_view: the first point is selected.
MvInit ==
    /\ \E rows \in [MvIds -> [lat : Latitudes \cup {Bad}, lng : Longitudes \cup {Bad}, geo : Geometries]], pair \in BOOLEAN :
          mvRows = [rows |-> rows, pair |-> pair]
    /\ LET first == IF extract_map_points = {} THEN NoneSelected ELSE Lowest(extract_map_points)
       IN mvUi = [selected |-> first, onMap |-> {first} \ {NoneSelected}, inList |-> {first} \ {NoneSelected}]
    /\ mvCounts = 0

MvInput == mvCounts < MvMaxInputs /\ mvCounts' = mvCounts + 1

\* syncSelectedRow: every marker and list row of the row, and no other.
syncSelectedRow(r) == [mvUi EXCEPT !.onMap = {r}, !.inList = {r}]

selectRow(r) ==
    /\ MvInput
    /\ mvUi' = [syncSelectedRow(r) EXCEPT !.selected = r]
    /\ UNCHANGED mvRows

\* The texts are drawn again in the language chosen, and the selection on them.
renderChosenLanguage ==
    /\ extract_map_points # {} /\ MvInput
    /\ mvUi' = syncSelectedRow(mvUi.selected)
    /\ UNCHANGED mvRows

MvNext == (\E r \in extract_map_points : selectRow(r)) \/ renderChosenLanguage
-----------------------------------------------------------------------------
MvTypeOK ==
    /\ mvRows.pair \in BOOLEAN
    /\ mvRows.rows \in [MvIds -> [lat : Latitudes \cup {Bad}, lng : Longitudes \cup {Bad}, geo : Geometries]]
    /\ mvUi \in [selected : MvIds \cup {NoneSelected}, onMap : SUBSET MvIds, inList : SUBSET MvIds]
    /\ mvCounts \in 0..MvMaxInputs

\* A row is on the map if and only if it holds coordinates somewhere, and is listed among the
\* others if not; every marker is within the plane and over a tile of it (on the edge of one at
\* the poles); what is highlighted is the same on the map and in the list.
MvEveryRowPlaced ==
    /\ \A r \in MvIds :
          LET row == mvRows.rows[r]
              has == \/ mvRows.pair /\ row.lat # Bad /\ row.lng # Bad
                     \/ row.geo = <<6000, 2405>>
          IN  (r \in extract_map_points <=> has) /\ (r \in getRowsWithoutCoordinates <=> ~has)
    /\ mvUi.onMap = mvUi.inList /\ mvUi.onMap \subseteq extract_map_points
    /\ extract_map_points # {} => mvUi.onMap = {mvUi.selected}
    /\ extract_map_points # {} =>
          LET layer == createTileLayer IN
          \A p \in MvPoints :
             LET pixel == projectCoordinateToWorldPixel(p, layer.zoom)
             IN  /\ layer.bounds.x.from <= pixel.x /\ pixel.x <= layer.bounds.x.to
                 /\ layer.bounds.y.from <= pixel.y /\ pixel.y <= layer.bounds.y.to
                 /\ pixel.x \div TileSize \in layer.columns
                 /\ \/ pixel.y \div TileSize \in layer.lines
                    \/ pixel.y = Scale(layer.zoom) * TileSize /\ Scale(layer.zoom) - 1 \in layer.lines
=============================================================================
