-------------------------- MODULE DistanceConflict --------------------------
(***************************************************************************)
(* The conflict groups that NodeReservationTable builds from a map         *)
(* (configureDistanceConflict): two nodes whose distance is at most the    *)
(* threshold exclude each other.  The code finds a node's group with a     *)
(* grid of square cells as wide as the threshold and looks only at the     *)
(* nine cells around the node.  Coordinates and threshold are doubles in   *)
(* the code and integers here, so rounding is not modelled.                *)
(***************************************************************************)
EXTENDS Integers

CONSTANTS
  Node,        \* node ids of every map
  Map,         \* the maps that can be loaded
  Position,    \* Position[m][n]: coordinates of node n on map m; a map need not have every node
  Threshold    \* thresholdMm; a value that is not positive leaves only the exact-node conflict

ASSUME MapAssumption ==
  /\ Threshold \in Int
  /\ \A m \in Map :
       /\ DOMAIN Position[m] \subseteq Node
       /\ \A n \in DOMAIN Position[m] :
            Position[m][n].x \in Int /\ Position[m][n].y \in Int

MapNodes(m) == DOMAIN Position[m]

Square(v) == v * v

DistSq(m, a, b) ==
  Square(Position[m][a].x - Position[m][b].x) + Square(Position[m][a].y - Position[m][b].y)

CellCoord(v) == v \div Threshold

\* One of the nine cells around a's cell holds b.
InNearbyCell(m, a, b) ==
  /\ CellCoord(Position[m][b].x) - CellCoord(Position[m][a].x) \in -1 .. 1
  /\ CellCoord(Position[m][b].y) - CellCoord(Position[m][a].y) \in -1 .. 1

\* configureDistanceConflict: the group stored for a node of the map.
NearbyNodeIds(m, a) ==
  {a} \cup IF Threshold > 0
             THEN {b \in MapNodes(m) : InNearbyCell(m, a, b) /\ DistSq(m, a, b) <= Square(Threshold)}
             ELSE {}

\* conflictNodeIdsFor: a node the index does not know conflicts only with itself.
ConflictIds(m, n) == IF n \in MapNodes(m) THEN NearbyNodeIds(m, n) ELSE {n}

=============================================================================
