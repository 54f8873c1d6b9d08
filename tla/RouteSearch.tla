----------------------------- MODULE RouteSearch -----------------------------
(***************************************************************************)
(* RouteSearch: the A* search that plans every route.  AStarPathFinder     *)
(* runs it for a vehicle, around nodes that others hold; StaticPathTable   *)
(* runs it when the table of routes is made, several times for one pair,   *)
(* each time with the edges of the routes found so far made dear.          *)
(*                                                                         *)
(* A state of the search is an edge: the node and the one before it, which *)
(* a turn depends on.  The estimate is the Manhattan distance while the    *)
(* edges are as long as they are, so along a diagonal it is too large, and *)
(* a state may be closed before its best cost is known.                    *)
(*                                                                         *)
(* Costs are lengths: turns, edges used before and congested nodes count   *)
(* as a detour of so many units.                                           *)
(***************************************************************************)
EXTENDS Integers, Sequences, FiniteSets, FiniteSetsExt, Functions

CONSTANTS
  Node,          \* ids of the nodes
  X, Y,          \* their coordinates
  NoPass,        \* nodes whose allowPass is 0
  Problem,       \* pairs of a map, as its edges, and a request, see RequestType
  TurnPenalty, UsedPenalty, HotPenalty,
  TopK           \* how many routes the table keeps for a pair

NoNode == -1

\* find: banned nodes and barred edges are avoided and hot nodes cost more; table: nothing is.
RequestType ==
  [kind : {"find", "table"}, from : Node, goal : Node,
   banned : SUBSET Node, barred : SUBSET (Node \X Node), hot : SUBSET Node]

DX(a, b) == X[b] - X[a]
DY(a, b) == Y[b] - Y[a]

Magnitude(n) == IF n < 0 THEN -n ELSE n

heuristic(a, b) == Magnitude(DX(a, b)) + Magnitude(DY(a, b))

ASSUME RouteAssumption ==
  /\ Node \subseteq Nat /\ IsFiniteSet(Node)
  /\ X \in [Node -> Int] /\ Y \in [Node -> Int]
  /\ NoPass \subseteq Node
  /\ Problem \subseteq (SUBSET (Node \X Node)) \X RequestType
  /\ \A problem \in Problem :
       problem[2].kind = "table" =>
         /\ problem[2].from # problem[2].goal
         /\ problem[2].banned = {} /\ problem[2].barred = {} /\ problem[2].hot = {}
  /\ {TurnPenalty, UsedPenalty, HotPenalty} \subseteq Nat
  /\ TopK \in Nat \ {0}

\* Points are placed such that every edge has a whole length.
ASSUME LengthAssumption ==
  \A problem \in Problem : \A e \in problem[1] :
    \E n \in 0 .. heuristic(e[1], e[2]) :
      n * n = DX(e[1], e[2]) * DX(e[1], e[2]) + DY(e[1], e[2]) * DY(e[1], e[2])

VARIABLES
  roads,        \* the edges of the map
  request,
  pc,           \* "idle", "search", "keep", "done"
  open,         \* openSet: entries [prev, curr, g]
  closed,       \* closedSet
  gScores, cameFrom,
  result,       \* the route found and its distance
  kept,         \* candidates of the table: route, cost, quality
  used          \* penalizedEdges

vars == <<roads, request, pc, open, closed, gScores, cameFrom, result, kept, used>>

Step == (Node \cup {NoNode}) \X Node

NoResult == [path |-> <<>>, distance |-> 0]

-----------------------------------------------------------------------------
(* Costs.                                                                   *)

Length(a, b) ==
  CHOOSE n \in 0 .. heuristic(a, b) : n * n = DX(a, b) * DX(a, b) + DY(a, b) * DY(a, b)

\* Nothing straight on, twice the penalty for turning back.
Turn(prev, curr, next) ==
  LET cross == DX(prev, curr) * DY(curr, next) - DY(prev, curr) * DX(curr, next)
      dot == DX(prev, curr) * DX(curr, next) + DY(prev, curr) * DY(curr, next)
  IN CASE cross # 0 -> TurnPenalty
       [] cross = 0 /\ dot < 0 -> 2 * TurnPenalty
       [] OTHER -> 0

\* What it costs to go on from step s to the node n.
CostOf(s, n) ==
  Length(s[2], n)
    + (IF s[1] = NoNode THEN 0 ELSE Turn(s[1], s[2], n))
    + (IF <<s[2], n>> \in used THEN UsedPenalty ELSE 0)
    + (IF n \in request.hot THEN HotPenalty ELSE 0)

-----------------------------------------------------------------------------
(* The search.                                                              *)

Begin ==
  /\ open' = {[prev |-> NoNode, curr |-> request.from, g |-> 0]}
  /\ closed' = {}
  /\ gScores' = [s \in {<<NoNode, request.from>>} |-> 0]
  /\ cameFrom' = <<>>
  /\ pc' = "search"

\* Early answers of findPath: a vehicle that is there already, an end nobody may enter.
Trivial ==
  /\ pc = "idle"
  /\ request.kind = "find"
  /\ request.from = request.goal \/ request.goal \in NoPass
  /\ result' = IF request.goal \in NoPass THEN NoResult
               ELSE [path |-> <<request.from>>, distance |-> 0]
  /\ pc' = "done"
  /\ UNCHANGED <<roads, request, open, closed, gScores, cameFrom, kept, used>>

Start ==
  /\ pc = "idle"
  /\ ~(request.kind = "find" /\ (request.from = request.goal \/ request.goal \in NoPass))
  /\ Begin
  /\ UNCHANGED <<roads, request, result, kept, used>>

\* The smallest estimate first; among equal ones the layout of the heap decides.
Estimate(entry) == entry.g + heuristic(entry.curr, request.goal)

IsTop(entry) ==
  entry \in open /\ \A other \in open : Estimate(entry) <= Estimate(other)

Stale(entry) == entry.g > gScores[<<entry.prev, entry.curr>>]

\* Mutant: the end of a request is banned like any other node.
MayEnterMutant(p, n) ==
  request.kind = "find" =>
    n \notin NoPass /\ <<p, n>> \notin request.barred /\ n \notin request.banned

\* Whether n may be entered from p; the ends of a request may be banned.
MayEnter(p, n) ==
  request.kind = "find" =>
    /\ n \notin NoPass /\ <<p, n>> \notin request.barred
    /\ n \in request.banned => n = request.goal \/ n = request.from

\* Mutant: where one may not pass is asked of the goal only.
NeighboursMutant(p) ==
  {n \in Node : <<p, n>> \in roads /\ (n = request.goal \/ n \notin NoPass => MayEnter(p, n))}

Neighbours(p) == {n \in Node : <<p, n>> \in roads /\ MayEnter(p, n)}

\* Mutant: a closed step can be improved.
BetterMutant(entry, s) ==
  {n \in Neighbours(entry.curr) :
     LET t == <<entry.curr, n>> IN
     t \notin DOMAIN gScores \/ entry.g + CostOf(s, n) < gScores[t]}

\* Mutant: the first cost of a step stays.
ImprovesMutant(g, t) == t \notin DOMAIN gScores

\* A new step, or a cheaper way to a known one.
Improves(g, t) == t \notin DOMAIN gScores \/ g < gScores[t]

\* The nodes to which the step found by entry is the best way so far.
Better(entry, s) ==
  {n \in Neighbours(entry.curr) :
     /\ <<entry.curr, n>> \notin closed \cup {s}
     /\ Improves(entry.g + CostOf(s, n), <<entry.curr, n>>)}

PassOver(entry) ==
  /\ pc = "search"
  /\ IsTop(entry)
  /\ Stale(entry) \/ <<entry.prev, entry.curr>> \in closed
  /\ open' = open \ {entry}
  /\ UNCHANGED <<roads, request, pc, closed, gScores, cameFrom, result, kept, used>>

\* Mutant: an expanded step is not closed.
ClosedMutant(s) == closed

Closed(s) == closed \cup {s}

Expand(entry) ==
  LET s == <<entry.prev, entry.curr>>
      better == {<<entry.curr, n>> : n \in Better(entry, s)}
      Cost(t) == entry.g + CostOf(s, t[2])
  IN
  /\ pc = "search"
  /\ IsTop(entry)
  /\ ~Stale(entry)
  /\ entry.curr # request.goal
  /\ s \notin closed
  /\ closed' = Closed(s)
  /\ gScores' = [t \in DOMAIN gScores \cup better |-> IF t \in better THEN Cost(t) ELSE gScores[t]]
  /\ cameFrom' = [t \in DOMAIN cameFrom \cup better |-> IF t \in better THEN s ELSE cameFrom[t]]
  /\ open' = (open \ {entry}) \cup {[prev |-> t[1], curr |-> t[2], g |-> Cost(t)] : t \in better}
  /\ UNCHANGED <<roads, request, pc, result, kept, used>>

\* reconstructPath.
PathTo(s) ==
  LET To[t \in DOMAIN gScores] ==
        IF t \in DOMAIN cameFrom THEN Append(To[cameFrom[t]], t[2]) ELSE <<t[2]>>
  IN To[s]

Reach(entry) ==
  /\ pc = "search"
  /\ IsTop(entry)
  /\ ~Stale(entry)
  /\ entry.curr = request.goal
  /\ result' = [path |-> PathTo(<<entry.prev, entry.curr>>), distance |-> entry.g]
  /\ pc' = IF request.kind = "table" THEN "keep" ELSE "done"
  /\ UNCHANGED <<roads, request, open, closed, gScores, cameFrom, kept, used>>

Fail ==
  /\ pc = "search"
  /\ open = {}
  /\ result' = NoResult
  /\ pc' = "done"
  /\ UNCHANGED <<roads, request, open, closed, gScores, cameFrom, kept, used>>

-----------------------------------------------------------------------------
(* computeTopKPaths.                                                        *)

EdgesOf(path) == {<<path[i], path[i + 1]>> : i \in 1 .. Len(path) - 1}

TurnsOf(path) == {i \in 2 .. Len(path) - 1 : Turn(path[i - 1], path[i], path[i + 1]) > 0}

\* calculatePathDistance and calculatePathCost: what edges were used before does not count.
BaseCost(path) ==
  MapThenSumSet(LAMBDA i : Length(path[i], path[i + 1]), 1 .. Len(path) - 1)
    + MapThenSumSet(LAMBDA i : Turn(path[i - 1], path[i], path[i + 1]), 2 .. Len(path) - 1)

Quality(path) ==
  CASE kept = <<>> -> "OPTIMAL"
    [] kept # <<>> /\ Cardinality(TurnsOf(path)) < Cardinality(TurnsOf(kept[1].path)) -> "FAST"
    [] OTHER -> "SAFE"

\* A route that was found before ends the search for more.
Again == \E i \in DOMAIN kept : kept[i].path = result.path

Keep ==
  /\ pc = "keep"
  /\ ~Again
  /\ kept' = Append(kept, [path |-> result.path, cost |-> BaseCost(result.path),
                           quality |-> Quality(result.path)])
  /\ used' = used \cup EdgesOf(result.path)
  /\ IF Len(kept) + 1 < TopK THEN Begin
     ELSE pc' = "done" /\ UNCHANGED <<open, closed, gScores, cameFrom>>
  /\ UNCHANGED <<roads, request, result>>

Enough ==
  /\ pc = "keep"
  /\ Again
  /\ pc' = "done"
  /\ UNCHANGED <<roads, request, open, closed, gScores, cameFrom, result, kept, used>>

-----------------------------------------------------------------------------

Init ==
  /\ \E problem \in Problem : roads = problem[1] /\ request = problem[2]
  /\ pc = "idle"
  /\ open = {} /\ closed = {} /\ gScores = <<>> /\ cameFrom = <<>>
  /\ result = NoResult
  /\ kept = <<>> /\ used = {}

Next ==
  \/ Trivial
  \/ Start
  \/ \E entry \in open : PassOver(entry) \/ Expand(entry) \/ Reach(entry)
  \/ Fail
  \/ Keep
  \/ Enough

Spec == Init /\ [][Next]_vars

-----------------------------------------------------------------------------
(* Routes: what the search is about.                                        *)

\* A path along edges, over nodes that may be entered.
IsRoute(path) ==
  /\ path # <<>> /\ path[1] = request.from /\ path[Len(path)] = request.goal
  /\ EdgesOf(path) \subseteq roads
  /\ request.kind = "find" =>
       /\ EdgesOf(path) \cap request.barred = {}
       /\ \A i \in 2 .. Len(path) :
            /\ path[i] \notin NoPass
            /\ path[i] \in request.banned => path[i] \in {request.from, request.goal}

\* The step a path ends its first i nodes with.
StepOf(path, i) == <<IF i = 1 THEN NoNode ELSE path[i - 1], path[i]>>

\* The cost of a path for this request.
RouteCost(path) ==
  LET UpTo[i \in 1 .. Len(path)] ==
        IF i = 1 THEN 0 ELSE UpTo[i - 1] + CostOf(StepOf(path, i - 1), path[i])
  IN UpTo[Len(path)]

\* The simple routes.
SimpleRoutes ==
  LET Of[k \in 1 .. Cardinality(Node)] ==
        IF k = 1 THEN {<<request.from>>}
        ELSE LET shorter == Of[k - 1] IN
               UNION {{Append(r, n) : n \in {m \in Node : <<r[k - 1], m>> \in roads} \ Range(r)} :
                      r \in shorter}
  IN {r \in UNION {Of[k] : k \in 1 .. Cardinality(Node)} : IsRoute(r)}

\* No edge runs diagonally.
Rectangular == \A e \in roads : DX(e[1], e[2]) = 0 \/ DY(e[1], e[2]) = 0

\* A search has just ended with a route.
Found == result # NoResult /\ (pc = "keep" \/ (pc = "done" /\ request.kind = "find"))

-----------------------------------------------------------------------------

\* What is open has the cost of its step, or more; every step found goes back to the start.
TypeOK ==
  /\ <<roads, request>> \in Problem
  /\ pc \in {"idle", "search", "keep", "done"}
  /\ DOMAIN gScores \subseteq Step /\ Range(gScores) \subseteq Nat
  /\ closed \subseteq DOMAIN gScores
  /\ \A entry \in open : /\ <<entry.prev, entry.curr>> \in DOMAIN gScores
                         /\ entry.g >= gScores[<<entry.prev, entry.curr>>]
  /\ cameFrom # <<>> => /\ DOMAIN cameFrom = DOMAIN gScores \ {<<NoNode, request.from>>}
                        /\ Range(cameFrom) \subseteq closed
  /\ Len(kept) <= TopK /\ used \subseteq roads

\* A vehicle's route runs along edges from where it is to where it goes, enters no node whose
\* allowPass is 0, takes no barred edge and passes no banned node on its way.
FoundIsRoute == Found => IsRoute(result.path)

\* The distance of a route is the cost of that route: no step it goes back through was
\* improved after the route went on from it.
DistanceIsCost ==
  Found => result.distance = RouteCost(result.path)

\* When no route is found there is none, banned ends and all.
FailsOnlyWithoutRoute ==
  pc = "done" /\ result = NoResult =>
    request.goal \in NoPass \/ SimpleRoutes = {}

\* Where no edge runs diagonally, the route found is the cheapest.
CheapestOnGrid ==
  Found /\ Rectangular => \A r \in SimpleRoutes : result.distance <= RouteCost(r)

=============================================================================
