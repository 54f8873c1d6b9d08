----------------------------- MODULE TravelTime -----------------------------
(***************************************************************************)
(* The two searches of the shortest path updater, for vehicles of one      *)
(* type: the Dijkstra search of batchQueryByNodeId, called with one target *)
(* everywhere, and the A* search of the worker threads.  Both keep one     *)
(* time and one direction per node: a later arrival at a node is dropped,  *)
(* although it might need no turn there.                                   *)
(*                                                                         *)
(* A search is the set of the states it may be in after so many steps.     *)
(***************************************************************************)
EXTENDS Integers, Sequences, FiniteSets, Functions

CONSTANTS
  Point,       \* indices of the nodes, natural numbers
  Link,        \* edges: pairs of points
  Weight,      \* Weight[l]: time to drive along edge l, its length over the speed of its start
  Heading,     \* Heading[l]: direction of edge l, 1 to 4
  X, Y,        \* coordinates, such that their difference takes that time at the map's speed
  NoPass,      \* points no vehicle of the type may pass
  NoTurn,      \* points where it may not turn
  TurnTime     \* TurnTime[p]: directionPenalty over the speed at p

ASSUME MapAssumption ==
  /\ Point \subseteq Nat
  /\ IsFiniteSet(Point)
  /\ Link \subseteq Point \X Point
  /\ Weight \in [Link -> Nat \ {0}]
  /\ Heading \in [Link -> 1 .. 4]
  /\ X \in [Point -> Int] /\ Y \in [Point -> Int]
  /\ NoPass \subseteq Point /\ NoTurn \subseteq Point
  /\ TurnTime \in [Point -> Nat]

NoRoute == -2    \* written for a pair without a route

Far == -1    \* no time yet: INF

Less(a, b) == b = Far \/ (a # Far /\ a < b)

Outgoing(p) == {q \in Point : <<p, q>> \in Link}

Abs(n) == IF n < 0 THEN -n ELSE n

\* minkowskiHeuristic with p = 1: longer than the edge where edges run diagonally.
Heuristic(a, b) == Abs(X[a] - X[b]) + Abs(Y[a] - Y[b])

\* Mutant: turning is free.
ArrivalMutant(time, dir, p, q) == time[p] + Weight[<<p, q>>]

\* The time at q when p is left for it, and whether p may be left that way.
Turns(dir, p, q) == dir[p] # 0 /\ dir[p] # Heading[<<p, q>>]

Arrival(time, dir, p, q) ==
  time[p] + Weight[<<p, q>>] + IF Turns(dir, p, q) THEN TurnTime[p] ELSE 0

MayLeave(dir, p, q) == ~(Turns(dir, p, q) /\ p \in NoTurn)

\* Times and directions after the arrivals at the points in better from p.
Times(st, p, better) ==
  [q \in Point |-> IF q \in better THEN Arrival(st.time, st.dir, p, q) ELSE st.time[q]]

Directions(st, p, better) ==
  [q \in Point |-> IF q \in better THEN Heading[<<p, q>>] ELSE st.dir[q]]

NoTime(s) == [p \in Point |-> IF p = s THEN 0 ELSE Far]

-----------------------------------------------------------------------------
(* isPathValid: a cheap test that is wrong only one way.                    *)

\* Points connected to s by edges in any direction: the sets of the union-find.
Connected(s) ==
  LET Grown[k \in 0 .. Cardinality(Point)] ==
        IF k = 0 THEN {s}
        ELSE UNION {{p} \cup {q \in Point : {<<p, q>>, <<q, p>>} \cap Link # {}} : p \in Grown[k - 1]}
  IN Grown[Cardinality(Point)]

\* Mutant: the end must have a way out, the start a way in.
PathValidMutant ==
  [pair \in Point \X Point |->
     /\ pair[2] \in Connected(pair[1])
     /\ \E q \in Point : <<q, pair[1]>> \in Link
     /\ \E q \in Point : <<pair[2], q>> \in Link]

PathValid ==
  [pair \in Point \X Point |->
     /\ pair[2] \in Connected(pair[1])
     /\ \E q \in Point : <<pair[1], q>> \in Link
     /\ \E q \in Point : <<q, pair[2]>> \in Link]

-----------------------------------------------------------------------------
(* batchQueryByNodeId with one target.                                      *)

\* Each edge that leads out of p and improves its end.
Expand(st, p) ==
  LET better == {q \in Outgoing(p) \ NoPass :
                   /\ MayLeave(st.dir, p, q)
                   /\ Less(Arrival(st.time, st.dir, p, q), st.time[q])}
  IN [st EXCEPT !.time = Times(st, p, better), !.dir = Directions(st, p, better),
                !.queue = @ \cup {<<Arrival(st.time, st.dir, p, q), q>> : q \in better}]

\* The queue is ordered by time, then by index.
IsFirst(entry, queue) ==
  \A other \in queue : entry[1] < other[1] \/ (entry[1] = other[1] /\ entry[2] <= other[2])

\* An entry that has been improved meanwhile is passed over.
DijkstraSteps(st, e) ==
  IF st.queue = {} \/ st.found THEN {st}
  ELSE {LET popped == [st EXCEPT !.queue = @ \ {first}] IN
        IF first[1] # st.time[first[2]] THEN popped
        ELSE IF first[2] = e THEN [popped EXCEPT !.found = TRUE]
        ELSE Expand(popped, first[2]) : first \in {entry \in st.queue : IsFirst(entry, st.queue)}}

Dijkstra(s, e) ==
  LET After[k \in 0 .. Cardinality(Link) + 2] ==
        IF k = 0 THEN {[time |-> NoTime(s), dir |-> [p \in Point |-> 0], queue |-> {<<0, s>>},
                        found |-> FALSE]}
        ELSE UNION {DijkstraSteps(st, e) : st \in After[k - 1]}
  IN After[Cardinality(Link) + 2]

\* What is written for the target.
BatchResults ==
  [pair \in Point \X Point |->
     IF pair[1] \in NoPass THEN {NoRoute}
     ELSE {IF st.found THEN st.time[pair[2]] ELSE NoRoute : st \in Dijkstra(pair[1], pair[2])}]

-----------------------------------------------------------------------------
(* shortestPathFinder.                                                      *)

\* Each edge that leads out of p to a point not closed.  A point in the heap keeps the key
\* it was put in with, and one that may not be passed is not put in.
Relax(st, p, e) ==
  LET better == {q \in Outgoing(p) \ st.closed :
                   /\ MayLeave(st.dir, p, q)
                   /\ Less(Arrival(st.time, st.dir, p, q), st.time[q])}
  IN [st EXCEPT !.time = Times(st, p, better), !.dir = Directions(st, p, better),
                !.key = [q \in Point |->
                           IF q \in better \ NoPass /\ st.key[q] = Far
                           THEN Arrival(st.time, st.dir, p, q) + Heuristic(q, e) ELSE st.key[q]]]

InHeap(st) == {p \in Point : st.key[p] # Far}

\* Which of several smallest entries is on top depends on the layout of the heap.
SmallestOf(st) == {p \in InHeap(st) : \A q \in InHeap(st) : st.key[p] <= st.key[q]}

AStarSteps(st, e) ==
  IF InHeap(st) = {} \/ st.last = e THEN {st}
  ELSE {LET popped == [st EXCEPT !.key[p] = Far, !.last = p] IN
        IF p = e THEN popped
        ELSE Relax([popped EXCEPT !.closed = @ \cup {p}], p, e) : p \in SmallestOf(st)}

AStar(s, e) ==
  LET After[k \in 0 .. Cardinality(Point)] ==
        IF k = 0
        THEN {[time |-> NoTime(s), dir |-> [p \in Point |-> 0], closed |-> {}, last |-> -1,
               key |-> [p \in Point |-> IF p = s THEN Heuristic(s, e) ELSE Far]]}
        ELSE UNION {AStarSteps(st, e) : st \in After[k - 1]}
  IN After[Cardinality(Point)]

\* What may be written for the pair.
SearchResults ==
  [pair \in Point \X Point |->
     IF pair[1] \in NoPass THEN {NoRoute}
     ELSE {IF st.last = pair[2] THEN st.time[pair[2]] ELSE NoRoute : st \in AStar(pair[1], pair[2])}]

-----------------------------------------------------------------------------
(* What the searches are about: the routes of the map.                      *)

\* The simple routes over points that may be passed, by their number of points.
Route ==
  LET Of[k \in 1 .. Cardinality(Point)] ==
        IF k = 1 THEN {<<p>> : p \in Point \ NoPass}
        ELSE LET shorter == Of[k - 1] IN
             UNION {{Append(r, q) : q \in Outgoing(r[k - 1]) \ (NoPass \cup Range(r))} : r \in shorter}
  IN UNION {Of[k] : k \in 1 .. Cardinality(Point)}

Routes(s, e) == {r \in Route : r[1] = s /\ r[Len(r)] = e}

TurnPoints(r) ==
  {i \in 2 .. Len(r) - 1 : Heading[<<r[i - 1], r[i]>>] # Heading[<<r[i], r[i + 1]>>]}

Drivable(r) == \A i \in TurnPoints(r) : r[i] \notin NoTurn

\* The time along a route, turns included.
TimeOf(r) ==
  LET UpTo[i \in 1 .. Len(r)] ==
        IF i = 1 THEN 0
        ELSE UpTo[i - 1] + Weight[<<r[i - 1], r[i]>>]
               + IF i - 1 \in TurnPoints(r) THEN TurnTime[r[i - 1]] ELSE 0
  IN UpTo[Len(r)]

\* The times of the routes that can be driven.
DrivenTimes ==
  [pair \in Point \X Point |->
     {TimeOf(r) : r \in {route \in Routes(pair[1], pair[2]) : Drivable(route)}}]

=============================================================================
