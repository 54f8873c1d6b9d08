-------------------------- MODULE RouteSearch_proofs --------------------------
(***************************************************************************)
(* Proofs about RouteSearch, for every map, every request, any penalties   *)
(* and any heap layout: a route found is a route, its distance is its      *)
(* cost, no route is found only where there is none, and where no edge     *)
(* runs diagonally the route found is the cheapest.                        *)
(***************************************************************************)
EXTENDS RouteSearch, NumberSets, FiniteSetTheorems, TLAPS

-----------------------------------------------------------------------------
(* Distances.                                                               *)

\* The Manhattan distance is a distance.
LEMMA HeuristicDistance ==
  ASSUME NEW a \in Node, NEW b \in Node, NEW c \in Node
  PROVE  /\ heuristic(a, b) \in Nat
         /\ heuristic(a, a) = 0
         /\ heuristic(a, c) <= heuristic(a, b) + heuristic(b, c)
<1>1. /\ X[a] \in Int /\ X[b] \in Int /\ X[c] \in Int
      /\ Y[a] \in Int /\ Y[b] \in Int /\ Y[c] \in Int
  BY RouteAssumption
<1> QED BY <1>1 DEF heuristic, Magnitude, DX, DY

\* Squares of natural numbers are equal for equal numbers only.
LEMMA SquareRoot ==
  ASSUME NEW m \in Nat, NEW n \in Nat, m * m = n * n
  PROVE  m = n
<1>1. ASSUME NEW i \in Nat, NEW j \in Nat, i < j PROVE i * i < j * j
  <2>1. i * i <= i * j
    BY <1>1
  <2>2. i * j < j * j
    BY <1>1
  <2>3. i * i \in Int /\ i * j \in Int /\ j * j \in Int
    OBVIOUS
  <2> QED BY <2>1, <2>2, <2>3
<1>2. ~(m < n) /\ ~(n < m)
  BY <1>1
<1> QED BY <1>2

\* Edges have a length, which is the Manhattan distance unless they run diagonally.
LEMMA EdgeLength ==
  ASSUME <<roads, request>> \in Problem, NEW a, NEW b, <<a, b>> \in roads
  PROVE  /\ a \in Node /\ b \in Node
         /\ Length(a, b) \in Nat
         /\ DX(a, b) = 0 \/ DY(a, b) = 0 => Length(a, b) = heuristic(a, b)
<1>1. a \in Node /\ b \in Node
  BY RouteAssumption
<1>2. X[a] \in Int /\ X[b] \in Int /\ Y[a] \in Int /\ Y[b] \in Int
  BY <1>1, RouteAssumption
<1> DEFINE dx == DX(a, b)
           dy == DY(a, b)
<1>3. dx \in Int /\ dy \in Int
  BY <1>2 DEF DX, DY
<1>4. \E n \in 0 .. heuristic(a, b) : n * n = dx * dx + dy * dy
  BY LengthAssumption
<1>5. heuristic(a, b) \in Nat
  BY <1>1, HeuristicDistance
<1>6. Length(a, b) \in 0 .. heuristic(a, b) /\ Length(a, b) * Length(a, b) = dx * dx + dy * dy
  BY <1>4 DEF Length
<1>7. heuristic(a, b) = Magnitude(dx) + Magnitude(dy)
  BY DEF heuristic
<1> HIDE DEF dx, dy
<1>8. Magnitude(dx) \in Nat /\ Magnitude(dy) \in Nat
  BY <1>3 DEF Magnitude
<1>9. Magnitude(dx) * Magnitude(dx) = dx * dx /\ Magnitude(dy) * Magnitude(dy) = dy * dy
  BY <1>3 DEF Magnitude
<1>10. CASE dx = 0
  <2>1. Length(a, b) * Length(a, b) = Magnitude(dy) * Magnitude(dy) /\ Magnitude(dx) = 0
    BY <1>3, <1>6, <1>9, <1>10 DEF Magnitude
  <2>2. Length(a, b) = Magnitude(dy)
    BY <1>5, <1>6, <1>8, <2>1, SquareRoot
  <2> QED BY <1>1, <1>7, <1>8, <2>1, <2>2
<1>11. CASE dy = 0
  <2>1. Length(a, b) * Length(a, b) = Magnitude(dx) * Magnitude(dx) /\ Magnitude(dy) = 0
    BY <1>3, <1>6, <1>9, <1>11 DEF Magnitude
  <2>2. Length(a, b) = Magnitude(dx)
    BY <1>5, <1>6, <1>8, <2>1, SquareRoot
  <2> QED BY <1>1, <1>7, <1>8, <2>1, <2>2
<1>12. CASE dx # 0 /\ dy # 0
  BY <1>1, <1>5, <1>6, <1>12 DEF dx, dy
<1> QED BY <1>10, <1>11, <1>12

\* Going on along an edge costs at least its length.
LEMMA StepCost ==
  ASSUME <<roads, request>> \in Problem, NEW s \in Step, NEW n, <<s[2], n>> \in roads
  PROVE  /\ CostOf(s, n) \in Nat
         /\ Length(s[2], n) <= CostOf(s, n)
<1>1. Length(s[2], n) \in Nat /\ s[2] \in Node /\ n \in Node
  BY EdgeLength
<1>2. TurnPenalty \in Nat /\ UsedPenalty \in Nat /\ HotPenalty \in Nat
  BY RouteAssumption
<1>3. Turn(s[1], s[2], n) \in Nat
  <2> DEFINE cross == DX(s[1], s[2]) * DY(s[2], n) - DY(s[1], s[2]) * DX(s[2], n)
             dot == DX(s[1], s[2]) * DX(s[2], n) + DY(s[1], s[2]) * DY(s[2], n)
  <2>1. Turn(s[1], s[2], n) = CASE cross # 0 -> TurnPenalty
                                [] cross = 0 /\ dot < 0 -> 2 * TurnPenalty
                                [] OTHER -> 0
    BY DEF Turn
  <2> HIDE DEF cross, dot
  <2> QED BY <1>2, <2>1
<1> DEFINE t == IF s[1] = NoNode THEN 0 ELSE Turn(s[1], s[2], n)
           u == IF <<s[2], n>> \in used THEN UsedPenalty ELSE 0
           h == IF n \in request.hot THEN HotPenalty ELSE 0
<1>4. t \in Nat /\ u \in Nat /\ h \in Nat
  BY <1>2, <1>3
<1>5. CostOf(s, n) = Length(s[2], n) + t + u + h
  BY DEF CostOf
<1> HIDE DEF t, u, h
<1> QED BY <1>1, <1>4, <1>5

-----------------------------------------------------------------------------
(* The invariant of a search.                                               *)

Origin == <<NoNode, request.from>>

Entry == [prev : Node \cup {NoNode}, curr : Node, g : Nat]

StepIn(entry) == <<entry.prev, entry.curr>>

\* The scores, the closed and the open steps fit together, in every state.
Shape ==
  /\ <<roads, request>> \in Problem
  /\ pc \in {"idle", "search", "keep", "done"}
  /\ gScores \in [DOMAIN gScores -> Nat] /\ DOMAIN gScores \subseteq Step
  /\ closed \subseteq DOMAIN gScores
  /\ open \subseteq Entry
  /\ \A entry \in open : /\ StepIn(entry) \in DOMAIN gScores
                         /\ entry.g >= gScores[StepIn(entry)]
  /\ cameFrom \in [DOMAIN gScores \ {Origin} -> closed]

\* Every step found follows its parent, for the cost of going on from it; what is not closed
\* is open with its best cost; the neighbours of what is closed have been found.
SearchInv ==
  /\ Origin \in DOMAIN gScores /\ gScores[Origin] = 0
  /\ \A t \in DOMAIN gScores \ {Origin} :
       /\ t[2] \in Neighbours(t[1])
       /\ cameFrom[t][2] = t[1]
       /\ gScores[t] = gScores[cameFrom[t]] + CostOf(cameFrom[t], t[2])
  /\ \A t \in DOMAIN gScores \ closed :
       \E entry \in open : StepIn(entry) = t /\ entry.g = gScores[t]
  /\ \A c \in closed : /\ c[2] # request.goal
                       /\ \A n \in Neighbours(c[2]) : <<c[2], n>> \in DOMAIN gScores

\* Where no edge runs diagonally, no open entry promises less than a closed step did, and no
\* step is dearer than by way of a closed one.
GridInv ==
  Rectangular =>
    /\ \A c \in closed : \A entry \in open :
         gScores[c] + heuristic(c[2], request.goal) <= Estimate(entry)
    /\ \A c \in closed : \A n \in Neighbours(c[2]) :
         gScores[<<c[2], n>>] <= gScores[c] + CostOf(c, n)

\* The steps of a path are found, each from the one before it, from the origin on to t.
IsTrace(path, t) ==
  /\ path \in Seq(Node) /\ path # <<>>
  /\ path[1] = request.from
  /\ StepOf(path, Len(path)) = t
  /\ \A i \in 1 .. Len(path) : StepOf(path, i) \in DOMAIN gScores
  /\ \A i \in 2 .. Len(path) : cameFrom[StepOf(path, i)] = StepOf(path, i - 1)

\* PathTo is defined for every step found, and returns its trace.
TraceInv ==
  \E To \in [DOMAIN gScores -> Seq(Node)] :
    \A t \in DOMAIN gScores :
      /\ IsTrace(To[t], t)
      /\ To[t] = IF t \in DOMAIN cameFrom THEN Append(To[cameFrom[t]], t[2]) ELSE <<t[2]>>

-----------------------------------------------------------------------------
(* What Expand changes.                                                     *)

\* The steps that entry is expanded to.
NewSteps(entry) == {<<entry.curr, n>> : n \in Better(entry, StepIn(entry))}

\* The expanded step has its best cost, and no open entry promises less.
LEMMA ExpandedStep ==
  ASSUME Shape, NEW entry \in open, Expand(entry)
  PROVE  /\ entry \in Entry
         /\ StepIn(entry) \in DOMAIN gScores /\ StepIn(entry) \in Step
         /\ StepIn(entry)[1] = entry.prev /\ StepIn(entry)[2] = entry.curr
         /\ StepIn(entry) \notin closed
         /\ entry.g = gScores[StepIn(entry)] /\ entry.g \in Nat
         /\ entry.curr # request.goal /\ entry.curr \in Node
         /\ \A other \in open : Estimate(entry) <= Estimate(other)
         /\ UNCHANGED <<roads, request, pc, result, kept, used>>
         /\ closed' = closed \cup {StepIn(entry)}
<1>1. /\ entry \in Entry /\ StepIn(entry) \in DOMAIN gScores
      /\ entry.g >= gScores[StepIn(entry)]
  BY DEF Shape
<1>2. entry.g \in Nat /\ entry.curr \in Node /\ StepIn(entry) \in Step
  BY <1>1 DEF Entry, Step, StepIn
<1>3. gScores[StepIn(entry)] \in Nat
  BY <1>1 DEF Shape
<1>4. ~(entry.g > gScores[StepIn(entry)])
  BY DEF Expand, Stale, StepIn
<1>5. entry.g = gScores[StepIn(entry)]
  BY <1>1, <1>2, <1>3, <1>4
<1>6. \A other \in open : Estimate(entry) <= Estimate(other)
  BY DEF Expand, IsTop
<1>7. /\ UNCHANGED <<roads, request, pc, result, kept, used>>
      /\ closed' = closed \cup {StepIn(entry)}
      /\ StepIn(entry) \notin closed
      /\ entry.curr # request.goal
  BY DEF Expand, StepIn, Closed
<1>8. StepIn(entry)[1] = entry.prev /\ StepIn(entry)[2] = entry.curr
  BY DEF StepIn
<1> QED BY <1>1, <1>2, <1>5, <1>6, <1>7, <1>8

\* The new steps, which are neither closed nor the origin, get the expanded step for a parent
\* and what it costs to go on from it; all others keep theirs.
LEMMA ExpandScores ==
  ASSUME Shape, NEW entry \in open, Expand(entry)
  PROVE  /\ \A t \in NewSteps(entry) :
              /\ t \in Step /\ t[1] = entry.curr /\ t[2] \in Neighbours(entry.curr)
              /\ t # Origin /\ t \notin closed'
              /\ CostOf(StepIn(entry), t[2]) \in Nat
              /\ gScores'[t] = entry.g + CostOf(StepIn(entry), t[2])
              /\ cameFrom'[t] = StepIn(entry)
              /\ t \in DOMAIN gScores => gScores'[t] <= gScores[t]
         /\ \A t \in DOMAIN gScores \ NewSteps(entry) :
              /\ gScores'[t] = gScores[t]
              /\ t # Origin => cameFrom'[t] = cameFrom[t]
         /\ DOMAIN gScores' = DOMAIN gScores \cup NewSteps(entry)
         /\ DOMAIN cameFrom' = DOMAIN cameFrom \cup NewSteps(entry)
         /\ gScores' \in [DOMAIN gScores' -> Nat]
         /\ cameFrom' \in [DOMAIN gScores' \ {Origin} -> closed']
         /\ DOMAIN gScores' \subseteq Step
<1> DEFINE s == StepIn(entry)
           New == NewSteps(entry)
<1>1. /\ s \in DOMAIN gScores /\ s \in Step /\ s[2] = entry.curr /\ entry.curr \in Node
      /\ s \notin closed /\ entry.g \in Nat /\ closed' = closed \cup {s}
  BY ExpandedStep
<1>2. /\ gScores' = [t \in DOMAIN gScores \cup New |->
                       IF t \in New THEN entry.g + CostOf(s, t[2]) ELSE gScores[t]]
      /\ cameFrom' = [t \in DOMAIN cameFrom \cup New |-> IF t \in New THEN s ELSE cameFrom[t]]
  BY DEF Expand, NewSteps, StepIn
<1>3. ASSUME NEW t \in New
      PROVE  /\ t \in Step /\ t[1] = entry.curr /\ t[2] \in Neighbours(entry.curr)
             /\ t # Origin /\ t \notin closed /\ t # s
             /\ CostOf(s, t[2]) \in Nat
             /\ t \in DOMAIN gScores => entry.g + CostOf(s, t[2]) <= gScores[t]
  <2>1. PICK n \in Better(entry, s) : t = <<entry.curr, n>>
    BY DEF NewSteps
  <2>2. n \in Neighbours(entry.curr) /\ n \in Node /\ <<entry.curr, n>> \in roads
    BY DEF Better, Neighbours
  <2>3. t[1] = entry.curr /\ t[2] = n /\ t \in Step
    BY <1>1, <2>1, <2>2 DEF Step
  <2>4. t # Origin
    BY <1>1, <2>1, RouteAssumption DEF Origin, NoNode
  <2>5. CostOf(s, n) \in Nat
    BY <1>1, <2>2, StepCost DEF Shape
  <2>6. t \notin closed /\ t # s /\ Improves(entry.g + CostOf(s, n), t)
    BY <2>1 DEF Better
  <2>7. t \in DOMAIN gScores => entry.g + CostOf(s, n) < gScores[t] /\ gScores[t] \in Nat
    BY <2>6 DEF Improves, Shape
  <2>8. t \in DOMAIN gScores => entry.g + CostOf(s, n) <= gScores[t]
    BY <1>1, <2>5, <2>7
  <2> QED BY <2>2, <2>3, <2>4, <2>5, <2>6, <2>8
<1> HIDE DEF s, New
<1>4. DOMAIN gScores' = DOMAIN gScores \cup New /\ DOMAIN cameFrom' = DOMAIN cameFrom \cup New
  BY <1>2
<1>5. \A t \in New : gScores'[t] = entry.g + CostOf(s, t[2]) /\ cameFrom'[t] = s
  BY <1>2
<1>6. DOMAIN cameFrom = DOMAIN gScores \ {Origin}
  BY DEF Shape
<1>7. \A t \in DOMAIN gScores \ New :
        gScores'[t] = gScores[t] /\ (t # Origin => cameFrom'[t] = cameFrom[t])
  BY <1>2, <1>6
<1>8. gScores' \in [DOMAIN gScores' -> Nat]
  <2>1. \A t \in New : entry.g + CostOf(s, t[2]) \in Nat
    BY <1>1, <1>3
  <2>2. \A t \in DOMAIN gScores : gScores[t] \in Nat
    BY DEF Shape
  <2> QED BY <1>2, <2>1, <2>2
<1>9. cameFrom' \in [DOMAIN gScores' \ {Origin} -> closed']
  <2>1. \A t \in DOMAIN gScores \ {Origin} : cameFrom[t] \in closed
    BY DEF Shape
  <2>2. DOMAIN gScores' \ {Origin} = DOMAIN cameFrom \cup New
    BY <1>3, <1>4, <1>6
  <2> QED BY <1>1, <1>2, <1>6, <2>1, <2>2
<1>10. DOMAIN gScores' \subseteq Step
  BY <1>3, <1>4 DEF Shape
<1>11. \A t \in New : t \notin closed'
  BY <1>1, <1>3
<1> QED BY <1>3, <1>4, <1>5, <1>7, <1>8, <1>9, <1>10, <1>11 DEF s, New

\* Each new step is open with its cost; of the other entries, only the expanded one goes.
LEMMA ExpandOpens ==
  ASSUME Shape, NEW entry \in open, Expand(entry)
  PROVE  /\ \A other \in open : other = entry \/ other \in open'
         /\ \A t \in NewSteps(entry) :
              \E other \in open' : StepIn(other) = t /\ other.g = gScores'[t]
         /\ \A other \in open' :
              \/ other \in open /\ other # entry
              \/ /\ other \in Entry /\ StepIn(other) \in NewSteps(entry)
                 /\ other.g = gScores'[StepIn(other)]
<1> DEFINE Cost(t) == entry.g + CostOf(StepIn(entry), t[2])
           EntryOf(t) == [prev |-> t[1], curr |-> t[2], g |-> Cost(t)]
<1>1. open' = (open \ {entry}) \cup {EntryOf(t) : t \in NewSteps(entry)}
  BY DEF Expand, NewSteps, StepIn
<1>2. ASSUME NEW t \in NewSteps(entry)
      PROVE  EntryOf(t) \in Entry /\ StepIn(EntryOf(t)) = t /\ EntryOf(t).g = gScores'[t]
  <2>1. /\ t \in Step /\ t \in DOMAIN gScores' /\ gScores' \in [DOMAIN gScores' -> Nat]
        /\ gScores'[t] = Cost(t)
    BY ExpandScores
  <2>2. t = <<t[1], t[2]>> /\ t[1] \in Node \cup {NoNode} /\ t[2] \in Node
    BY <2>1 DEF Step
  <2> QED BY <2>1, <2>2 DEF Entry, StepIn
<1> HIDE DEF EntryOf
<1> QED BY <1>1, <1>2

-----------------------------------------------------------------------------
(* The steps of a search.                                                   *)

\* Neighbours, costs and routes depend on the map, the request and the edges used before.
LEMMA SameMap ==
  ASSUME UNCHANGED <<roads, request, used>>
  PROVE  /\ Origin' = Origin
         /\ \A p : Neighbours(p)' = Neighbours(p)
         /\ \A s, n : CostOf(s, n)' = CostOf(s, n)
         /\ \A r : IsRoute(r)' <=> IsRoute(r)
         /\ Rectangular' <=> Rectangular
         /\ \A entry : Estimate(entry)' = Estimate(entry)
<1>1. \A p, n : MayEnter(p, n)' <=> MayEnter(p, n)
  BY DEF MayEnter
<1>2. \A p : Neighbours(p)' = Neighbours(p)
  BY <1>1 DEF Neighbours
<1>3. \A s, n : CostOf(s, n)' = CostOf(s, n)
  BY DEF CostOf
<1>4. \A r : IsRoute(r)' <=> IsRoute(r)
  BY DEF IsRoute
<1> QED BY <1>2, <1>3, <1>4 DEF Origin, Rectangular, Estimate

\* A search begins with the origin, open and for nothing.
LEMMA BeginSearch ==
  ASSUME <<roads, request>> \in Problem, UNCHANGED <<roads, request>>, Begin
  PROVE  Shape' /\ SearchInv' /\ GridInv' /\ TraceInv'
<1> DEFINE first == [prev |-> NoNode, curr |-> request.from, g |-> 0]
<1>1. /\ open' = {first} /\ closed' = {} /\ pc' = "search" /\ cameFrom' = <<>>
      /\ gScores' = [s \in {Origin} |-> 0]
  BY DEF Begin, Origin
<1>2. request.from \in Node
  BY RouteAssumption DEF RequestType
<1>3. Origin' = Origin /\ Origin \in Step /\ Origin[2] = request.from
  BY <1>2 DEF Origin, Step
<1>4. first \in Entry /\ StepIn(first) = Origin /\ first.g = 0
  BY <1>2 DEF Entry, StepIn, Origin
<1> HIDE DEF first
<1>5. DOMAIN gScores' = {Origin} /\ gScores'[Origin] = 0
  BY <1>1
<1>6. cameFrom' \in [{} -> {}] /\ DOMAIN cameFrom' = {}
  BY <1>1
<1>7. Shape'
  <2>1. gScores' \in [DOMAIN gScores' -> Nat]
    BY <1>1, <1>5
  <2>2. DOMAIN gScores' \ {Origin'} = {}
    BY <1>3, <1>5
  <2>3. cameFrom' \in [DOMAIN gScores' \ {Origin'} -> closed']
    BY <1>1, <1>6, <2>2
  <2> QED BY <1>1, <1>3, <1>4, <1>5, <2>1, <2>3 DEF Shape, StepIn
<1>8. SearchInv'
  BY <1>1, <1>3, <1>4, <1>5 DEF SearchInv, StepIn
<1>9. GridInv'
  BY <1>1 DEF GridInv
<1>10. TraceInv'
  <2>1. PICK p, o : p = <<request.from>> /\ o = Origin
    OBVIOUS
  <2> DEFINE To == [s \in {o} |-> p]
  <2>2. /\ p \in Seq(Node) /\ p # <<>> /\ Len(p) = 1 /\ p[1] = request'.from
        /\ StepOf(p, 1) = o
    BY <1>2, <2>1 DEF StepOf, Origin
  <2>3. IsTrace(p, o)'
    <3>1. \A i \in 2 .. Len(p) : FALSE
      BY <2>2
    <3>2. \A i \in 1 .. Len(p) : i = 1
      BY <2>2
    <3> QED BY <1>5, <2>1, <2>2, <3>1, <3>2 DEF IsTrace, StepOf
  <2>4. p = <<o[2]>>
    BY <1>3, <2>1
  <2>5. To \in [DOMAIN gScores' -> Seq(Node)] /\ To[o] = p
    BY <1>5, <2>1, <2>2
  <2>6. \A t \in DOMAIN gScores' : t = o /\ t \notin DOMAIN cameFrom'
    BY <1>5, <1>6, <2>1
  <2> HIDE DEF To
  <2>7. \A t \in DOMAIN gScores' :
          /\ IsTrace(To[t], t)'
          /\ To[t] = IF t \in DOMAIN cameFrom' THEN Append(To[cameFrom'[t]], t[2]) ELSE <<t[2]>>
    BY <2>3, <2>4, <2>5, <2>6
  <2> QED BY <2>5, <2>7 DEF TraceInv
<1> QED BY <1>7, <1>8, <1>9, <1>10

\* Passing an entry over loses nothing: its step is closed, or open with a better cost.
LEMMA PassOverSearch ==
  ASSUME Shape, SearchInv, GridInv, TraceInv, NEW entry \in open, PassOver(entry)
  PROVE  Shape' /\ SearchInv' /\ GridInv' /\ TraceInv'
<1>1. /\ UNCHANGED <<roads, request, pc, closed, gScores, cameFrom, used>>
      /\ open' = open \ {entry}
      /\ Stale(entry) \/ StepIn(entry) \in closed
  BY DEF PassOver, StepIn
<1>2. /\ Origin' = Origin
      /\ \A p : Neighbours(p)' = Neighbours(p)
      /\ \A s, n : CostOf(s, n)' = CostOf(s, n)
      /\ Rectangular' <=> Rectangular
      /\ \A other : Estimate(other)' = Estimate(other)
  BY <1>1, SameMap
<1>3. Shape'
  BY <1>1, <1>2 DEF Shape, StepIn
<1>4. SearchInv'
  <2>1. \A t \in DOMAIN gScores \ closed :
          \E other \in open' : StepIn(other) = t /\ other.g = gScores[t]
    <3> TAKE t \in DOMAIN gScores \ closed
    <3>1. PICK other \in open : StepIn(other) = t /\ other.g = gScores[t]
      BY DEF SearchInv
    <3>2. other.g \in Nat
      BY DEF Shape, Entry
    <3>3. other # entry
      BY <1>1, <3>1, <3>2 DEF Stale, StepIn
    <3> QED BY <1>1, <3>1, <3>3
  <2> QED BY <1>1, <1>2, <2>1 DEF SearchInv, StepIn
<1>5. GridInv'
  BY <1>1, <1>2 DEF GridInv
<1>6. TraceInv'
  <2>1. \A p, t : IsTrace(p, t)' <=> IsTrace(p, t)
    BY <1>1 DEF IsTrace, StepOf
  <2> QED BY <1>1, <2>1 DEF TraceInv
<1> QED BY <1>3, <1>4, <1>5, <1>6

\* Expanding a step keeps the shape.
LEMMA ExpandShape ==
  ASSUME Shape, NEW entry \in open, Expand(entry)
  PROVE  Shape'
<1>1. /\ UNCHANGED <<roads, request, pc, used>> /\ closed' = closed \cup {StepIn(entry)}
      /\ StepIn(entry) \in DOMAIN gScores
  BY ExpandedStep
<1>2. Origin' = Origin
  BY <1>1 DEF Origin
<1>3. /\ DOMAIN gScores' = DOMAIN gScores \cup NewSteps(entry)
      /\ gScores' \in [DOMAIN gScores' -> Nat]
      /\ cameFrom' \in [DOMAIN gScores' \ {Origin} -> closed']
      /\ DOMAIN gScores' \subseteq Step
      /\ \A t \in DOMAIN gScores : gScores'[t] <= gScores[t]
  <2>1. \A t \in DOMAIN gScores \ NewSteps(entry) : gScores'[t] = gScores[t]
    BY ExpandScores
  <2>2. \A t \in DOMAIN gScores : gScores[t] \in Nat /\ gScores[t] <= gScores[t]
    BY DEF Shape
  <2>3. \A t \in NewSteps(entry) : t \in DOMAIN gScores => gScores'[t] <= gScores[t]
    BY ExpandScores
  <2>4. \A t \in DOMAIN gScores : gScores'[t] <= gScores[t]
    BY <2>1, <2>2, <2>3
  <2> QED BY <2>4, ExpandScores
<1>4. ASSUME NEW other \in open'
      PROVE  /\ other \in Entry /\ StepIn(other) \in DOMAIN gScores'
             /\ other.g >= gScores'[StepIn(other)]
  <2>1. CASE other \in open
    <3>1. /\ other \in Entry /\ other.g \in Nat /\ StepIn(other) \in DOMAIN gScores
          /\ other.g >= gScores[StepIn(other)]
      BY <2>1 DEF Shape, Entry
    <3>2. gScores'[StepIn(other)] \in Nat /\ gScores[StepIn(other)] \in Nat
      BY <1>3, <3>1 DEF Shape
    <3> QED BY <1>3, <3>1, <3>2
  <2>2. CASE StepIn(other) \in NewSteps(entry) /\ other \in Entry /\ other.g = gScores'[StepIn(other)]
    <3>1. gScores'[StepIn(other)] \in Nat
      BY <1>3, <2>2
    <3> QED BY <1>3, <2>2, <3>1
  <2> QED BY <2>1, <2>2, ExpandOpens
<1> QED BY <1>1, <1>2, <1>3, <1>4 DEF Shape, StepIn

\* Expanding a step keeps the ties between scores, parents, open and closed steps.
LEMMA ExpandSearch ==
  ASSUME Shape, SearchInv, NEW entry \in open, Expand(entry)
  PROVE  SearchInv'
<1> DEFINE s == StepIn(entry)
           New == NewSteps(entry)
<1>1. /\ UNCHANGED <<roads, request, pc, used>> /\ closed' = closed \cup {s}
      /\ s \in DOMAIN gScores /\ s \notin closed /\ s[2] = entry.curr /\ s[2] # request.goal
      /\ entry.g = gScores[s] /\ s \in Step
  BY ExpandedStep
<1>2. /\ Origin' = Origin
      /\ \A p : Neighbours(p)' = Neighbours(p)
      /\ \A c, n : CostOf(c, n)' = CostOf(c, n)
  BY <1>1, SameMap
<1>3. /\ \A t \in New :
           /\ t[1] = s[2] /\ t[2] \in Neighbours(t[1])
           /\ t # Origin /\ t \notin closed'
           /\ gScores'[t] = gScores[s] + CostOf(s, t[2])
           /\ cameFrom'[t] = s
      /\ \A t \in DOMAIN gScores \ New :
           gScores'[t] = gScores[t] /\ (t # Origin => cameFrom'[t] = cameFrom[t])
      /\ DOMAIN gScores' = DOMAIN gScores \cup New
  <2>1. /\ \A t \in New :
             /\ t[1] = entry.curr /\ t[2] \in Neighbours(entry.curr)
             /\ t # Origin /\ t \notin closed'
             /\ gScores'[t] = entry.g + CostOf(s, t[2])
             /\ cameFrom'[t] = s
        /\ \A t \in DOMAIN gScores \ New :
             gScores'[t] = gScores[t] /\ (t # Origin => cameFrom'[t] = cameFrom[t])
        /\ DOMAIN gScores' = DOMAIN gScores \cup New
    BY ExpandScores
  <2> HIDE DEF s, New
  <2> QED BY <1>1, <2>1
<1>4. \A c \in closed' : c \in DOMAIN gScores /\ c \notin New /\ gScores'[c] = gScores[c]
  BY <1>1, <1>3 DEF Shape
<1>5. \A t \in DOMAIN gScores \ {Origin} : cameFrom[t] \in closed
  BY DEF Shape
<1>6. ASSUME NEW t \in DOMAIN gScores' \ {Origin}
      PROVE  /\ t[2] \in Neighbours(t[1]) /\ cameFrom'[t][2] = t[1]
             /\ gScores'[t] = gScores'[cameFrom'[t]] + CostOf(cameFrom'[t], t[2])
  <2>1. CASE t \in New
    BY <1>1, <1>3, <1>4, <2>1
  <2>2. CASE t \notin New
    <3>1. /\ t \in DOMAIN gScores \ {Origin}
          /\ cameFrom'[t] = cameFrom[t] /\ gScores'[t] = gScores[t] /\ cameFrom[t] \in closed'
      BY <1>1, <1>3, <1>5, <2>2
    <3>2. gScores'[cameFrom[t]] = gScores[cameFrom[t]]
      BY <1>4, <3>1
    <3> QED BY <3>1, <3>2 DEF SearchInv
  <2> QED BY <2>1, <2>2
<1>7. ASSUME NEW t \in DOMAIN gScores' \ closed'
      PROVE  \E other \in open' : StepIn(other) = t /\ other.g = gScores'[t]
  <2>1. CASE t \in New
    BY <2>1, ExpandOpens
  <2>2. CASE t \notin New
    <3>1. t \in DOMAIN gScores \ closed /\ t # s /\ gScores'[t] = gScores[t]
      BY <1>1, <1>3, <2>2
    <3>2. PICK other \in open : StepIn(other) = t /\ other.g = gScores[t]
      BY <3>1 DEF SearchInv
    <3>3. other \in open'
      BY <3>1, <3>2, ExpandOpens
    <3> QED BY <3>1, <3>2, <3>3
  <2> QED BY <2>1, <2>2
<1>8. ASSUME NEW n \in Neighbours(s[2])
      PROVE  <<s[2], n>> \in DOMAIN gScores'
  <2> DEFINE t == <<s[2], n>>
  <2>1. CASE t \in New
    BY <1>3, <2>1
  <2>2. CASE t \in closed'
    BY <1>3, <1>4, <2>2
  <2>3. CASE t \notin New /\ t \notin closed'
    <3>1. ~Improves(entry.g + CostOf(s, n), t)
      BY <1>1, <2>3 DEF NewSteps, Better
    <3> QED BY <1>3, <3>1 DEF Improves
  <2> QED BY <2>1, <2>2, <2>3
<1>9. \A c \in closed' : /\ c[2] # request.goal
                         /\ \A n \in Neighbours(c[2]) : <<c[2], n>> \in DOMAIN gScores'
  BY <1>1, <1>3, <1>8 DEF SearchInv
<1>10. Origin \in DOMAIN gScores' /\ gScores'[Origin] = 0
  BY <1>3 DEF SearchInv
<1> HIDE DEF s, New
<1> QED BY <1>1, <1>2, <1>6, <1>7, <1>9, <1>10 DEF SearchInv, StepIn

\* All steps of a trace but the last are closed, and only the first is the origin.
LEMMA TraceSteps ==
  ASSUME Shape, NEW path, NEW t, IsTrace(path, t)
  PROVE  /\ Len(path) \in Nat \ {0}
         /\ \A i \in 1 .. Len(path) - 1 : StepOf(path, i) \in closed
         /\ \A i \in 2 .. Len(path) : StepOf(path, i) # Origin
         /\ StepOf(path, 1) = Origin
<1>1. path \in Seq(Node) /\ path # <<>> /\ Len(path) \in Nat \ {0}
  BY DEF IsTrace
<1>2. \A i \in 2 .. Len(path) : StepOf(path, i) # Origin
  <2> TAKE i \in 2 .. Len(path)
  <2>1. i - 1 \in 1 .. Len(path) /\ i # 1
    BY <1>1
  <2>2. path[i - 1] \in Node
    BY <1>1, <2>1
  <2>3. NoNode \notin Node
    BY RouteAssumption DEF NoNode
  <2> QED BY <2>1, <2>2, <2>3 DEF StepOf, Origin
<1>3. ASSUME NEW i \in 1 .. Len(path) - 1 PROVE StepOf(path, i) \in closed
  <2>1. i + 1 \in 2 .. Len(path) /\ i + 1 \in 1 .. Len(path) /\ (i + 1) - 1 = i
    BY <1>1
  <2>2. StepOf(path, i + 1) \in DOMAIN gScores \ {Origin}
    BY <1>2, <2>1 DEF IsTrace
  <2>3. cameFrom[StepOf(path, i + 1)] = StepOf(path, i)
    BY <2>1 DEF IsTrace
  <2> QED BY <2>2, <2>3 DEF Shape
<1>4. StepOf(path, 1) = Origin
  BY DEF IsTrace, StepOf, Origin
<1> QED BY <1>1, <1>2, <1>3, <1>4

\* The trace of a step stays as it is while the step keeps its parent.
LEMMA TraceStays ==
  ASSUME Shape, NEW entry \in open, Expand(entry),
         NEW path, NEW t, t \notin NewSteps(entry), IsTrace(path, t)
  PROVE  IsTrace(path, t)' /\ \A i \in 1 .. Len(path) : StepOf(path, i) \notin NewSteps(entry)
<1>1. request' = request /\ closed \subseteq closed'
  BY ExpandedStep
<1>2. Len(path) \in Nat \ {0} /\ StepOf(path, Len(path)) = t
  BY TraceSteps DEF IsTrace
<1>3. ASSUME NEW i \in 1 .. Len(path) PROVE StepOf(path, i) \notin NewSteps(entry)
  <2>1. CASE i = Len(path)
    BY <1>2, <2>1
  <2>2. CASE i # Len(path)
    <3>1. i \in 1 .. Len(path) - 1
      BY <1>2, <2>2
    <3>2. StepOf(path, i) \in closed
      BY <3>1, TraceSteps
    <3> QED BY <1>1, <3>2, ExpandScores
  <2> QED BY <2>1, <2>2
<1>4. \A i \in 1 .. Len(path) : StepOf(path, i) \in DOMAIN gScores'
  BY ExpandScores DEF IsTrace
<1>5. ASSUME NEW i \in 2 .. Len(path) PROVE cameFrom'[StepOf(path, i)] = StepOf(path, i - 1)
  <2>1. i \in 1 .. Len(path)
    OBVIOUS
  <2>2. StepOf(path, i) \in DOMAIN gScores \ NewSteps(entry) /\ StepOf(path, i) # Origin
    BY <1>3, <2>1, TraceSteps DEF IsTrace
  <2>3. cameFrom'[StepOf(path, i)] = cameFrom[StepOf(path, i)]
    BY <2>2, ExpandScores
  <2> QED BY <2>3 DEF IsTrace
<1>6. \A i : StepOf(path, i)' = StepOf(path, i)
  BY DEF StepOf
<1>7. IsTrace(path, t)'
  BY <1>1, <1>2, <1>4, <1>5 DEF IsTrace, StepOf
<1> QED BY <1>3, <1>7

\* The trace of a new step is that of the expanded step and its node.
LEMMA TraceGrows ==
  ASSUME Shape, NEW entry \in open, Expand(entry),
         NEW path, NEW s, s = StepIn(entry), IsTrace(path, s), NEW t \in NewSteps(entry),
         NEW longer, longer = Append(path, t[2])
  PROVE  IsTrace(longer, t)'
<1>1. /\ s \notin NewSteps(entry) /\ s[2] = entry.curr
      /\ request' = request
  BY ExpandedStep, ExpandScores
<1>2. /\ t \in Step /\ t[1] = s[2] /\ cameFrom'[t] = s
      /\ t \in DOMAIN gScores'
  BY <1>1, ExpandScores
<1>3. IsTrace(path, s)'
  BY <1>1, TraceStays
<1>4. /\ path \in Seq(Node) /\ Len(path) \in Nat \ {0} /\ path[1] = request.from
      /\ StepOf(path, Len(path)) = s
  BY TraceSteps DEF IsTrace
<1>5. path[Len(path)] = s[2] /\ t[2] \in Node /\ t = <<t[1], t[2]>>
  BY <1>2, <1>4 DEF StepOf, Step
<1>6. /\ longer \in Seq(Node) /\ Len(longer) = Len(path) + 1 /\ longer[Len(path) + 1] = t[2]
      /\ \A i \in 1 .. Len(path) : longer[i] = path[i]
  BY <1>4, <1>5
<1>7. \A i \in 1 .. Len(path) : StepOf(longer, i) = StepOf(path, i)
  <2> TAKE i \in 1 .. Len(path)
  <2>1. i = 1 \/ i - 1 \in 1 .. Len(path)
    BY <1>4
  <2> QED BY <1>6, <2>1 DEF StepOf
<1>8. StepOf(longer, Len(path) + 1) = t
  <2>1. Len(path) + 1 # 1 /\ (Len(path) + 1) - 1 = Len(path) /\ Len(path) \in 1 .. Len(path)
    BY <1>4
  <2> QED BY <1>2, <1>5, <1>6, <2>1 DEF StepOf
<1>9. \A i \in 1 .. Len(longer) : StepOf(longer, i) \in DOMAIN gScores'
  <2>1. \A i \in 1 .. Len(path) : StepOf(path, i) \in DOMAIN gScores'
    BY <1>3 DEF IsTrace, StepOf
  <2>2. \A i \in 1 .. Len(longer) : i \in 1 .. Len(path) \/ i = Len(path) + 1
    BY <1>4, <1>6
  <2> QED BY <1>2, <1>7, <1>8, <2>1, <2>2
<1>10. \A i \in 2 .. Len(longer) : cameFrom'[StepOf(longer, i)] = StepOf(longer, i - 1)
  <2>1. \A i \in 2 .. Len(path) : cameFrom'[StepOf(path, i)] = StepOf(path, i - 1)
    BY <1>3 DEF IsTrace, StepOf
  <2>2. \A i \in 2 .. Len(longer) :
          (i \in 2 .. Len(path) \/ i = Len(path) + 1) /\ i - 1 \in 1 .. Len(path)
    BY <1>4, <1>6
  <2>3. cameFrom'[StepOf(longer, Len(path) + 1)] = StepOf(longer, (Len(path) + 1) - 1)
    <3>1. (Len(path) + 1) - 1 = Len(path) /\ Len(path) \in 1 .. Len(path)
      BY <1>4
    <3> QED BY <1>2, <1>4, <1>7, <1>8, <3>1
  <2> QED BY <1>7, <2>1, <2>2, <2>3
<1>11. longer # <<>> /\ longer[1] = request'.from
  <2>1. 1 \in 1 .. Len(path)
    BY <1>4
  <2> QED BY <1>1, <1>4, <1>6, <2>1
<1> QED BY <1>6, <1>8, <1>9, <1>10, <1>11 DEF IsTrace, StepOf

\* Expanding a step keeps a trace for every step found.
LEMMA ExpandTrace ==
  ASSUME Shape, TraceInv, NEW entry \in open, Expand(entry)
  PROVE  TraceInv'
<1>1. PICK To \in [DOMAIN gScores -> Seq(Node)] :
        \A t \in DOMAIN gScores :
          /\ IsTrace(To[t], t)
          /\ To[t] = IF t \in DOMAIN cameFrom THEN Append(To[cameFrom[t]], t[2]) ELSE <<t[2]>>
  BY DEF TraceInv
<1>2. PICK s, New : s = StepIn(entry) /\ New = NewSteps(entry)
  OBVIOUS
<1>3. /\ s \in DOMAIN gScores /\ s \notin New
      /\ \A t \in New : t \in Step /\ cameFrom'[t] = s /\ t \notin closed' /\ t # Origin
      /\ \A t \in DOMAIN gScores \ New : t # Origin => cameFrom'[t] = cameFrom[t]
      /\ DOMAIN gScores' = DOMAIN gScores \cup New
      /\ DOMAIN cameFrom' = DOMAIN cameFrom \cup New
      /\ closed \subseteq closed'
  <2>1. StepIn(entry) = s /\ NewSteps(entry) = New
    BY <1>2
  <2>2. s \in DOMAIN gScores /\ closed' = closed \cup {s}
    BY <2>1, ExpandedStep
  <2>3. \A t \in New : t \in Step /\ t \notin closed' /\ t # Origin
    BY <2>1, ExpandedStep, ExpandScores
  <2>4. \A t \in New : cameFrom'[t] = s
    BY <2>1, ExpandScores
  <2>5. /\ \A t \in DOMAIN gScores \ New : t # Origin => cameFrom'[t] = cameFrom[t]
        /\ DOMAIN gScores' = DOMAIN gScores \cup New
        /\ DOMAIN cameFrom' = DOMAIN cameFrom \cup New
    BY <2>1, ExpandScores
  <2>6. closed \subseteq closed' /\ s \notin New
    BY <2>2, <2>3
  <2> QED BY <2>2, <2>3, <2>4, <2>5, <2>6
<1>4. DOMAIN cameFrom = DOMAIN gScores \ {Origin} /\ cameFrom \in [DOMAIN cameFrom -> closed]
  BY DEF Shape
<1>5. PICK To2 : To2 = [t \in DOMAIN gScores' |-> IF t \in New THEN Append(To[s], t[2]) ELSE To[t]]
  OBVIOUS
<1>6. To2 \in [DOMAIN gScores' -> Seq(Node)]
  <2>1. \A t \in New : Append(To[s], t[2]) \in Seq(Node)
    <3> TAKE t \in New
    <3>1. t[2] \in Node /\ To[s] \in Seq(Node)
      BY <1>3 DEF Step
    <3> QED BY <3>1
  <2> QED BY <1>3, <1>5, <2>1
<1>7. ASSUME NEW t \in DOMAIN gScores'
      PROVE  /\ IsTrace(To2[t], t)'
             /\ To2[t] = IF t \in DOMAIN cameFrom' THEN Append(To2[cameFrom'[t]], t[2]) ELSE <<t[2]>>
  <2>1. CASE t \in New
    <3>1. To2[t] = Append(To[s], t[2]) /\ To2[s] = To[s]
      BY <1>3, <1>5, <2>1
    <3>2. PICK p, q : p = To[s] /\ q = To2[t]
      OBVIOUS
    <3>3. IsTrace(p, s)
      BY <1>1, <1>3, <3>2
    <3>4. IsTrace(q, t)'
      BY <1>2, <2>1, <3>1, <3>2, <3>3, TraceGrows
    <3> QED BY <1>3, <2>1, <3>1, <3>2, <3>4
  <2>2. CASE t \notin New
    <3>1. To2[t] = To[t] /\ t \in DOMAIN gScores
      BY <1>3, <1>5, <2>2
    <3>2. PICK p : p = To[t]
      OBVIOUS
    <3>3. IsTrace(p, t)
      BY <1>1, <3>1, <3>2
    <3>4. IsTrace(p, t)'
      BY <1>2, <2>2, <3>3, TraceStays
    <3>5. CASE t \in DOMAIN cameFrom
      <4>1. cameFrom'[t] = cameFrom[t] /\ cameFrom[t] \in closed
        BY <1>3, <1>4, <2>2, <3>1, <3>5
      <4>2. cameFrom[t] \notin New /\ cameFrom[t] \in DOMAIN gScores
        BY <1>3, <4>1 DEF Shape
      <4>3. To2[cameFrom'[t]] = To[cameFrom[t]]
        BY <1>3, <1>5, <4>1, <4>2
      <4>4. To[t] = Append(To[cameFrom[t]], t[2])
        BY <1>1, <3>1, <3>5
      <4> QED BY <1>3, <3>1, <3>2, <3>4, <3>5, <4>3, <4>4
    <3>6. CASE t \notin DOMAIN cameFrom
      <4>1. To[t] = <<t[2]>>
        BY <1>1, <3>1, <3>6
      <4> QED BY <1>3, <2>2, <3>1, <3>2, <3>4, <3>6, <4>1
    <3> QED BY <3>5, <3>6
  <2> QED BY <2>1, <2>2
<1> QED BY <1>6, <1>7 DEF TraceInv

\* Expanding a step keeps what holds where no edge runs diagonally: a closed step has its best
\* cost, so that it need not be improved by way of the expanded one.
LEMMA ExpandGrid ==
  ASSUME Shape, SearchInv, GridInv, NEW entry \in open, Expand(entry)
  PROVE  GridInv'
<1> DEFINE h(n) == heuristic(n, request.goal)
<1>1. SUFFICES ASSUME Rectangular'
               PROVE  /\ \A c \in closed' : \A other \in open' :
                           gScores'[c] + heuristic(c[2], request'.goal) <= Estimate(other)'
                      /\ \A c \in closed' : \A n \in Neighbours(c[2])' :
                           gScores'[<<c[2], n>>] <= gScores'[c] + CostOf(c, n)'
  BY DEF GridInv
<1>2. PICK s, New : s = StepIn(entry) /\ New = NewSteps(entry)
  OBVIOUS
<1>3. /\ UNCHANGED <<roads, request, used>> /\ closed' = closed \cup {s}
      /\ s \in DOMAIN gScores /\ s \in Step /\ s \notin closed /\ s[2] = entry.curr
      /\ entry.g = gScores[s] /\ entry.g \in Nat
      /\ \A other \in open : Estimate(entry) <= Estimate(other)
  BY <1>2, ExpandedStep
<1>4. /\ Rectangular
      /\ \A p : Neighbours(p)' = Neighbours(p)
      /\ \A c, n : CostOf(c, n)' = CostOf(c, n)
      /\ \A other : Estimate(other)' = Estimate(other)
  BY <1>1, <1>3, SameMap
<1>5. /\ \A t \in New : /\ t[1] = s[2] /\ t[2] \in Neighbours(s[2]) /\ t \notin closed'
                        /\ gScores'[t] = gScores[s] + CostOf(s, t[2])
                        /\ t \in DOMAIN gScores => gScores'[t] <= gScores[t]
      /\ \A t \in DOMAIN gScores \ New : gScores'[t] = gScores[t]
      /\ DOMAIN gScores' = DOMAIN gScores \cup New
  <2>1. /\ \A t \in NewSteps(entry) :
             /\ t[1] = entry.curr /\ t[2] \in Neighbours(entry.curr) /\ t \notin closed'
             /\ gScores'[t] = entry.g + CostOf(StepIn(entry), t[2])
             /\ t \in DOMAIN gScores => gScores'[t] <= gScores[t]
        /\ \A t \in DOMAIN gScores \ NewSteps(entry) : gScores'[t] = gScores[t]
        /\ DOMAIN gScores' = DOMAIN gScores \cup NewSteps(entry)
    BY ExpandScores
  <2> QED BY <1>2, <1>3, <2>1
<1>6. \A t \in DOMAIN gScores : gScores[t] \in Nat /\ t \in Step
  BY DEF Shape
<1>7. \A c \in closed' : c \in DOMAIN gScores /\ gScores'[c] = gScores[c]
  BY <1>3, <1>5 DEF Shape
<1>8. request.goal \in Node /\ <<roads, request>> \in Problem
  BY RouteAssumption DEF Shape, RequestType
<1>9. \A n \in Node : h(n) \in Nat
  BY <1>8, HeuristicDistance
<1>10. ASSUME NEW c \in DOMAIN gScores, NEW n \in Neighbours(c[2])
       PROVE  /\ n \in Node /\ c[2] \in Node /\ CostOf(c, n) \in Nat
              /\ h(c[2]) <= CostOf(c, n) + h(n)
  <2>1. c \in Step /\ n \in Node /\ <<c[2], n>> \in roads /\ c[2] \in Node
    BY <1>6 DEF Neighbours, Step
  <2>2. /\ CostOf(c, n) \in Nat /\ Length(c[2], n) <= CostOf(c, n)
        /\ Length(c[2], n) \in Nat /\ Length(c[2], n) = heuristic(c[2], n)
    <3>1. DX(c[2], n) = 0 \/ DY(c[2], n) = 0
      BY <1>4, <2>1 DEF Rectangular
    <3> QED BY <1>8, <2>1, <3>1, StepCost, EdgeLength
  <2>3. h(c[2]) <= heuristic(c[2], n) + h(n)
    BY <1>8, <2>1, HeuristicDistance
  <2>4. h(c[2]) \in Nat /\ h(n) \in Nat
    BY <1>9, <2>1
  <2> HIDE DEF h
  <2> QED BY <2>1, <2>2, <2>3, <2>4
<1>11. Estimate(entry) = gScores[s] + h(s[2])
  BY <1>3 DEF Estimate
<1>12. s[2] \in Node
  BY <1>3 DEF Step
<1>13. \A c \in closed : gScores[c] + h(c[2]) <= gScores[s] + h(s[2])
  BY <1>4, <1>11 DEF GridInv
<1>14. ASSUME NEW other \in open'
       PROVE  /\ Estimate(other) \in Nat
              /\ gScores[s] + h(s[2]) <= Estimate(other)
  <2>1. CASE other \in open
    <3>1. other.g \in Nat /\ other.curr \in Node
      BY <2>1 DEF Shape, Entry
    <3>2. Estimate(other) \in Nat
      BY <1>9, <3>1 DEF Estimate
    <3> QED BY <1>3, <1>11, <2>1, <3>2
  <2>2. CASE StepIn(other) \in New /\ other \in Entry /\ other.g = gScores'[StepIn(other)]
    <3>1. other.curr \in Neighbours(s[2]) /\ other.g = gScores[s] + CostOf(s, other.curr)
      BY <1>5, <2>2 DEF StepIn
    <3>2. /\ other.curr \in Node /\ CostOf(s, other.curr) \in Nat
          /\ h(s[2]) <= CostOf(s, other.curr) + h(other.curr)
      BY <1>3, <1>10, <3>1
    <3>3. h(s[2]) \in Nat /\ h(other.curr) \in Nat /\ gScores[s] \in Nat
      BY <1>3, <1>6, <1>9, <1>12, <3>2
    <3>4. Estimate(other) = other.g + h(other.curr)
      BY DEF Estimate
    <3> HIDE DEF h
    <3> QED BY <3>1, <3>2, <3>3, <3>4
  <2> QED BY <1>2, <2>1, <2>2, ExpandOpens
<1>15. ASSUME NEW c \in closed', NEW other \in open'
       PROVE  gScores'[c] + heuristic(c[2], request'.goal) <= Estimate(other)'
  <2>1. gScores'[c] + heuristic(c[2], request'.goal) = gScores[c] + h(c[2])
    BY <1>3, <1>7
  <2>2. gScores[c] \in Nat /\ h(c[2]) \in Nat /\ gScores[s] \in Nat /\ h(s[2]) \in Nat
    BY <1>3, <1>6, <1>7, <1>9, <1>12 DEF Step
  <2>3. c = s \/ c \in closed
    BY <1>3
  <2> HIDE DEF h
  <2> QED BY <1>4, <1>13, <1>14, <2>1, <2>2, <2>3
<1>16. ASSUME NEW n \in Neighbours(s[2])
       PROVE  gScores'[<<s[2], n>>] <= gScores[s] + CostOf(s, n)
  <2> DEFINE t == <<s[2], n>>
  <2>1. /\ n \in Node /\ CostOf(s, n) \in Nat /\ h(s[2]) <= CostOf(s, n) + h(n)
        /\ h(n) \in Nat /\ h(s[2]) \in Nat /\ gScores[s] \in Nat
    BY <1>3, <1>6, <1>9, <1>10, <1>12
  <2>2. CASE t \in New
    <3>1. gScores'[t] = gScores[s] + CostOf(s, n)
      BY <1>5, <2>2
    <3> QED BY <2>1, <3>1
  <2>3. CASE t \in closed
    <3>1. gScores'[t] = gScores[t] /\ gScores[t] \in Nat /\ t[2] = n
      BY <1>3, <1>6, <1>7, <2>3
    <3>2. gScores[t] + h(n) <= gScores[s] + h(s[2])
      BY <1>13, <2>3, <3>1
    <3> HIDE DEF h, t
    <3>3. gScores[t] <= gScores[s] + CostOf(s, n)
      BY <2>1, <3>1, <3>2
    <3> QED BY <3>1, <3>3 DEF t
  <2>4. CASE t = s
    BY <1>3, <1>7, <2>1, <2>4
  <2>5. CASE t \notin New /\ t \notin closed /\ t # s
    <3>1. ~Improves(entry.g + CostOf(s, n), t)
      BY <1>2, <1>3, <2>5 DEF NewSteps, Better, StepIn
    <3>2. t \in DOMAIN gScores /\ ~(gScores[s] + CostOf(s, n) < gScores[t]) /\ gScores[t] \in Nat
      BY <1>3, <1>6, <3>1 DEF Improves
    <3>3. gScores'[t] = gScores[t]
      BY <1>5, <2>5, <3>2
    <3> HIDE DEF t
    <3>4. gScores'[t] <= gScores[s] + CostOf(s, n)
      BY <2>1, <3>2, <3>3
    <3> QED BY <3>4 DEF t
  <2> QED BY <2>2, <2>3, <2>4, <2>5
<1>17. ASSUME NEW c \in closed, NEW n \in Neighbours(c[2])
       PROVE  gScores'[<<c[2], n>>] <= gScores[c] + CostOf(c, n)
  <2>1. /\ <<c[2], n>> \in DOMAIN gScores
        /\ gScores[<<c[2], n>>] <= gScores[c] + CostOf(c, n)
    BY <1>4 DEF SearchInv, GridInv
  <2>2. c \in DOMAIN gScores /\ gScores[c] \in Nat /\ CostOf(c, n) \in Nat
    BY <1>3, <1>6, <1>7, <1>10
  <2>3. gScores'[<<c[2], n>>] = gScores[<<c[2], n>>] \/ gScores'[<<c[2], n>>] <= gScores[<<c[2], n>>]
    BY <1>5, <2>1
  <2>4. gScores[<<c[2], n>>] \in Nat
    BY <1>6, <2>1
  <2>5. gScores'[<<c[2], n>>] \in Nat
    <3>1. gScores' \in [DOMAIN gScores' -> Nat]
      BY ExpandScores
    <3> QED BY <1>5, <2>1, <3>1
  <2> QED BY <2>1, <2>2, <2>3, <2>4, <2>5
<1>18. \A c \in closed' : \A n \in Neighbours(c[2])' :
         gScores'[<<c[2], n>>] <= gScores'[c] + CostOf(c, n)'
  BY <1>3, <1>4, <1>7, <1>16, <1>17
<1> QED BY <1>15, <1>18

-----------------------------------------------------------------------------
(* Routes and their costs.                                                  *)

\* f gives the cost of path up to each of its nodes.
CostTable(path, f) ==
  /\ f[1] = 0
  /\ \A i \in 2 .. Len(path) : f[i] = f[i - 1] + CostOf(StepOf(path, i - 1), path[i])

\* A route goes on to a neighbour, in a step of its own.
LEMMA RouteEdges ==
  ASSUME <<roads, request>> \in Problem, NEW r \in Seq(Node), IsRoute(r), NEW i \in 1 .. Len(r) - 1
  PROVE  /\ r[i + 1] \in Neighbours(r[i])
         /\ <<r[i], r[i + 1]>> \in roads
         /\ StepOf(r, i) \in Step /\ StepOf(r, i)[2] = r[i]
         /\ StepOf(r, i + 1) = <<r[i], r[i + 1]>>
         /\ CostOf(StepOf(r, i), r[i + 1]) \in Nat
<1>1. Len(r) \in Nat /\ i \in 1 .. Len(r) /\ i + 1 \in 2 .. Len(r) /\ i + 1 \in 1 .. Len(r)
  OBVIOUS
<1>2. r[i] \in Node /\ r[i + 1] \in Node /\ (i # 1 => r[i - 1] \in Node)
  <2>1. i = 1 \/ i - 1 \in 1 .. Len(r)
    BY <1>1
  <2> QED BY <1>1, <2>1
<1>3. <<r[i], r[i + 1]>> \in EdgesOf(r)
  BY DEF EdgesOf
<1>4. <<r[i], r[i + 1]>> \in roads /\ MayEnter(r[i], r[i + 1])
  BY <1>1, <1>3 DEF IsRoute, MayEnter
<1>5. r[i + 1] \in Neighbours(r[i])
  BY <1>2, <1>4 DEF Neighbours
<1>6. StepOf(r, i) \in Step /\ StepOf(r, i)[2] = r[i]
  BY <1>2 DEF StepOf, Step
<1>7. StepOf(r, i + 1) = <<r[i], r[i + 1]>>
  <2>1. i + 1 # 1 /\ (i + 1) - 1 = i
    OBVIOUS
  <2> QED BY <2>1 DEF StepOf
<1>8. CostOf(StepOf(r, i), r[i + 1]) \in Nat
  BY <1>4, <1>6, StepCost
<1> QED BY <1>4, <1>5, <1>6, <1>7, <1>8

\* Costs along a route are natural numbers.
LEMMA CostTableNat ==
  ASSUME <<roads, request>> \in Problem, NEW r \in Seq(Node), IsRoute(r), NEW f, CostTable(r, f)
  PROVE  /\ Len(r) \in Nat \ {0}
         /\ \A i \in 1 .. Len(r) : f[i] \in Nat
         /\ \A i \in 1 .. Len(r) - 1 : f[i + 1] = f[i] + CostOf(StepOf(r, i), r[i + 1])
<1>1. Len(r) \in Nat \ {0}
  BY DEF IsRoute
<1>2. ASSUME NEW i \in 1 .. Len(r) - 1
      PROVE  f[i + 1] = f[i] + CostOf(StepOf(r, i), r[i + 1])
  <2>1. i + 1 \in 2 .. Len(r) /\ (i + 1) - 1 = i
    BY <1>1
  <2> QED BY <2>1 DEF CostTable
<1> DEFINE S == {i \in Nat : f[i] \in Nat}
<1>3. 1 \in S
  BY DEF CostTable
<1>4. ASSUME NEW i \in 1 .. Len(r) - 1, i \in S PROVE i + 1 \in S
  <2>1. CostOf(StepOf(r, i), r[i + 1]) \in Nat
    BY RouteEdges
  <2> QED BY <1>2, <1>4, <2>1
<1>5. \A i \in 1 .. Len(r) : i \in S
  <2> HIDE DEF S
  <2> QED BY <1>1, <1>3, <1>4, IntervalStep
<1> QED BY <1>1, <1>2, <1>5

\* Every path has a table of costs, with the costs up to its last node.
LEMMA CostTableExists ==
  ASSUME NEW r \in Seq(Node), r # <<>>
  PROVE  \E f : CostTable(r, f)
<1>1. Len(r) \in Nat \ {0}
  OBVIOUS
<1> DEFINE Go(c, i) == c + CostOf(StepOf(r, i - 1), r[i])
           Upto(f, k) == /\ f = [i \in 1 .. k |-> f[i]]
                         /\ f[1] = 0
                         /\ \A i \in 2 .. k : f[i] = Go(f[i - 1], i)
           S == {k \in Nat : \E f : Upto(f, k)}
<1>2. 1 \in S
  <2>1. \A i \in 2 .. 1 : FALSE
    OBVIOUS
  <2>2. PICK f : f = [i \in 1 .. 1 |-> 0]
    OBVIOUS
  <2>3. f[1] = 0 /\ f = [i \in 1 .. 1 |-> f[i]]
    BY <2>2
  <2> QED BY <2>1, <2>3
<1>3. ASSUME NEW k \in 1 .. Len(r) - 1, k \in S
      PROVE  k + 1 \in S
  <2>1. k \in Nat /\ k >= 1
    BY <1>1
  <2>2. PICK f : Upto(f, k)
    BY <1>3
  <2> HIDE DEF Go
  <2>3. PICK g : g = [i \in 1 .. k + 1 |-> IF i <= k THEN f[i] ELSE Go(f[k], k + 1)]
    OBVIOUS
  <2>4. \A i \in 1 .. k : g[i] = f[i]
    BY <2>1, <2>3
  <2>5. g[k + 1] = Go(f[k], k + 1)
    BY <2>1, <2>3
  <2>6. ASSUME NEW i \in 2 .. k + 1 PROVE g[i] = Go(g[i - 1], i)
    <3>1. CASE i = k + 1
      <4>1. i - 1 = k /\ k \in 1 .. k
        BY <2>1, <3>1
      <4> QED BY <2>4, <2>5, <3>1, <4>1
    <3>2. CASE i # k + 1
      <4>1. i \in 2 .. k /\ i \in 1 .. k /\ i - 1 \in 1 .. k
        BY <2>1, <3>2
      <4> QED BY <2>2, <2>4, <4>1
    <3> QED BY <3>1, <3>2
  <2>7. g = [i \in 1 .. k + 1 |-> g[i]]
    BY <2>3
  <2>8. g[1] = 0
    BY <2>1, <2>2, <2>4
  <2>9. Upto(g, k + 1)
    BY <2>6, <2>7, <2>8
  <2> HIDE DEF Upto
  <2> QED BY <2>1, <2>9
<1>4. Len(r) \in S
  <2> HIDE DEF S
  <2>1. \A i \in 1 .. Len(r) : i \in S
    BY <1>1, <1>2, <1>3, IntervalStep
  <2> QED BY <1>1, <2>1
<1> QED BY <1>1, <1>4 DEF CostTable

\* The cost of a path is what its table says of its last node.
LEMMA RouteCostIs ==
  ASSUME NEW r \in Seq(Node), r # <<>>, NEW f, CostTable(r, f)
  PROVE  RouteCost(r) = f[Len(r)]
<1>1. Len(r) \in Nat \ {0}
  OBVIOUS
<1> DEFINE Go(c, i) == c + CostOf(StepOf(r, i - 1), r[i])
           Table(h) == h = [i \in 1 .. Len(r) |-> IF i = 1 THEN 0 ELSE Go(h[i - 1], i)]
           U == CHOOSE h : Table(h)
<1>2. RouteCost(r) = U[Len(r)]
  BY DEF RouteCost
<1>3. \E h : Table(h)
  <2>1. PICK h : h = [i \in 1 .. Len(r) |-> f[i]]
    OBVIOUS
  <2>2. \A i \in 1 .. Len(r) : h[i] = f[i] /\ (i # 1 => i \in 2 .. Len(r) /\ i - 1 \in 1 .. Len(r))
    BY <1>1, <2>1
  <2>3. \A i \in 2 .. Len(r) : f[i] = Go(f[i - 1], i)
    BY DEF CostTable
  <2>4. f[1] = 0
    BY DEF CostTable
  <2> HIDE DEF Go
  <2>5. \A i \in 1 .. Len(r) : f[i] = IF i = 1 THEN 0 ELSE Go(h[i - 1], i)
    BY <2>2, <2>3, <2>4
  <2> QED BY <2>1, <2>5
<1>4. Table(U)
  <2> HIDE DEF Table
  <2> QED BY <1>3
<1> HIDE DEF U
<1> DEFINE S == {i \in Nat : U[i] = f[i]}
<1>5. 1 \in S
  BY <1>1, <1>4 DEF CostTable
<1>6. ASSUME NEW i \in 1 .. Len(r) - 1, i \in S PROVE i + 1 \in S
  <2>1. i + 1 \in 2 .. Len(r) /\ i + 1 \in 1 .. Len(r) /\ i + 1 # 1 /\ (i + 1) - 1 = i
    BY <1>1
  <2>2. U[i + 1] = Go(U[i], i + 1)
    <3> HIDE DEF Go
    <3> QED BY <1>4, <2>1
  <2>3. f[i + 1] = Go(f[i], i + 1)
    BY <2>1 DEF CostTable
  <2> HIDE DEF Go
  <2> QED BY <1>6, <2>1, <2>2, <2>3
<1>7. \A i \in 1 .. Len(r) : i \in S
  <2> HIDE DEF S
  <2> QED BY <1>1, <1>5, <1>6, IntervalStep
<1> QED BY <1>1, <1>2, <1>7

\* The simple routes are routes over nodes of the map.
LEMMA SimpleRoutesAre ==
  ASSUME request.from \in Node
  PROVE  \A r \in SimpleRoutes : r \in Seq(Node) /\ IsRoute(r)
<1> DEFINE N == Cardinality(Node)
           Longer(shorter, k) ==
             UNION {{Append(r, n) : n \in {m \in Node : <<r[k - 1], m>> \in roads} \ Range(r)} :
                    r \in shorter}
           First == {<<request.from>>}
           Table(f, n) == f = [k \in 1 .. n |-> IF k = 1 THEN First ELSE Longer(f[k - 1], k)]
           Of == CHOOSE f : Table(f, N)
<1>1. SimpleRoutes = {r \in UNION {Of[k] : k \in 1 .. N} : IsRoute(r)}
  BY DEF SimpleRoutes
<1>2. N \in Nat
  BY RouteAssumption, FS_CardinalityType
<1>3. ASSUME NEW S, NEW k, S \in SUBSET Seq(Node)
      PROVE  Longer(S, k) \in SUBSET Seq(Node)
  <2>1. \A r \in Seq(Node), n \in Node : Append(r, n) \in Seq(Node)
    OBVIOUS
  <2>2. ASSUME NEW x \in Longer(S, k) PROVE \E r \in S, n \in Node : x = Append(r, n)
    OBVIOUS
  <2> HIDE DEF Longer
  <2> QED BY <1>3, <2>1, <2>2
<1>4. First \in SUBSET Seq(Node)
  OBVIOUS
<1> HIDE DEF Longer, First, N
<1>5. \E f : Table(f, N)
  <2> DEFINE S == {n \in Nat : \E f : Table(f, n)}
  <2>1. 0 \in S
    <3>1. PICK f : f = [k \in 1 .. 0 |-> First]
      OBVIOUS
    <3>2. Table(f, 0)
      <4>1. \A k \in 1 .. 0 : FALSE
        OBVIOUS
      <4> QED BY <3>1, <4>1
    <3> QED BY <3>2
  <2>2. ASSUME NEW n \in Nat, n \in S PROVE n + 1 \in S
    <3>1. PICK f : Table(f, n)
      BY <2>2
    <3>2. PICK g : g = [k \in 1 .. n + 1 |->
                         IF k <= n THEN f[k] ELSE IF k = 1 THEN First ELSE Longer(f[k - 1], k)]
      OBVIOUS
    <3>3. \A k \in 1 .. n : g[k] = f[k] /\ f[k] = IF k = 1 THEN First ELSE Longer(f[k - 1], k)
      BY <3>1, <3>2
    <3>4. ASSUME NEW k \in 1 .. n + 1
          PROVE  g[k] = IF k = 1 THEN First ELSE Longer(g[k - 1], k)
      <4>1. k # 1 => k - 1 \in 1 .. n
        OBVIOUS
      <4>2. k \in 1 .. n \/ k = n + 1
        OBVIOUS
      <4>3. k = n + 1 => g[k] = IF k = 1 THEN First ELSE Longer(f[k - 1], k)
        BY <3>2
      <4> QED BY <3>3, <4>1, <4>2, <4>3
    <3>5. Table(g, n + 1)
      BY <3>2, <3>4
    <3> HIDE DEF Table
    <3> QED BY <3>5
  <2>3. \A n \in Nat : n \in S
    <3> HIDE DEF S
    <3> QED BY <2>1, <2>2, NatStep
  <2> QED BY <1>2, <2>3
<1>6. Table(Of, N)
  <2> HIDE DEF Table
  <2> QED BY <1>5
<1> HIDE DEF Of
<1>7. CASE N = 0
  <2>1. \A k \in 1 .. N : FALSE
    BY <1>7
  <2> QED BY <1>1, <2>1
<1>8. CASE N # 0
  <2> DEFINE S == {k \in Nat : Of[k] \in SUBSET Seq(Node)}
  <2>1. 1 \in S
    BY <1>2, <1>4, <1>6, <1>8
  <2>2. ASSUME NEW k \in 1 .. N - 1, k \in S PROVE k + 1 \in S
    <3>1. k + 1 \in 1 .. N /\ k + 1 # 1 /\ (k + 1) - 1 = k /\ k + 1 \in Nat
      BY <1>2
    <3>2. Of[k + 1] = Longer(Of[k], k + 1)
      BY <1>6, <3>1
    <3> QED BY <1>3, <2>2, <3>1, <3>2
  <2>3. \A k \in 1 .. N : k \in S
    <3> HIDE DEF S
    <3> QED BY <1>2, <2>1, <2>2, IntervalStep
  <2>4. \A k \in 1 .. N : Of[k] \in SUBSET Seq(Node)
    BY <2>3
  <2> QED BY <1>1, <2>4
<1> QED BY <1>7, <1>8

-----------------------------------------------------------------------------
(* How a search ends.                                                       *)

\* As long as the steps of a route before it are closed, a step of the route has been found,
\* and where no edge runs diagonally it is not dearer than by the route.
LEMMA AlongRoute ==
  ASSUME Shape, SearchInv, GridInv, NEW r \in Seq(Node), IsRoute(r), NEW f, CostTable(r, f),
         NEW m \in 1 .. Len(r), \A i \in 1 .. m - 1 : StepOf(r, i) \in closed
  PROVE  \A i \in 1 .. m : /\ StepOf(r, i) \in DOMAIN gScores
                           /\ Rectangular => gScores[StepOf(r, i)] <= f[i]
<1> DEFINE S == {i \in Nat : /\ StepOf(r, i) \in DOMAIN gScores
                             /\ Rectangular => gScores[StepOf(r, i)] <= f[i]}
<1>1. <<roads, request>> \in Problem /\ Len(r) \in Nat \ {0} /\ m \in Nat \ {0}
  BY DEF Shape, IsRoute
<1>2. 1 \in S
  <2>1. StepOf(r, 1) = Origin
    BY DEF IsRoute, StepOf, Origin
  <2> QED BY <2>1 DEF SearchInv, CostTable
<1>3. ASSUME NEW i \in 1 .. m - 1, i \in S PROVE i + 1 \in S
  <2> DEFINE s == StepOf(r, i)
             n == r[i + 1]
  <2>1. i \in 1 .. Len(r) - 1 /\ i + 1 \in 1 .. Len(r) /\ i \in 1 .. Len(r)
    BY <1>1
  <2>2. /\ s \in closed /\ s[2] = r[i] /\ n \in Neighbours(s[2])
        /\ StepOf(r, i + 1) = <<s[2], n>>
        /\ CostOf(s, n) \in Nat
    BY <1>1, <2>1, RouteEdges
  <2>3. <<s[2], n>> \in DOMAIN gScores
    BY <2>2 DEF SearchInv
  <2>4. ASSUME Rectangular PROVE gScores[<<s[2], n>>] <= f[i + 1]
    <3>1. gScores[<<s[2], n>>] <= gScores[s] + CostOf(s, n)
      BY <2>2, <2>4 DEF GridInv
    <3>2. gScores[s] <= f[i] /\ s \in DOMAIN gScores
      BY <1>3, <2>4
    <3>3. f[i] \in Nat /\ f[i + 1] = f[i] + CostOf(s, n)
      BY <1>1, <2>1, CostTableNat
    <3>4. gScores[s] \in Nat /\ gScores[<<s[2], n>>] \in Nat
      BY <2>3, <3>2 DEF Shape
    <3> HIDE DEF s, n
    <3> QED BY <2>2, <3>1, <3>2, <3>3, <3>4
  <2> QED BY <2>2, <2>3, <2>4
<1>4. \A i \in 1 .. m : i \in S
  <2> HIDE DEF S
  <2> QED BY <1>1, <1>2, <1>3, IntervalStep
<1> QED BY <1>4

\* With nothing open all that was found is closed, and the goal is not: there is no route.
LEMMA NothingOpen ==
  ASSUME Shape, SearchInv, GridInv, open = {}, NEW r \in Seq(Node), IsRoute(r)
  PROVE  FALSE
<1>1. PICK f : CostTable(r, f)
  BY CostTableExists DEF IsRoute
<1>2. Len(r) \in Nat \ {0}
  BY DEF IsRoute
<1>3. \A t \in DOMAIN gScores : t \in closed
  BY DEF SearchInv
<1> DEFINE S == {i \in Nat : \A j \in 1 .. i : StepOf(r, j) \in closed}
<1>4. ASSUME NEW m \in 1 .. Len(r), \A i \in 1 .. m - 1 : StepOf(r, i) \in closed
      PROVE  StepOf(r, m) \in closed
  <2>1. m \in 1 .. m
    OBVIOUS
  <2> QED BY <1>1, <1>3, <1>4, <2>1, AlongRoute
<1>5. 1 \in S
  <2>1. 1 \in 1 .. Len(r) /\ \A i \in 1 .. 1 - 1 : FALSE
    BY <1>2
  <2>2. StepOf(r, 1) \in closed
    BY <1>4, <2>1
  <2>3. \A i \in 1 .. 1 : i = 1
    OBVIOUS
  <2> QED BY <2>2, <2>3
<1>6. ASSUME NEW i \in 1 .. Len(r) - 1, i \in S PROVE i + 1 \in S
  <2>1. i + 1 \in 1 .. Len(r) /\ (i + 1) - 1 = i /\ i + 1 \in Nat
    BY <1>2
  <2>2. StepOf(r, i + 1) \in closed
    BY <1>4, <1>6, <2>1
  <2>3. \A j \in 1 .. i + 1 : j \in 1 .. i \/ j = i + 1
    OBVIOUS
  <2> QED BY <1>6, <2>1, <2>2, <2>3
<1>7. Len(r) \in S
  <2> HIDE DEF S
  <2>1. \A i \in 1 .. Len(r) : i \in S
    BY <1>2, <1>5, <1>6, IntervalStep
  <2> QED BY <1>2, <2>1
<1>8. StepOf(r, Len(r)) \in closed
  <2>1. Len(r) \in 1 .. Len(r)
    BY <1>2
  <2> QED BY <1>7, <2>1
<1>9. StepOf(r, Len(r))[2] = request.goal
  BY DEF StepOf, IsRoute
<1> QED BY <1>8, <1>9 DEF SearchInv

\* What the estimate adds to the costs along a route never falls.
LEMMA EstimateGrows ==
  ASSUME <<roads, request>> \in Problem, Rectangular, NEW r \in Seq(Node), IsRoute(r),
         NEW f, CostTable(r, f), NEW m \in 1 .. Len(r)
  PROVE  f[m] + heuristic(r[m], request.goal) <= f[Len(r)]
<1>1. /\ request.goal \in Node /\ Len(r) \in Nat \ {0} /\ m \in Nat
      /\ Len(r) \in m .. Len(r) /\ Len(r) \in 1 .. Len(r)
  BY RouteAssumption DEF RequestType, IsRoute
<1>2. PICK v : v = [i \in 1 .. Len(r) |-> f[i] + heuristic(r[i], request.goal)]
  OBVIOUS
<1>3. \A i \in 1 .. Len(r) : v[i] = f[i] + heuristic(r[i], request.goal)
  BY <1>2
<1>4. \A i \in 1 .. Len(r) :
        r[i] \in Node /\ f[i] \in Nat /\ heuristic(r[i], request.goal) \in Nat
  <2> TAKE i \in 1 .. Len(r)
  <2>1. r[i] \in Node
    OBVIOUS
  <2>2. f[i] \in Nat
    BY CostTableNat
  <2>3. heuristic(r[i], request.goal) \in Nat
    BY <1>1, <2>1, HeuristicDistance
  <2> QED BY <2>1, <2>2, <2>3
<1>5. \A i \in 1 .. Len(r) : v[i] \in Nat
  BY <1>3, <1>4
<1>6. ASSUME NEW i \in 1 .. Len(r) - 1 PROVE v[i] <= v[i + 1]
  <2>1. PICK s, n : s = StepOf(r, i) /\ n = r[i + 1]
    OBVIOUS
  <2>2. i \in 1 .. Len(r) /\ i + 1 \in 1 .. Len(r)
    BY <1>1
  <2>3. /\ s \in Step /\ s[2] = r[i] /\ <<r[i], n>> \in roads /\ CostOf(s, n) \in Nat
        /\ r[i] \in Node /\ n \in Node
    BY <2>1, <2>2, RouteEdges
  <2>4. DX(r[i], n) = 0 \/ DY(r[i], n) = 0
    BY <2>3 DEF Rectangular
  <2>5. heuristic(r[i], n) <= CostOf(s, n) /\ heuristic(r[i], n) \in Nat
    BY <2>3, <2>4, EdgeLength, StepCost
  <2>6. heuristic(r[i], request.goal) <= heuristic(r[i], n) + heuristic(n, request.goal)
    BY <1>1, <2>3, HeuristicDistance
  <2>7. f[i + 1] = f[i] + CostOf(s, n)
    BY <2>1, CostTableNat
  <2>8. PICK a, b, c, d, e, g :
          /\ a = f[i] /\ b = f[i + 1] /\ c = CostOf(s, n) /\ d = heuristic(r[i], n)
          /\ e = heuristic(r[i], request.goal) /\ g = heuristic(n, request.goal)
    OBVIOUS
  <2>9. /\ a \in Nat /\ b \in Nat /\ c \in Nat /\ d \in Nat /\ e \in Nat /\ g \in Nat
        /\ b = a + c /\ d <= c /\ e <= d + g
    BY <1>4, <2>1, <2>2, <2>3, <2>5, <2>6, <2>7, <2>8
  <2>10. a + e <= b + g
    BY <2>9
  <2>11. v[i] = a + e /\ v[i + 1] = b + g
    BY <1>3, <2>1, <2>2, <2>8
  <2> QED BY <2>10, <2>11
<1>7. \A i \in m .. Len(r) : i \in {j \in Nat : v[m] <= v[j]}
  <2>1. PICK S : S = {j \in Nat : v[m] <= v[j]}
    OBVIOUS
  <2>2. v[m] \in Nat
    BY <1>5
  <2>3. m \in S
    BY <1>1, <2>1, <2>2
  <2>4. ASSUME NEW i \in m .. Len(r) - 1, i \in S PROVE i + 1 \in S
    <3>1. i \in 1 .. Len(r) - 1 /\ i \in 1 .. Len(r) /\ i + 1 \in 1 .. Len(r) /\ i + 1 \in Nat
      BY <1>1
    <3>2. v[m] <= v[i] /\ v[i] <= v[i + 1] /\ v[i] \in Nat /\ v[i + 1] \in Nat
      BY <1>5, <1>6, <2>1, <2>4, <3>1
    <3>3. v[m] <= v[i + 1]
      BY <2>2, <3>2
    <3> QED BY <2>1, <3>1, <3>3
  <2> QED BY <1>1, <2>1, <2>3, <2>4, IntervalStep
<1>8. v[m] <= v[Len(r)]
  BY <1>1, <1>7
<1>9. v[Len(r)] = f[Len(r)]
  <2>1. r[Len(r)] = request.goal
    BY DEF IsRoute
  <2>2. v[Len(r)] = f[Len(r)] + 0
    BY <1>1, <1>3, <2>1, HeuristicDistance
  <2> QED BY <1>1, <1>4, <2>2
<1> QED BY <1>3, <1>8, <1>9

\* The first entry at the goal is as cheap as any route: the first step of the route that is
\* not closed is open, and it promised no less.
LEMMA ReachCheapest ==
  ASSUME Shape, SearchInv, GridInv, Rectangular, NEW entry \in open, Reach(entry),
         NEW r \in Seq(Node), IsRoute(r), NEW f, CostTable(r, f)
  PROVE  entry.g <= f[Len(r)]
<1>1. /\ <<roads, request>> \in Problem /\ Len(r) \in Nat \ {0}
      /\ \A i \in 1 .. Len(r) : f[i] \in Nat
  BY CostTableNat DEF Shape
<1> DEFINE M == {i \in 1 .. Len(r) : StepOf(r, i) \notin closed}
<1>2. Len(r) \in M
  <2>1. StepOf(r, Len(r))[2] = request.goal
    BY DEF StepOf, IsRoute
  <2> QED BY <1>1, <2>1 DEF SearchInv
<1>3. PICK m \in M : \A k \in M : m <= k
  <2>1. M \in SUBSET Nat /\ M # {}
    BY <1>2
  <2> HIDE DEF M
  <2> QED BY <2>1, LeastExists
<1>4. \A i \in 1 .. m - 1 : StepOf(r, i) \in closed
  <2> TAKE i \in 1 .. m - 1
  <2>1. i \in 1 .. Len(r) /\ ~(m <= i)
    BY <1>1
  <2> QED BY <1>3, <2>1
<1>5. m \in 1 .. Len(r) /\ m \in 1 .. m
  OBVIOUS
<1> DEFINE t == StepOf(r, m)
<1>6. t \in DOMAIN gScores /\ gScores[t] <= f[m]
  BY <1>4, <1>5, AlongRoute
<1>7. PICK other \in open : StepIn(other) = t /\ other.g = gScores[t]
  BY <1>6 DEF SearchInv
<1>8. other.curr = r[m]
  BY <1>7 DEF StepIn, StepOf
<1>9. Estimate(entry) <= Estimate(other) /\ entry.curr = request.goal
  BY DEF Reach, IsTop
<1>10. request.goal \in Node /\ r[m] \in Node
  BY <1>1, <1>5, RouteAssumption DEF RequestType
<1>11. Estimate(entry) = entry.g /\ entry.g \in Nat
  <2>1. entry.g \in Nat
    BY DEF Shape, Entry
  <2>2. heuristic(request.goal, request.goal) = 0
    BY <1>10, HeuristicDistance
  <2> QED BY <1>9, <2>1, <2>2 DEF Estimate
<1>12. f[m] + heuristic(r[m], request.goal) <= f[Len(r)]
  BY <1>1, <1>5, EstimateGrows
<1>13. /\ heuristic(r[m], request.goal) \in Nat /\ gScores[t] \in Nat /\ f[m] \in Nat
       /\ f[Len(r)] \in Nat
  <2>1. Len(r) \in 1 .. Len(r)
    BY <1>1
  <2>2. heuristic(r[m], request.goal) \in Nat
    BY <1>10, HeuristicDistance
  <2>3. gScores[t] \in Nat
    BY <1>6 DEF Shape
  <2> QED BY <1>1, <1>5, <2>1, <2>2, <2>3
<1>14. Estimate(other) = gScores[t] + heuristic(r[m], request.goal)
  BY <1>7, <1>8 DEF Estimate
<1> HIDE DEF t
<1> QED BY <1>6, <1>9, <1>11, <1>12, <1>13, <1>14

\* PathTo returns a trace of the step.
LEMMA PathToTraces ==
  ASSUME Shape, TraceInv, NEW s \in DOMAIN gScores
  PROVE  IsTrace(PathTo(s), s)
<1>1. PICK To \in [DOMAIN gScores -> Seq(Node)] :
        \A t \in DOMAIN gScores :
          /\ IsTrace(To[t], t)
          /\ To[t] = IF t \in DOMAIN cameFrom THEN Append(To[cameFrom[t]], t[2]) ELSE <<t[2]>>
  BY DEF TraceInv
<1> DEFINE Table(T) == T = [t \in DOMAIN gScores |->
                              IF t \in DOMAIN cameFrom THEN Append(T[cameFrom[t]], t[2]) ELSE <<t[2]>>]
           C == CHOOSE T : Table(T)
<1>2. PathTo(s) = C[s]
  BY DEF PathTo
<1>3. Table(To)
  BY <1>1
<1>4. Table(C)
  <2> HIDE DEF Table
  <2> QED BY <1>3
<1> HIDE DEF C
<1>5. \A t \in DOMAIN gScores : Len(To[t]) \in Nat
  BY <1>1
<1>6. DOMAIN cameFrom \subseteq DOMAIN gScores /\ \A t \in DOMAIN cameFrom : cameFrom[t] \in DOMAIN gScores
  BY DEF Shape
<1>7. ASSUME NEW t \in DOMAIN gScores, C[t] # To[t]
      PROVE  FALSE
  <2> DEFINE L == {Len(To[u]) : u \in {v \in DOMAIN gScores : C[v] # To[v]}}
  <2>1. L \in SUBSET Nat /\ L # {}
    BY <1>5, <1>7
  <2>2. PICK l \in L : \A k \in L : l <= k
    <3> HIDE DEF L
    <3> QED BY <2>1, LeastExists
  <2>3. PICK u \in DOMAIN gScores : C[u] # To[u] /\ Len(To[u]) = l
    OBVIOUS
  <2>4. u \in DOMAIN cameFrom
    BY <1>1, <1>4, <2>3
  <2>5. To[u] = Append(To[cameFrom[u]], u[2]) /\ C[u] = Append(C[cameFrom[u]], u[2])
    BY <1>1, <1>4, <2>3, <2>4
  <2>6. cameFrom[u] \in DOMAIN gScores /\ C[cameFrom[u]] # To[cameFrom[u]]
    BY <1>6, <2>3, <2>4, <2>5
  <2>7. Len(To[cameFrom[u]]) \in L
    BY <2>6
  <2>8. l = Len(To[cameFrom[u]]) + 1 /\ Len(To[cameFrom[u]]) \in Nat
    <3>1. To[cameFrom[u]] \in Seq(Node)
      BY <2>6
    <3> QED BY <2>3, <2>5, <3>1
  <2>9. l <= Len(To[cameFrom[u]])
    BY <2>2, <2>7
  <2> QED BY <2>8, <2>9
<1> QED BY <1>1, <1>2, <1>7

\* A result to rely on: a route, its cost, and where no edge runs diagonally none is cheaper.
Sound(res) ==
  /\ res.path \in Seq(Node) /\ IsRoute(res.path)
  /\ \E f : CostTable(res.path, f) /\ f[Len(res.path)] = res.distance
  /\ Rectangular => \A r \in Seq(Node) : \A f :
                      IsRoute(r) /\ CostTable(r, f) => res.distance <= f[Len(r)]

\* What holds of a result depends on the map, the request and the edges used before.
LEMMA SoundStays ==
  ASSUME UNCHANGED <<roads, request, used>>, NEW res
  PROVE  Sound(res)' <=> Sound(res)
<1>1. /\ \A r : IsRoute(r)' <=> IsRoute(r)
      /\ Rectangular' <=> Rectangular
      /\ \A s, n : CostOf(s, n)' = CostOf(s, n)
  BY SameMap
<1>2. \A r, f : CostTable(r, f)' <=> CostTable(r, f)
  BY <1>1 DEF CostTable, StepOf
<1> QED BY <1>1, <1>2 DEF Sound

\* The trace of the goal is a route, and the scores along it are its costs.
LEMMA ReachSound ==
  ASSUME Shape, SearchInv, GridInv, TraceInv, NEW entry \in open, Reach(entry),
         NEW res, res = [path |-> PathTo(StepIn(entry)), distance |-> entry.g]
  PROVE  Sound(res) /\ res # NoResult
<1> DEFINE s == StepIn(entry)
<1>1. /\ s \in DOMAIN gScores /\ s[2] = request.goal /\ entry.curr = request.goal
      /\ entry.g = gScores[s]
  <2>1. /\ s \in DOMAIN gScores /\ entry.g \in Nat /\ entry.g >= gScores[s]
        /\ gScores[s] \in Nat
    BY DEF Shape, Entry
  <2>2. ~(entry.g > gScores[s]) /\ entry.curr = request.goal
    BY DEF Reach, Stale, StepIn
  <2>3. entry.g = gScores[s]
    <3> HIDE DEF s
    <3> QED BY <2>1, <2>2
  <2> QED BY <2>1, <2>2, <2>3 DEF StepIn
<1>2. PICK p : p = PathTo(s)
  OBVIOUS
<1>3. IsTrace(p, s)
  BY <1>1, <1>2, PathToTraces
<1> HIDE DEF s
<1>4. /\ p \in Seq(Node) /\ p # <<>> /\ p[1] = request.from /\ Len(p) \in Nat \ {0}
      /\ StepOf(p, Len(p)) = s
  BY <1>3 DEF IsTrace
<1>5. p[Len(p)] = request.goal
  BY <1>1, <1>4 DEF StepOf
<1>6. ASSUME NEW i \in 2 .. Len(p)
      PROVE  /\ StepOf(p, i) = <<p[i - 1], p[i]>>
             /\ p[i] \in Neighbours(p[i - 1])
             /\ gScores[StepOf(p, i)] = gScores[StepOf(p, i - 1)] + CostOf(StepOf(p, i - 1), p[i])
  <2>1. i \in 1 .. Len(p) /\ i # 1
    OBVIOUS
  <2>2. StepOf(p, i) = <<p[i - 1], p[i]>>
    BY <2>1 DEF StepOf
  <2>3. StepOf(p, i) \in DOMAIN gScores \ {Origin}
    BY <1>3, <2>1, TraceSteps DEF IsTrace
  <2>4. cameFrom[StepOf(p, i)] = StepOf(p, i - 1)
    BY <1>3 DEF IsTrace
  <2> QED BY <2>2, <2>3, <2>4 DEF SearchInv
<1>7. IsRoute(p)
  <2>1. ASSUME NEW e \in EdgesOf(p) PROVE e \in roads /\ MayEnter(e[1], e[2])
    <3>1. PICK i \in 1 .. Len(p) - 1 : e = <<p[i], p[i + 1]>>
      BY DEF EdgesOf
    <3>2. i + 1 \in 2 .. Len(p) /\ (i + 1) - 1 = i
      BY <1>4
    <3>3. p[i + 1] \in Neighbours(p[i])
      BY <1>6, <3>2
    <3> QED BY <3>1, <3>3 DEF Neighbours
  <2>2. ASSUME request.kind = "find" PROVE EdgesOf(p) \cap request.barred = {}
    <3>1. \A e \in EdgesOf(p) : e = <<e[1], e[2]>>
      BY DEF EdgesOf
    <3>2. \A e \in EdgesOf(p) : <<e[1], e[2]>> \notin request.barred
      BY <2>1, <2>2 DEF MayEnter
    <3> QED BY <3>1, <3>2
  <2>3. ASSUME request.kind = "find", NEW i \in 2 .. Len(p)
        PROVE  /\ p[i] \notin NoPass
               /\ p[i] \in request.banned => p[i] \in {request.from, request.goal}
    <3>1. MayEnter(p[i - 1], p[i])
      BY <1>6 DEF Neighbours
    <3> QED BY <2>3, <3>1 DEF MayEnter
  <2> QED BY <1>4, <1>5, <2>1, <2>2, <2>3 DEF IsRoute
<1>8. \E f : CostTable(p, f) /\ f[Len(p)] = entry.g
  <2>1. PICK f : f = [i \in 1 .. Len(p) |-> gScores[StepOf(p, i)]]
    OBVIOUS
  <2>2. \A i \in 1 .. Len(p) : f[i] = gScores[StepOf(p, i)]
    BY <2>1
  <2>3. f[1] = 0
    <3>1. 1 \in 1 .. Len(p) /\ StepOf(p, 1) = Origin
      BY <1>3, <1>4, TraceSteps
    <3> QED BY <2>2, <3>1 DEF SearchInv
  <2>4. ASSUME NEW i \in 2 .. Len(p)
        PROVE  f[i] = f[i - 1] + CostOf(StepOf(p, i - 1), p[i])
    <3>1. i \in 1 .. Len(p) /\ i - 1 \in 1 .. Len(p)
      BY <1>4
    <3> QED BY <1>6, <2>2, <3>1
  <2>5. f[Len(p)] = entry.g
    BY <1>1, <1>4, <2>2
  <2> QED BY <2>3, <2>4, <2>5 DEF CostTable
<1>9. Rectangular => \A r \in Seq(Node) : \A f :
                       IsRoute(r) /\ CostTable(r, f) => entry.g <= f[Len(r)]
  BY ReachCheapest
<1>10. res.path = p /\ res.distance = entry.g
  BY <1>2 DEF s
<1>11. res # NoResult
  BY <1>4, <1>10 DEF NoResult
<1> QED BY <1>4, <1>7, <1>8, <1>9, <1>10, <1>11 DEF Sound

\* A vehicle that is where it shall go needs no steps.
LEMMA TrivialSound ==
  ASSUME <<roads, request>> \in Problem, request.from = request.goal,
         NEW res, res = [path |-> <<request.from>>, distance |-> 0]
  PROVE  Sound(res)
<1>1. request.from \in Node
  BY RouteAssumption DEF RequestType
<1>2. PICK p : p = <<request.from>>
  OBVIOUS
<1>3. p \in Seq(Node) /\ p # <<>> /\ Len(p) = 1 /\ p[1] = request.from
  BY <1>1, <1>2
<1>4. (\A i \in 2 .. Len(p) : FALSE) /\ \A i \in 1 .. Len(p) - 1 : FALSE
  BY <1>3
<1>5. IsRoute(p)
  <2>1. EdgesOf(p) = {}
    BY <1>4 DEF EdgesOf
  <2> QED BY <1>3, <1>4, <2>1 DEF IsRoute
<1>6. \E f : CostTable(p, f) /\ f[Len(p)] = 0
  <2>1. PICK f : f = [i \in {1} |-> 0]
    OBVIOUS
  <2>2. f[1] = 0
    BY <2>1
  <2> QED BY <1>3, <1>4, <2>2 DEF CostTable
<1>7. ASSUME NEW r \in Seq(Node), NEW f, IsRoute(r), CostTable(r, f)
      PROVE  0 <= f[Len(r)]
  <2>1. Len(r) \in 1 .. Len(r) /\ \A i \in 1 .. Len(r) : f[i] \in Nat
    BY <1>7, CostTableNat
  <2>2. f[Len(r)] \in Nat
    BY <2>1
  <2> QED BY <2>2
<1>8. res.path = p /\ res.distance = 0
  BY <1>2
<1> QED BY <1>3, <1>5, <1>6, <1>7, <1>8 DEF Sound

-----------------------------------------------------------------------------
(* The invariant.                                                           *)

\* What is said of the last result.
AnswerInv ==
  /\ pc = "keep" => request.kind = "table" /\ result # NoResult
  /\ Found => Sound(result)
  /\ pc = "done" /\ result = NoResult =>
       request.goal \in NoPass \/ \A r \in Seq(Node) : ~IsRoute(r)

\* The candidates of the table.
KeptInv ==
  /\ \E S : kept \in Seq(S)
  /\ Len(kept) <= TopK
  /\ pc \in {"idle", "search", "keep"} => Len(kept) < TopK
  /\ used \subseteq roads

Searching == pc = "search" => SearchInv /\ GridInv /\ TraceInv

IInv == Shape /\ Searching /\ AnswerInv /\ KeptInv

\* Before the search everything is empty.
LEMMA Initially == Init => IInv
<1> SUFFICES ASSUME Init PROVE IInv
  OBVIOUS
<1>1. <<roads, request>> \in Problem
  BY RouteAssumption DEF Init
<1>2. /\ pc = "idle" /\ open = {} /\ closed = {} /\ gScores = <<>> /\ cameFrom = <<>>
      /\ kept = <<>> /\ used = {} /\ result = NoResult
  BY DEF Init
<1>3. gScores \in [{} -> Nat] /\ DOMAIN gScores = {} /\ cameFrom \in [{} -> {}]
  BY <1>2
<1>4. Shape
  BY <1>1, <1>2, <1>3 DEF Shape
<1>5. KeptInv
  <2>1. kept \in Seq(Nat) /\ Len(kept) = 0
    BY <1>2
  <2> QED BY <1>2, <2>1, RouteAssumption DEF KeptInv
<1> QED BY <1>2, <1>4, <1>5 DEF IInv, Searching, AnswerInv, Found

\* A search keeps what was kept, and has no answer yet.
LEMMA SearchGoesOn ==
  ASSUME IInv, pc \in {"idle", "search"}, pc' = "search", UNCHANGED <<roads, kept, used>>
  PROVE  AnswerInv' /\ KeptInv'
<1>1. AnswerInv'
  BY DEF AnswerInv, Found
<1>2. KeptInv'
  BY DEF IInv, KeptInv
<1> QED BY <1>1, <1>2

\* Every step keeps the invariant.
LEMMA Inductive == IInv /\ [Next]_vars => IInv'
<1> SUFFICES ASSUME IInv, [Next]_vars PROVE IInv'
  OBVIOUS
<1>1. Shape /\ Searching /\ AnswerInv /\ KeptInv
  BY DEF IInv
<1>2. CASE Trivial
  <2>1. /\ UNCHANGED <<roads, request, open, closed, gScores, cameFrom, kept, used>>
        /\ pc = "idle" /\ pc' = "done" /\ request.kind = "find"
    BY <1>2 DEF Trivial
  <2>2. Shape' /\ Searching'
    BY <1>1, <2>1 DEF Shape, StepIn, Origin, Searching
  <2>3. KeptInv'
    BY <1>1, <2>1 DEF KeptInv
  <2>4. CASE request.goal \in NoPass
    <3>1. result' = NoResult
      BY <1>2, <2>4 DEF Trivial
    <3>2. AnswerInv'
      BY <2>1, <2>4, <3>1 DEF AnswerInv, Found
    <3> QED BY <2>2, <2>3, <3>2 DEF IInv
  <2>5. CASE request.goal \notin NoPass
    <3>1. PICK res : res = [path |-> <<request.from>>, distance |-> 0]
      OBVIOUS
    <3>2. result' = res /\ request.from = request.goal
      BY <1>2, <2>5, <3>1 DEF Trivial
    <3>3. Sound(res)
      BY <1>1, <3>1, <3>2, TrivialSound DEF Shape
    <3>4. Sound(res)'
      BY <2>1, <3>3, SoundStays
    <3>5. Sound(result)'
      BY <3>2, <3>4 DEF Sound
    <3>6. res # NoResult
      BY <3>1 DEF NoResult
    <3>7. AnswerInv'
      BY <2>1, <3>2, <3>5, <3>6 DEF AnswerInv
    <3> QED BY <2>2, <2>3, <3>7 DEF IInv
  <2> QED BY <2>4, <2>5
<1>3. CASE Start
  <2>1. /\ pc = "idle" /\ pc' = "search" /\ UNCHANGED <<roads, request, kept, used>> /\ Begin
    BY <1>3 DEF Start, Begin
  <2>2. Shape' /\ SearchInv' /\ GridInv' /\ TraceInv'
    BY <1>1, <2>1, BeginSearch DEF Shape
  <2> QED BY <2>1, <2>2, SearchGoesOn DEF IInv, Searching
<1>4. ASSUME NEW entry \in open, PassOver(entry) PROVE IInv'
  <2>1. pc = "search" /\ pc' = "search" /\ UNCHANGED <<roads, request, kept, used>>
    BY <1>4 DEF PassOver
  <2>2. SearchInv /\ GridInv /\ TraceInv
    BY <1>1, <2>1 DEF Searching
  <2>3. Shape' /\ SearchInv' /\ GridInv' /\ TraceInv'
    BY <1>1, <1>4, <2>2, PassOverSearch
  <2> QED BY <2>1, <2>3, SearchGoesOn DEF IInv, Searching
<1>5. ASSUME NEW entry \in open, Expand(entry) PROVE IInv'
  <2>1. pc = "search" /\ pc' = "search" /\ UNCHANGED <<roads, request, kept, used>>
    BY <1>5 DEF Expand
  <2>2. SearchInv /\ GridInv /\ TraceInv
    BY <1>1, <2>1 DEF Searching
  <2>3. Shape' /\ SearchInv' /\ GridInv' /\ TraceInv'
    BY <1>1, <1>5, <2>2, ExpandShape, ExpandSearch, ExpandGrid, ExpandTrace
  <2> QED BY <2>1, <2>3, SearchGoesOn DEF IInv, Searching
<1>6. ASSUME NEW entry \in open, Reach(entry) PROVE IInv'
  <2>1. /\ UNCHANGED <<roads, request, open, closed, gScores, cameFrom, kept, used>>
        /\ pc = "search" /\ pc' = IF request.kind = "table" THEN "keep" ELSE "done"
    BY <1>6 DEF Reach
  <2>2. Shape' /\ Searching'
    BY <1>1, <2>1 DEF Shape, StepIn, Origin, Searching
  <2>3. KeptInv'
    BY <1>1, <2>1 DEF KeptInv
  <2>4. PICK res : res = [path |-> PathTo(StepIn(entry)), distance |-> entry.g]
    OBVIOUS
  <2>5. result' = res
    BY <1>6, <2>4 DEF Reach, StepIn
  <2>6. Sound(res) /\ res # NoResult
    BY <1>1, <1>6, <2>1, <2>4, ReachSound DEF Searching
  <2>7. Sound(res)'
    BY <2>1, <2>6, SoundStays
  <2>8. Sound(result)'
    BY <2>5, <2>7 DEF Sound
  <2>9. AnswerInv'
    BY <2>1, <2>5, <2>6, <2>8 DEF AnswerInv
  <2> QED BY <2>2, <2>3, <2>9 DEF IInv
<1>7. CASE Fail
  <2>1. /\ UNCHANGED <<roads, request, open, closed, gScores, cameFrom, kept, used>>
        /\ pc = "search" /\ pc' = "done" /\ open = {} /\ result' = NoResult
    BY <1>7 DEF Fail
  <2>2. Shape' /\ Searching'
    BY <1>1, <2>1 DEF Shape, StepIn, Origin, Searching
  <2>3. KeptInv'
    BY <1>1, <2>1 DEF KeptInv
  <2>4. \A r \in Seq(Node) : ~IsRoute(r)
    BY <1>1, <2>1, NothingOpen DEF Searching
  <2>5. \A r : IsRoute(r)' <=> IsRoute(r)
    BY <2>1, SameMap
  <2>6. AnswerInv'
    BY <2>1, <2>4, <2>5 DEF AnswerInv, Found
  <2> QED BY <2>2, <2>3, <2>6 DEF IInv
<1>8. CASE Keep
  <2>1. /\ UNCHANGED <<roads, request, result>> /\ pc = "keep"
        /\ used' = used \cup EdgesOf(result.path)
    BY <1>8 DEF Keep
  <2>2. request.kind = "table" /\ result # NoResult /\ Sound(result)
    BY <1>1, <2>1 DEF AnswerInv, Found
  <2>3. used' \subseteq roads'
    BY <1>1, <2>1, <2>2 DEF KeptInv, Sound, IsRoute
  <2>4. (\E S : kept' \in Seq(S)) /\ Len(kept') = Len(kept) + 1 /\ Len(kept) < TopK
    <3>1. PICK S, x : kept \in Seq(S) /\ kept' = Append(kept, x)
      BY <1>1, <1>8 DEF KeptInv, Keep
    <3>2. kept \in Seq(S \cup {x}) /\ kept' \in Seq(S \cup {x}) /\ Len(kept') = Len(kept) + 1
      BY <3>1
    <3> QED BY <1>1, <2>1, <3>2 DEF KeptInv
  <2>5. Len(kept) \in Nat /\ TopK \in Nat
    BY <1>1, RouteAssumption DEF KeptInv
  <2>6. CASE Len(kept) + 1 < TopK
    <3>1. Begin /\ pc' = "search"
      BY <1>8, <2>6 DEF Keep, Begin
    <3>2. Shape' /\ SearchInv' /\ GridInv' /\ TraceInv'
      BY <1>1, <2>1, <3>1, BeginSearch DEF Shape
    <3>3. KeptInv'
      BY <2>3, <2>4, <2>5, <2>6 DEF KeptInv
    <3>4. AnswerInv'
      BY <3>1 DEF AnswerInv, Found
    <3> QED BY <3>2, <3>3, <3>4 DEF IInv, Searching
  <2>7. CASE ~(Len(kept) + 1 < TopK)
    <3>1. pc' = "done" /\ UNCHANGED <<open, closed, gScores, cameFrom>>
      BY <1>8, <2>7 DEF Keep
    <3>2. Shape' /\ Searching'
      BY <1>1, <2>1, <3>1 DEF Shape, StepIn, Origin, Searching
    <3>3. KeptInv'
      BY <2>3, <2>4, <2>5, <3>1 DEF KeptInv
    <3>4. AnswerInv'
      BY <2>1, <2>2, <3>1 DEF AnswerInv, Found
    <3> QED BY <3>2, <3>3, <3>4 DEF IInv
  <2> QED BY <2>6, <2>7
<1>9. CASE Enough
  <2>1. /\ UNCHANGED <<roads, request, open, closed, gScores, cameFrom, result, kept, used>>
        /\ pc = "keep" /\ pc' = "done"
    BY <1>9 DEF Enough
  <2>2. request.kind = "table" /\ result # NoResult
    BY <1>1, <2>1 DEF AnswerInv
  <2>3. Shape' /\ Searching'
    BY <1>1, <2>1 DEF Shape, StepIn, Origin, Searching
  <2>4. KeptInv'
    BY <1>1, <2>1 DEF KeptInv
  <2>5. AnswerInv'
    BY <2>1, <2>2 DEF AnswerInv, Found
  <2> QED BY <2>3, <2>4, <2>5 DEF IInv
<1>10. CASE UNCHANGED vars
  <2>1. UNCHANGED <<roads, request, pc, open, closed, gScores, cameFrom, result, kept, used>>
    BY <1>10 DEF vars
  <2>2. Shape'
    BY <1>1, <2>1 DEF Shape, StepIn, Origin
  <2>3. /\ Origin' = Origin
        /\ \A p : Neighbours(p)' = Neighbours(p)
        /\ \A s, n : CostOf(s, n)' = CostOf(s, n)
        /\ Rectangular' <=> Rectangular
        /\ \A other : Estimate(other)' = Estimate(other)
        /\ \A r : IsRoute(r)' <=> IsRoute(r)
    BY <2>1, SameMap
  <2>4. SearchInv' <=> SearchInv
    BY <2>1, <2>3 DEF SearchInv, StepIn
  <2>5. GridInv' <=> GridInv
    BY <2>1, <2>3 DEF GridInv
  <2>6. TraceInv' <=> TraceInv
    <3>1. \A p, t : IsTrace(p, t)' <=> IsTrace(p, t)
      BY <2>1 DEF IsTrace, StepOf
    <3> QED BY <2>1, <3>1 DEF TraceInv
  <2>7. Searching'
    BY <1>1, <2>1, <2>4, <2>5, <2>6 DEF Searching
  <2>8. Sound(result)' <=> Sound(result)
    <3>1. PICK res : res = result
      OBVIOUS
    <3>2. Sound(res)' <=> Sound(res)
      BY <2>1, SoundStays
    <3> QED BY <2>1, <3>1, <3>2 DEF Sound
  <2>9. AnswerInv'
    BY <1>1, <2>1, <2>3, <2>8 DEF AnswerInv, Found
  <2>10. KeptInv'
    BY <1>1, <2>1 DEF KeptInv
  <2> QED BY <2>2, <2>7, <2>9, <2>10 DEF IInv
<1> QED BY <1>2, <1>3, <1>4, <1>5, <1>6, <1>7, <1>8, <1>9, <1>10 DEF Next

\* The invariant holds of every state of every search.
THEOREM Invariance == Spec => []IInv
BY Initially, Inductive, PTL DEF Spec

-----------------------------------------------------------------------------
(* What the searches promise.                                               *)

\* The scores, the parents, the closed and the open steps of a search fit together, and the
\* table keeps no more routes than it shall.
THEOREM TypeCorrect == Spec => []TypeOK
<1>1. IInv => TypeOK
  <2> SUFFICES ASSUME IInv PROVE TypeOK
    OBVIOUS
  <2>1. Shape /\ KeptInv
    BY DEF IInv
  <2>2. Range(gScores) \subseteq Nat
    BY <2>1 DEF Shape, Range
  <2>3. DOMAIN cameFrom = DOMAIN gScores \ {Origin} /\ Range(cameFrom) \subseteq closed
    BY <2>1 DEF Shape, Range
  <2> QED BY <2>1, <2>2, <2>3 DEF TypeOK, Shape, KeptInv, StepIn, Origin
<1> QED BY <1>1, Invariance, PTL

\* A route that is found is one: along edges, from where the vehicle is to where it shall go,
\* past what is banned.
THEOREM RoutesAreRoutes == Spec => []FoundIsRoute
<1>1. IInv => FoundIsRoute
  BY DEF IInv, AnswerInv, Sound, FoundIsRoute
<1> QED BY <1>1, Invariance, PTL

\* The distance of a route that is found is the cost of that route, penalties included.
THEOREM DistancesAreCosts == Spec => []DistanceIsCost
<1>1. ASSUME IInv, Found PROVE result.distance = RouteCost(result.path)
  <2>1. PICK p : p = result.path
    OBVIOUS
  <2>2. p \in Seq(Node) /\ IsRoute(p) /\ \E f : CostTable(p, f) /\ f[Len(p)] = result.distance
    BY <1>1, <2>1 DEF IInv, AnswerInv, Sound
  <2>3. RouteCost(p) = result.distance
    BY <2>2, RouteCostIs DEF IsRoute
  <2> QED BY <2>1, <2>3
<1>2. IInv => DistanceIsCost
  BY <1>1 DEF DistanceIsCost
<1> QED BY <1>2, Invariance, PTL

\* A search that ends without a route ends so because there is none.
THEOREM NoRouteNoAnswer == Spec => []FailsOnlyWithoutRoute
<1>1. ASSUME IInv PROVE request.from \in Node
  BY <1>1, RouteAssumption DEF IInv, Shape, RequestType
<1>2. ASSUME IInv, \A r \in Seq(Node) : ~IsRoute(r) PROVE SimpleRoutes = {}
  BY <1>1, <1>2, SimpleRoutesAre
<1>3. IInv => FailsOnlyWithoutRoute
  BY <1>2 DEF IInv, AnswerInv, FailsOnlyWithoutRoute
<1> QED BY <1>3, Invariance, PTL

\* Where no edge runs diagonally the estimate is never too large, and the route found is as
\* cheap as any.
THEOREM CheapestOnAnyGrid == Spec => []CheapestOnGrid
<1>1. ASSUME IInv, Found, Rectangular, NEW r \in SimpleRoutes
      PROVE  result.distance <= RouteCost(r)
  <2>1. request.from \in Node
    BY <1>1, RouteAssumption DEF IInv, Shape, RequestType
  <2>2. r \in Seq(Node) /\ IsRoute(r)
    BY <2>1, SimpleRoutesAre
  <2>3. PICK f : CostTable(r, f)
    BY <2>2, CostTableExists DEF IsRoute
  <2>4. RouteCost(r) = f[Len(r)]
    BY <2>2, <2>3, RouteCostIs DEF IsRoute
  <2>5. result.distance <= f[Len(r)]
    BY <1>1, <2>2, <2>3 DEF IInv, AnswerInv, Sound
  <2> QED BY <2>4, <2>5
<1>2. IInv => CheapestOnGrid
  BY <1>1 DEF CheapestOnGrid
<1> QED BY <1>2, Invariance, PTL

=============================================================================
