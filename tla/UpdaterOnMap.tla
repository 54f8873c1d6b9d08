---------------------------- MODULE UpdaterOnMap ----------------------------
(***************************************************************************)
(* The table of travel times with the searches of TravelTime: Valid, Batch *)
(* and Found are PathValid, BatchResults and SearchResults, and the nodes   *)
(* are the points of the map.                                              *)
(***************************************************************************)
EXTENDS ShortestPathUpdater, TravelTime

ASSUME SearchesAssumption ==
  Node = Point /\ Valid = PathValid /\ Batch = BatchResults /\ Found = SearchResults

\* The pairs whose time, or verdict, is in the table.
SettledPairs == {pair \in Node \X Node : Settled(pair)}

\* No pair is given up that has a route without a turn at a forbidden point, not even one
\* along such a point: both searches and the cheap test agree on that.
UnreachableIsTrue ==
  \A pair \in SettledPairs : Value(pair) = UNREACHABLE =>
    pair[1] = pair[2] \/ \A r \in Routes(pair[1], pair[2]) : Range(r) \cap NoTurn # {}

\* A time in the table is the time of a route that can be driven, turns included; whether
\* a faster one exists the code does not promise.
TimesAreDriven ==
  \A pair \in SettledPairs : Value(pair) > 0 => Value(pair) \in DrivenTimes[pair]

=============================================================================
