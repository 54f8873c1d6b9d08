----------------------- MODULE MCShortestPathUpdater ------------------------
(* Constants for the model checker. *)
EXTENDS UpdaterOnMap

CONSTANTS w1, w2

\* From 1 to 3 by 2, where nobody may turn, or by 4, slower and with a turn; back along a
\* diagonal; 5 is a dead end, and 6 beyond it may not be passed.
MCPoint == 1 .. 6
MCLink == {<<1, 2>>, <<2, 3>>, <<1, 4>>, <<4, 3>>, <<3, 1>>, <<4, 5>>, <<4, 6>>}
MCX == <<0, 3, 3, 0, 0, 3>>
MCY == <<0, 0, 4, 4, 8, 8>>
MCWeight == [l \in MCLink |->
  CASE l = <<1, 2>> -> 3 [] l = <<2, 3>> -> 4 [] l = <<1, 4>> -> 4 [] l = <<4, 3>> -> 6
    [] l = <<3, 1>> -> 5 [] l = <<4, 5>> -> 8 [] l = <<4, 6>> -> 10]
MCHeading == [l \in MCLink |->
  CASE l \in {<<1, 2>>, <<4, 3>>} -> 1
    [] l \in {<<2, 3>>, <<1, 4>>, <<4, 5>>, <<4, 6>>} -> 2
    [] OTHER -> 4]
MCTurnTime == [p \in MCPoint |-> IF p = 4 THEN 4 ELSE 2]

\* By names of their own, so that each search runs once.
MCValid == PathValid
MCBatch == BatchResults
MCFound == SearchResults

MCAsked == {<<1, 3>>, <<1, 1>>, <<5, 5>>, <<1, 5>>, <<1, 6>>}

=============================================================================
