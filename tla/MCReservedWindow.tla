-------------------------- MODULE MCReservedWindow --------------------------
(* Constants for the model checker. *)
EXTENDS ReservedWindow

CONSTANTS receiver, ticker, worker

\* The threads of the program.
MCDuty == [t \in Thread |->
  CASE t = receiver -> {"status", "trail", "around"}
    [] t = ticker -> {"replan", "super"}
    [] t = worker -> {"commit"}]

\* Two ways from 1 to 3, with and without a stop at 2, and a way back from 2.
MCNode == 1 .. 3
MCEdge == {<<1, 2>>, <<2, 1>>, <<1, 3>>, <<2, 3>>}
MCGoals == {<<3>>, <<2, 3>>}

\* One edge, and plans that lead along it.
PairNode == 1 .. 2
PairEdge == {<<1, 2>>}
PairGoals == {<<2>>}

\* A plan whose first target is reached at once.
PairStops == {<<1, 2>>}

\* The status handler on its own, without SUPER.
PairDuty == [t \in Thread |->
  CASE t = receiver -> {"status"}
    [] t = ticker -> {"replan"}
    [] t = worker -> {"commit"}]

\* The receiver answers requests, without detours.
TrailDuty == [t \in Thread |->
  CASE t = receiver -> {"status", "trail"}
    [] t = worker -> {"commit"}]

=============================================================================
