---------------------------- MODULE MCRobotStatus ----------------------------
(* Constants for the model checker. *)
EXTENDS RobotStatus, TLC

\* No time stamp, and two times.
MCTime == 0 .. 2

\* The stream sends milliseconds, ten to a second, the task system seconds.
MCUnit == [s \in Source |-> IF s = "stream" THEN "ms" ELSE "s"]

\* Nodes can be exchanged.
MCSymmetry == Permutations(Node)

=============================================================================
