------------------------- MODULE MCSchedulingDispatch -------------------------
(* Constants for the model checker: two maps, numbered, and three requests. *)
EXTENDS SchedulingDispatch

CONSTANTS r1, r2, r3

MCMap == {1, 2}

\* All requests meet in the mailbox of the first map; one may concern the second map
\* as well, or none.
MCMapsOf == [r \in Request |-> IF r = r1 THEN {{}, {1}, {1, 2}} ELSE {{1}}]

=============================================================================
