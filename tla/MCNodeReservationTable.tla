----------------------- MODULE MCNodeReservationTable -----------------------
(***************************************************************************)
(* Small instances of NodeReservationTable: three nodes in a row on each   *)
(* map, two shards.  The shard order is not the node order, so that two    *)
(* groups list their shards in different orders.                           *)
(***************************************************************************)
EXTENDS NodeReservationTable, TLC

CONSTANTS n1, n2, n3, m1, m2

At(x) == [x |-> x, y |-> 0]

\* n2 and n3 conflict on m1; on m2 they are far apart.
MCPosition ==
  (m1 :> (n2 :> At(0) @@ n3 :> At(2))) @@ (m2 :> (n2 :> At(0) @@ n3 :> At(3)))

\* One map, a chain: the ends conflict with the middle and not with each other.
ChainPosition == (m1 :> (n1 :> At(-2) @@ n2 :> At(0) @@ n3 :> At(2)))

MCShardOf == [n \in Node |-> IF n = n2 THEN 0 ELSE 1]


OneKeepSet == {{n2}}

WriterOps == {"reserve", "release", "sweep"}

ReaderOps == {"reserve", "find"}

MCSymmetry == Permutations(Owner) \cup Permutations(Thread)

=============================================================================
