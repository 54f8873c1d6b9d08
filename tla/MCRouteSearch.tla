--------------------------- MODULE MCRouteSearch ---------------------------
(* Constants for the model checker. *)
EXTENDS RouteSearch

\* 1 - 2 - 3 with 4 - 5 - 6 above, and 7 below 2, where nobody may pass: edges are 3 or 4
\* long, diagonals 5.  8 to 14 and 15 to 20 are maps of their own.
MCNode == 1 .. 20
MCX == <<0, 3, 6, 0, 3, 6, 3>> \o <<0, 3, 6, 9, 12, 15, 15>> \o <<0, -6, 6, 6, 12, 12>>
MCY == <<0, 0, 0, 4, 4, 4, -4>> \o <<0, 4, 8, 12, 16, 16, 20>> \o <<0, 0, 0, 12, 12, 24>>

Both(links) == links \cup {<<l[2], l[1]>> : l \in links}

Find(from, goal, banned, barred, hot) ==
  [kind |-> "find", from |-> from, goal |-> goal, banned |-> banned, barred |-> barred, hot |-> hot]

Table(from, goal) ==
  [kind |-> "table", from |-> from, goal |-> goal, banned |-> {}, barred |-> {}, hot |-> {}]

\* Some of these: the rest of the grid, one way, two diagonals, and the way past 7.
Optional == {<<2, 3>>, <<5, 6>>, <<1, 5>>, <<2, 6>>, <<6, 3>>, <<4, 5>>}

Grids == {Both({<<1, 2>>, <<1, 4>>, <<2, 5>>}) \cup some \cup below :
            some \in SUBSET Optional, below \in {{}, {<<1, 7>>, <<7, 3>>}}}

OnGrid ==
  {Find(pair[1], pair[2], b, e, h) :
     pair \in {<<1, 6>>, <<1, 3>>, <<1, 1>>, <<4, 3>>, <<1, 7>>}, b \in {{}, {2}, {5, 6}},
     e \in {{}, {<<1, 4>>}}, h \in {{}, {2}}}
  \cup {Table(pair[1], pair[2]) : pair \in {<<1, 6>>, <<1, 3>>, <<4, 3>>, <<4, 6>>, <<2, 6>>}}

\* Two ways along one diagonal: by 10, which may be congested, or by 9.
Diagonal == {<<8, 9>>, <<8, 10>>, <<9, 11>>, <<10, 11>>, <<11, 12>>, <<12, 13>>, <<13, 14>>}

\* From 15 to 20 by 17, 18 and 19, always nearer and with three turns, or by 16, first away
\* and then along a diagonal.
Skew == Both({<<15, 16>>, <<16, 20>>, <<15, 17>>, <<17, 18>>, <<18, 19>>, <<19, 20>>})

MCProblem ==
  (Grids \X OnGrid)
  \cup {<<Diagonal, Find(8, 14, {}, {}, h)>> : h \in {{}, {10}}}
  \cup {<<Skew, Table(15, 20)>>}

=============================================================================
