------------------------- MODULE MCTaskAllocation -------------------------
(***************************************************************************)
(* Messages for TaskAllocation: up to two vehicles, three tasks, a line of *)
(* three places that hang together and an island.                          *)
(***************************************************************************)
EXTENDS TaskAllocation

CONSTANTS a, b, c, island, nowhere

MCPlace == {a, b, c, island}
MCPosition == (a :> 0) @@ (b :> 2) @@ (c :> 9) @@ (island :> 4)
MCRegion == (a :> 1) @@ (b :> 1) @@ (c :> 1) @@ (island :> 2)
MCAgeFloor == -6

Task(stops, priority, devices) ==
    [stops |-> stops, priority |-> priority, start |-> 1, devices |-> devices,
     charge |-> FALSE, service |-> 1, bonus |-> 0, crowded |-> FALSE, battery |-> 0]

\* Plain ones, bound ones (to a vehicle, to a charger's, to a charged battery),
\* emergencies, ones with no way or no node, an old one.
Tasks == {Task(<<b>>, 1, {}), Task(<<c, b>>, 2, {}), Task(<<c>>, 1, {1}),
          [Task(<<a>>, 2, {2}) EXCEPT !.charge = TRUE],
          Task(<<c, a>>, 10, {}), Task(<<c, island>>, 10, {}),
          Task(<<b, nowhere>>, 1, {}),
          [Task(<<a>>, 1, {}) EXCEPT !.bonus = 7],
          [Task(<<c>>, 3, {}) EXCEPT !.battery = 60, !.crowded = TRUE]}

Vehicle(id, at, state) ==
    [id |-> id, at |-> at, heading |-> at, state |-> state, battery |-> 50, endurance |-> 0]

\* A vehicle at work, on the way to another place.
Driving(id, at, heading) == [Vehicle(id, at, "working") EXCEPT !.heading = heading]

Fleets == {<<Vehicle(1, a, "idle"), Vehicle(2, c, "idle")>>,
           <<Vehicle(1, island, "idle"), Vehicle(2, b, "idle")>>,
           <<Driving(1, a, c), Vehicle(2, b, "idle")>>,
           <<Driving(1, a, c), Driving(2, c, b)>>,
           <<Driving(1, a, island), Driving(2, b, a)>>,
           <<Vehicle(1, b, "idle")>>}

Message(fleet, tasks) ==
    [fleet |-> fleet, tasks |-> SetToSeq(tasks), batch |-> 0, ahead |-> 0,
     detour |-> 0, posta |-> TRUE]

\* The greedy allocator, a batch of two, a limit on start times, a limit on
\* detours, a vehicle of limited endurance.
Variants(m) ==
    {m, [m EXCEPT !.posta = FALSE, !.batch = 2], [m EXCEPT !.ahead = 5],
     [m EXCEPT !.detour = 5], [m EXCEPT !.fleet[1].endurance = 5]}

MCRequest ==
    UNION {Variants(Message(fleet, tasks)) : fleet \in Fleets, tasks \in kSubset(3, Tasks)}

\* Four tasks for one vehicle, no limit at all, and the greedy allocator, whose
\* choices are none but the order of the list.
RoundTrips ==
    {[Message(<<Vehicle(1, a, "idle")>>,
              {Task(<<a, a>>, 1, {}), Task(<<a, b>>, 1, {}),
               Task(<<b, a>>, 1, {}), Task(<<a, c>>, 1, {})}) EXCEPT !.posta = FALSE]}
============================================================================
