--------------------------- MODULE TaskAllocation ---------------------------
(***************************************************************************)
(* How one scheduling message becomes chains of tasks: the pipeline of     *)
(* processSchedulingMessage (src/src/tools/external_receiver.cpp) between  *)
(* the parsed message and the answer that is published.                    *)
(*                                                                         *)
(*   Receive      sort and cap the tasks, choose the vehicles, set aside   *)
(*                the tasks nobody can reach                               *)
(*   FillCosts    the sparse cost matrix: first legs, coverage, next legs  *)
(*   GreedyRound  one round of proposals of GreedyTaskAllocator            *)
(*   GreedyRepair, PostaRepair   repairInvalidDuties                       *)
(*   FillMissing, Search         PostaTaskAllocator                        *)
(*   Publish      SanitizeAllocationResult, the way back to the original   *)
(*                indices, forced tasks, chains of infinite duration       *)
(*                                                                         *)
(* Tasks that are left and vehicles that take part are numbered anew, as   *)
(* in the code: `work' and `crew' lead back to the message.  The row of a  *)
(* vehicle's first legs is numbered one past the last task.                *)
(* Places lie on a line; the map is its regions.  The objective of POSTA   *)
(* is left out: its search may end in any arrangement that it can reach.   *)
(***************************************************************************)
EXTENDS Integers, Sequences, FiniteSets, SequencesExt, FiniteSetsExt

CONSTANTS
    Request,     \* messages: fleet, tasks, batch, ahead, detour, posta
    Place, Position, Region,
    Nowhere,     \* the node of a subtask that names none
    Emergency,   \* EMERGENCY_LEVEL
    Threshold,   \* priority threshold of every vehicle built from a status
    NearLimit,   \* disThresholdMm
    AgeFloor,    \* ALLOC_TASK_AGE_MIN_COST_MS
    Longest,     \* no leg of a request takes longer
    Inf,         \* the infinity of a double
    MaxDenied    \* bound: legs of a request the updater calls unreachable

VehicleType ==
    [id : Nat, at : Place,
     heading : Place,    \* the next destination it reported, or the node nearest to it
     state : {"idle", "working", "unavailable"}, battery : Nat, endurance : Int]
TaskType ==
    [stops : Seq(Place \cup {Nowhere}), priority : Int, start : Int,
     devices : SUBSET Nat, charge : BOOLEAN, service : Nat, bonus : Nat,
     crowded : BOOLEAN, battery : Nat]
RequestType ==
    [fleet : Seq(VehicleType), tasks : Seq(TaskType), batch : Nat, ahead : Int,
     detour : Int, posta : BOOLEAN]

ASSUME PlaceAssumption ==
    /\ Nowhere \notin Place
    /\ Position \in [Place -> Nat]
    /\ DOMAIN Region = Place

ASSUME NumberAssumption ==
    /\ Longest \in Nat /\ Inf \in Nat /\ Longest < Inf
    /\ AgeFloor \in Int /\ AgeFloor <= Longest
    /\ MaxDenied \in Nat

VARIABLES
    phase, request,
    list,        \* tasks of the message, sorted and cut to the batch
    work,        \* filteredToOriginal
    crew,        \* availableToFull
    costs,       \* the sparse cost matrix
    chains,      \* tasks of each vehicle of the crew
    missing,     \* missingUnalloc
    spare,       \* unallocatedTaskIds
    answer       \* what is published, in the numbering of the message

vars == <<phase, request, list, work, crew, costs, chains, missing, spare, answer>>

NoRequest == [fleet |-> <<>>, tasks |-> <<>>, batch |-> 0, ahead |-> 0,
              detour |-> 0, posta |-> FALSE]
NoAnswer == [routes |-> <<>>, spare |-> {}]

-----------------------------------------------------------------------------
(* Doubles, as far as repairInvalidDuties adds and compares them.          *)

NaN == 2 * Inf

Plus(a, b) ==
    IF NaN \in {a, b} \/ {a, b} = {Inf, -Inf} THEN NaN
    ELSE IF Inf \in {a, b} THEN Inf
    ELSE IF -Inf \in {a, b} THEN -Inf
    ELSE a + b

Less(a, b) == NaN \notin {a, b} /\ a < b

Numbers(n) == [k \in 1..n |-> k]

\* The elements of a sequence at the positions in I, in their order.
Chosen(s, I) ==
    LET pick[k \in 0..Len(s)] ==
            IF k = 0 THEN <<>>
            ELSE IF k \in I THEN Append(pick[k - 1], s[k]) ELSE pick[k - 1]
    IN  pick[Len(s)]

-----------------------------------------------------------------------------
(* Places and tasks.                                                       *)

Spot(p) == IF p = Nowhere THEN 0 ELSE Position[p]
Travel(a, b) == IF Spot(a) < Spot(b) THEN Spot(b) - Spot(a) ELSE Spot(a) - Spot(b)
Connected(a, b) == {a, b} \subseteq Place /\ Region[a] = Region[b]

\* What is infinite for a double is more than any leg, with the half that
\* congestion adds, and more than all the legs of a batch in a row.
ASSUME RequestAssumption ==
    /\ Request \subseteq RequestType
    /\ \A q \in Request :
          /\ Len(q.tasks) * Longest < Inf
          /\ \A t \in ToSet(q.tasks), p, r \in Place :
                2 * (Travel(p, r) + t.service) <= Longest

Stops(t) == Chosen(t.stops, {k \in DOMAIN t.stops : t.stops[k] # Nowhere})
From(t) == IF Stops(t) = <<>> THEN Nowhere ELSE Head(Stops(t))
To(t) == IF Stops(t) = <<>> THEN Nowhere ELSE Last(Stops(t))
Drivable(t) == \A k \in 1..(Len(Stops(t)) - 1) : Connected(Stops(t)[k], Stops(t)[k + 1])

HasEmergency(tasks) == \E t \in ToSet(tasks) : t.priority >= Emergency
HasIdle(fleet) == \E v \in ToSet(fleet) : v.state = "idle"

\* selectAvailableAmrs: a vehicle at work is only asked in an emergency, and
\* only when it is far from the first task.
Available(fleet, tasks) ==
    Chosen(Numbers(Len(fleet)),
           {v \in DOMAIN fleet :
              /\ tasks # <<>>
              /\ \/ fleet[v].state = "idle"
                 \/ /\ fleet[v].state = "working"
                    /\ HasEmergency(tasks)
                    /\ Travel(fleet[v].at, From(Head(tasks))) >= NearLimit})

\* What FilterTasksByReachability keeps: the task has a place, its own stops
\* are connected, and some vehicle, if there is any, gets to its first stop.
Reachable(t, able) ==
    /\ From(t) # Nowhere
    /\ Drivable(t)
    /\ able # <<>> => \E v \in ToSet(able) : Connected(v.at, From(t))

\* The orders std::sort may leave: by priority, then by start.
Sorted(tasks) ==
    {s \in {[k \in DOMAIN tasks |-> tasks[f[k]]] : f \in Bijection(DOMAIN tasks, DOMAIN tasks)} :
       \A a, b \in DOMAIN s : a < b =>
          \/ s[a].priority > s[b].priority
          \/ s[a].priority = s[b].priority /\ s[a].start <= s[b].start}

IsTaskValid(v, t) ==
    /\ Threshold <= t.priority
    /\ v.state # "unavailable"
    /\ t.battery = 0 \/ v.battery >= t.battery
    /\ t.devices = {} \/ v.id \in t.devices
    /\ t.priority >= Emergency \/ v.state = "idle"

-----------------------------------------------------------------------------
(* The request under way.                                                  *)

Jobs == DOMAIN work
Cars == DOMAIN crew
Job(i) == list[work[i]]
Car(v) == request.fleet[crew[v]]
First == Len(work) + 1

Driven(ch) == UNION {ToSet(ch[v]) : v \in DOMAIN ch}

Cost(prev, i, v) ==
    IF <<prev, i, v>> \in DOMAIN costs THEN costs[<<prev, i, v>>] ELSE Inf

Latest(ch) == IF ch = <<>> THEN First ELSE Last(ch)
Before(ch, p) == IF p = 1 THEN First ELSE ch[p - 1]
Leg(v, ch, p) == Cost(Before(ch, p), ch[p], v)
Known(v, ch) == \A p \in DOMAIN ch : Leg(v, ch, p) < Inf

-----------------------------------------------------------------------------
(* CostMatrixGenerator.                                                    *)

ForceCharge(v) == \E i \in Jobs : Job(i).charge /\ Car(v).id \in Job(i).devices
\* Mutant: only the charging order binds a vehicle.
MayTakeMutant(v, i) == ForceCharge(v) => Job(i).charge

MayTake(v, i) == IsTaskValid(Car(v), Job(i)) /\ (ForceCharge(v) => Job(i).charge)

Adjust(i, c) ==
    LET slow == IF Job(i).crowded THEN c + c \div 2 ELSE c
    IN  IF Job(i).bonus = 0 THEN slow ELSE Max({slow - Job(i).bonus, AgeFloor})

\* startNodeOverride: a vehicle at work, in the crew only in an emergency, is taken to
\* start at the node it is heading for, if no vehicle of the fleet is idle.
Start(v) == IF Car(v).state = "working" /\ ~HasIdle(request.fleet) THEN Car(v).heading ELSE Car(v).at

Exit(prev, v) == IF prev = First THEN Start(v) ELSE To(Job(prev))
Guess(prev, i, v) == Travel(Exit(prev, v), From(Job(i)))
Price(leg) == Adjust(leg[2], Guess(leg[1], leg[2], leg[3]) + Job(leg[2]).service)

\* Tasks a vehicle could drive to after prev.
Options(prev, v) ==
    IF prev # First /\ ~IsTaskValid(Car(v), Job(prev)) THEN {}
    ELSE {i \in Jobs \ {prev} : /\ MayTake(v, i)
                                /\ Connected(Exit(prev, v), From(Job(i)))}

\* nth_element: the half with the lowest estimates.  Equal ones are taken in
\* the order of the list.
Shortlist(prev, v) ==
    LET options == Options(prev, v)
        rank(i) == Adjust(i, Guess(prev, i, v))
        ahead(i) == {j \in options : \/ rank(j) < rank(i)
                                     \/ rank(j) = rank(i) /\ j < i}
    IN  {i \in options : Cardinality(ahead(i)) < (Len(work) + 1) \div 2}

Drives(rows) == {leg \in rows \X Jobs \X Cars : leg[2] \in Options(leg[1], leg[3])}
Listed(rows) == {leg \in rows \X Jobs \X Cars : leg[2] \in Shortlist(leg[1], leg[3])}

\* A task on nobody's shortlist gets its nearest vehicle.
Coverage(priced) ==
    {leg \in Drives({First}) :
       /\ \A v \in Cars : <<First, leg[2], v>> \notin priced
       /\ \A v \in Cars : leg[2] \in Options(First, v) =>
            \/ Guess(First, leg[2], leg[3]) < Guess(First, leg[2], v)
            \/ Guess(First, leg[2], leg[3]) = Guess(First, leg[2], v) /\ leg[3] <= v}

\* A leg is priced by the updater's time or, while that is not known, by the
\* distance; a leg the updater calls unreachable is left out.
FillCosts ==
    /\ phase = "costs"
    /\ \E few \in 0..MaxDenied :
       \E denied \in kSubset(few, Drives(Jobs \cup {First})) :
          LET first == Listed({First}) \ denied
              cover == Coverage(first) \ denied
              next == Listed(Jobs) \ denied
          IN  costs' = [leg \in first \cup cover \cup next |-> Price(leg)]
    /\ phase' = "greedy"
    /\ UNCHANGED <<request, list, work, crew, chains, missing, spare, answer>>

-----------------------------------------------------------------------------
(* GreedyTaskAllocator.                                                    *)

Nobody == 0

\* A vehicle in turn proposes the cheapest task that is free, the last such
\* task nobody asked for yet if there are several, and gets it for the time
\* being if it is cheaper than who asked before.
Propose(asked, v) ==
    LET price(w, i) == Cost(Latest(chains[w]), i, w)
        free == {i \in Jobs \ Driven(chains) : price(v, i) < Inf}
        best == {i \in free : \A j \in free : price(v, i) <= price(v, j)}
        fresh == {i \in best : asked[i] = Nobody}
        pick == IF fresh # {} THEN Max(fresh) ELSE Min(best)
    IN  IF free = {} THEN asked
        ELSE IF asked[pick] = Nobody THEN [asked EXCEPT ![pick] = v]
        ELSE IF price(v, pick) < price(asked[pick], pick) THEN [asked EXCEPT ![pick] = v]
        ELSE asked

Proposals == FoldLeft(Propose, [i \in Jobs |-> Nobody], Numbers(Len(crew)))

GreedyRound ==
    /\ phase = "greedy"
    /\ \E i \in Jobs : Proposals[i] # Nobody
    /\ chains' = [v \in Cars |-> chains[v] \o
                    SetToSeq({i \in Jobs : Proposals[i] = v})]
    /\ UNCHANGED <<phase, request, list, work, crew, costs, missing, spare, answer>>

GreedyEnds ==
    /\ phase = "greedy"
    /\ \A i \in Jobs : Proposals[i] = Nobody
    /\ phase' = "greedyRepair"
    /\ UNCHANGED <<request, list, work, crew, costs, chains, missing, spare, answer>>

-----------------------------------------------------------------------------
(* repairInvalidDuties.  A plan is a record of chains and spare tasks.     *)

Limit(v) == IF Car(v).endurance > 0 THEN Car(v).endurance ELSE Inf - 1

Load(v, ch, upto) ==
    FoldLeft(LAMBDA acc, p : IF Job(ch[p]).charge THEN acc ELSE Plus(acc, Leg(v, ch, p)),
             0, Numbers(upto))

Startable(v, ch) == Chosen(ch, {p \in DOMAIN ch : Cost(First, ch[p], v) < Inf})
Refused(v, ch) == Chosen(ch, {p \in DOMAIN ch : ~(Cost(First, ch[p], v) < Inf)})
Beyond(v, ch) == Chosen(ch, {p \in DOMAIN ch : Less(Limit(v), Load(v, ch, p))})
Tagged(tasks, v) == [k \in DOMAIN tasks |-> <<tasks[k], v>>]

\* The tasks to be placed anew, with the vehicle they are on: first those
\* that could not be that vehicle's first, which leave their chain, then
\* those that go beyond its endurance, which stay in it.
Misplaced(chs) ==
    FlattenSeq([v \in Cars |-> Tagged(Refused(v, chs[v]), v)]) \o
    FlattenSeq([v \in Cars |-> Tagged(Beyond(v, Startable(v, chs[v])), v)])

Gain(i, v, ch, p) ==
    IF p = Len(ch) + 1 THEN Cost(Before(ch, p), i, v)
    ELSE Plus(Plus(-Leg(v, ch, p), Cost(Before(ch, p), i, v)), Cost(i, ch[p], v))

Without(ch, i) == Chosen(ch, {p \in DOMAIN ch : ch[p] # i})

\* A slot <<v, p>> is a place in a chain: the new task will be the p-th of v.
Slots(chs) == UNION {{v} \X (1..(Len(chs[v]) + 1)) : v \in DOMAIN chs}

\* The slot that costs least, the first one among equals.
Cheapest(slots, price) ==
    LET sooner(s, r) == \/ s[1] < r[1]
                        \/ s[1] = r[1] /\ s[2] <= r[2]
    IN  CHOOSE s \in slots : \A r \in slots :
            \/ price[s] < price[r]
            \/ price[s] = price[r] /\ sooner(s, r)

Placed(plan, duty) ==
    LET i == duty[1]
        home == duty[2]
        gain(s) == Gain(i, s[1], plan.chains[s[1]], s[2])
        slots == {s \in Slots(plan.chains) :
                    /\ Cost(First, i, s[1]) < Inf
                    /\ Job(i).charge \/ ~Less(Limit(s[1]), Plus(plan.load[s[1]], gain(s)))
                    /\ Less(gain(s), Inf)}
        best == Cheapest(slots, [s \in slots |-> gain(s)])
        put == [plan.chains EXCEPT ![best[1]] = InsertAt(@, best[2], i)]
    IN  IF slots = {} THEN [plan EXCEPT !.spare = @ \cup {i}]
        ELSE [plan EXCEPT
               !.chains = IF home = best[1] THEN put
                          ELSE [put EXCEPT ![home] = Without(@, i)],
               !.load[best[1]] = IF Job(i).charge THEN @ ELSE Plus(@, gain(best))]

Replaced(plan) ==
    LET kept == [v \in Cars |-> Startable(v, plan.chains[v])]
    IN  FoldLeft(Placed, [chains |-> kept, spare |-> plan.spare,
                          load |-> [v \in Cars |-> Load(v, kept[v], Len(kept[v]))]],
                 Misplaced(plan.chains))

\* A task whose leg from the one before is not known leaves the chain.
Tidy(v, acc, i) ==
    IF Cost(Latest(acc.kept), i, v) < Inf
    THEN [acc EXCEPT !.kept = Append(@, i)]
    ELSE [acc EXCEPT !.out = @ \cup {i}]
Tidied(v, ch) ==
    FoldLeft(LAMBDA acc, i : Tidy(v, acc, i), [kept |-> <<>>, out |-> {}], ch)

\* Mutant: broken legs stay.
CleanedMutant(plan) == [chains |-> plan.chains, spare |-> plan.spare]

Cleaned(plan) ==
    [chains |-> [v \in Cars |-> Tidied(v, plan.chains[v]).kept],
     spare |-> plan.spare \cup UNION {Tidied(v, plan.chains[v]).out : v \in Cars}]

\* Where a chain passes the limits on start time and detour.
CutPoints(v, ch) ==
    LET start(p) == FoldLeft(LAMBDA acc, q : Plus(acc, Leg(v, ch, q)), 0, Numbers(p))
        detour(p) == FoldLeft(LAMBDA acc, q :
                        acc + Travel(From(Job(ch[q])), From(Job(ch[q + 1]))),
                        0, Numbers(p - 1))
    IN  {p \in DOMAIN ch :
           \/ request.detour > 0 /\ p > 1 /\ detour(p) >= request.detour
           \/ request.ahead > 0 /\ start(p) >= request.ahead}

\* The chain ends before the first such task, but keeps its first one.
Allowed(v, ch) ==
    IF Len(ch) <= 1 \/ CutPoints(v, ch) = {} THEN Len(ch)
    ELSE Max({1, Min(CutPoints(v, ch)) - 1})

Trimmed(plan) ==
    LET cut(v) == Allowed(v, plan.chains[v])
        over(v) == SubSeq(plan.chains[v], cut(v) + 1, Len(plan.chains[v]))
    IN  [chains |-> [v \in Cars |-> SubSeq(plan.chains[v], 1, cut(v))],
         spare |-> plan.spare \cup UNION {ToSet(over(v)) : v \in Cars}]

\* Tasks on no vehicle are spare; a vehicle with nothing to do gets the
\* cheapest of them that no other vehicle has.
Able(open, v) == {i \in open : Cost(First, i, v) < Inf}
Nearest(open, v) ==
    CHOOSE i \in Able(open, v) : \A j \in Able(open, v) :
        \/ Cost(First, i, v) < Cost(First, j, v)
        \/ Cost(First, i, v) = Cost(First, j, v) /\ i <= j
Occupy(acc, v) ==
    IF acc.chains[v] # <<>> \/ Able(acc.open, v) = {} THEN acc
    ELSE [chains |-> [acc.chains EXCEPT ![v] = <<Nearest(acc.open, v)>>],
          open |-> acc.open \ {Nearest(acc.open, v)}]

Loose(plan) == plan.spare \cup (Jobs \ Driven(plan.chains))
Occupied(plan) ==
    FoldLeft(Occupy, [chains |-> plan.chains, open |-> Loose(plan) \ Driven(plan.chains)],
             Numbers(Len(crew)))

FillIdle(plan) ==
    LET filled == Occupied(plan)
    IN  [chains |-> filled.chains,
         spare |-> IF filled.chains = plan.chains THEN Loose(plan) ELSE filled.open]

Repaired(plan, trim) ==
    LET clean == Cleaned(Replaced(plan))
    IN  FillIdle(IF trim THEN Trimmed(clean) ELSE clean)

\* GreedyTaskAllocator switches the trimming off.  Its spare tasks are only
\* used when it is the algorithm asked for.
GreedyRepair ==
    /\ phase = "greedyRepair"
    /\ LET plan == Repaired([chains |-> chains, spare |-> {}], FALSE)
       IN  /\ chains' = plan.chains
           /\ spare' = IF request.posta THEN {} ELSE plan.spare
    /\ phase' = IF request.posta THEN "fill" ELSE "publish"
    /\ UNCHANGED <<request, list, work, crew, costs, missing, answer>>

-----------------------------------------------------------------------------
(* PostaTaskAllocator.                                                     *)

\* A code is the chains one after the other, with separators.
Separator == 0
\* Mutant: the first chain has a separator too.
CodeMutant(chs) ==
    FoldLeft(LAMBDA acc, v : acc \o <<Separator>> \o chs[v], <<>>, Numbers(Len(chs)))

Code(chs) ==
    FoldLeft(LAMBDA acc, v : IF v = 1 THEN chs[1] ELSE acc \o <<Separator>> \o chs[v],
             <<>>, Numbers(Len(chs)))

Decode(code) ==
    FoldLeft(LAMBDA acc, c : IF c = Separator THEN Append(acc, <<>>)
                             ELSE [acc EXCEPT ![Len(acc)] = Append(@, c)],
             <<<<>>>>, code)
Shuffles(code) ==
    {[k \in DOMAIN code |-> code[f[k]]] : f \in Bijection(DOMAIN code, DOMAIN code)}

\* Mutant: tasks on a vehicle count as left out.
MissedMutant == Jobs \ missing

Missed == {i \in Jobs \ missing : i \notin Driven(chains)}

\* A task greedy left out goes anywhere the limits and the known legs allow.
FillMissing ==
    /\ phase = "fill"
    /\ Code(chains) # <<>>
    /\ Missed # {}
    /\ LET i == Min(Missed)
           with(s) == [chains EXCEPT ![s[1]] = InsertAt(@, s[2], i)]
           slots == {s \in Slots(chains) :
                       /\ CutPoints(s[1], with(s)[s[1]]) = {}
                       /\ \A v \in Cars : Known(v, with(s)[v])}
       IN  IF slots = {} THEN missing' = missing \cup {i} /\ UNCHANGED chains
           ELSE \E s \in slots : chains' = with(s) /\ UNCHANGED missing
    /\ UNCHANGED <<phase, request, list, work, crew, costs, spare, answer>>

\* An empty code, of one vehicle without tasks, is replaced by all the tasks
\* in some order.
StartAnywhere ==
    /\ phase = "fill"
    /\ Code(chains) = <<>>
    /\ \E code \in Shuffles(Numbers(Len(work))) : chains' = Decode(code)
    /\ UNCHANGED <<phase, request, list, work, crew, costs, missing, spare, answer>>

\* Swap, shift and reversal move tasks and separators alike.  What the search
\* ends with is better than what it began with, so all its legs are known, or
\* it is what it began with.
Search ==
    /\ phase = "fill"
    /\ Code(chains) # <<>>
    /\ Missed = {}
    /\ \/ UNCHANGED chains
       \/ \E code \in Shuffles(Code(chains)) :
             /\ \A v \in Cars : Known(v, Decode(code)[v])
             /\ chains' = Decode(code)
    /\ phase' = "postaRepair"
    /\ UNCHANGED <<request, list, work, crew, costs, missing, spare, answer>>

PostaRepair ==
    /\ phase = "postaRepair"
    /\ LET plan == Repaired([chains |-> chains, spare |-> {}], TRUE)
       IN  /\ chains' = plan.chains
           /\ spare' = plan.spare \cup missing
    /\ phase' = "publish"
    /\ UNCHANGED <<request, list, work, crew, costs, missing, answer>>

-----------------------------------------------------------------------------
(* SanitizeAllocationResult: by the map alone, and by the first and the    *)
(* last subtask even when they name no node.                               *)

Entry(t) == IF t.stops = <<>> THEN Nowhere ELSE Head(t.stops)
Leave(t) == IF t.stops = <<>> THEN Nowhere ELSE Last(t.stops)

Sane(at, t) ==
    /\ Connected(at, Entry(t))
    /\ Leave(t) \notin {Nowhere, Entry(t)} => Connected(Entry(t), Leave(t))

\* The slots at which a task can join the chains, and what it costs there: v
\* starts at start[v], ends[i] are the places where i begins and ends, and new
\* are those of the task that joins.
Previous(chs, start, ends, s) ==
    IF s[2] = 1 THEN start[s[1]] ELSE ends[chs[s[1]][s[2] - 1]][2]
Following(chs, ends, s) ==
    IF s[2] > Len(chs[s[1]]) THEN Nowhere ELSE ends[chs[s[1]][s[2]]][1]

Room(chs, start, ends, new) ==
    {s \in Slots(chs) :
       /\ Connected(Previous(chs, start, ends, s), new[1])
       /\ Connected(new[1], new[2])
       /\ Following(chs, ends, s) # Nowhere => Connected(new[2], Following(chs, ends, s))}

Extra(chs, start, ends, new, s) ==
    LET prev == Previous(chs, start, ends, s)
        next == Following(chs, ends, s)
    IN  Travel(prev, new[1]) + Travel(new[1], new[2]) +
        (IF next = Nowhere THEN 0 ELSE Travel(new[2], next) - Travel(prev, next))

Starts == [v \in Cars |-> Car(v).at]
Ends == [i \in Jobs |-> <<Entry(Job(i)), Leave(Job(i))>>]

\* The tasks the map does not let follow one another go out,
Sift(acc, i) ==
    IF Sane(acc.at, Job(i))
    THEN [acc EXCEPT !.kept = Append(@, i), !.at = Leave(Job(i))]
    ELSE [acc EXCEPT !.out = Append(@, i)]
Sifted(v, ch) == FoldLeft(Sift, [kept |-> <<>>, out |-> <<>>, at |-> Car(v).at], ch)

\* and come back where they cost least.
Return(acc, i) ==
    LET slots == Room(acc.chains, Starts, Ends, Ends[i])
        best == Cheapest(slots, [s \in slots |-> Extra(acc.chains, Starts, Ends, Ends[i], s)])
    IN  IF slots = {} THEN [acc EXCEPT !.spare = @ \cup {i}]
        ELSE [acc EXCEPT !.chains[best[1]] = InsertAt(@, best[2], i)]

Sanitized(plan) ==
    FoldLeft(Return, [chains |-> [v \in Cars |-> Sifted(v, plan.chains[v]).kept],
                      spare |-> plan.spare],
             FlattenSeq([v \in Cars |-> Sifted(v, plan.chains[v]).out]))

-----------------------------------------------------------------------------
(* The way back: RemapAllocationToOriginal and the whole fleet.            *)

Forced == Chosen(Numbers(Len(list)), {k \in DOMAIN list : k \notin ToSet(work)})

\* Mutant: the chains keep the numbers of the tasks that were left.
RemappedMutant(plan) ==
    [routes |-> [f \in DOMAIN request.fleet |->
                   IF \E v \in Cars : crew[v] = f
                   THEN plan.chains[CHOOSE v \in Cars : crew[v] = f]
                   ELSE <<>>],
     spare |-> {work[i] : i \in plan.spare}]

Remapped(plan) ==
    [routes |-> [f \in DOMAIN request.fleet |->
                   IF \E v \in Cars : crew[v] = f
                   THEN LET v == CHOOSE v \in Cars : crew[v] = f
                        IN  [p \in DOMAIN plan.chains[v] |-> work[plan.chains[v][p]]]
                   ELSE <<>>],
     spare |-> {work[i] : i \in plan.spare}]

\* InsertForcedTasks: a task that was set aside joins a vehicle of the crew
\* after all if the map lets it, otherwise AppendForcedTasks makes it spare.
FleetStarts == [f \in DOMAIN request.fleet |-> request.fleet[f].at]
ListEnds == [k \in DOMAIN list |-> <<From(list[k]), To(list[k])>>]
Join(acc, k) ==
    LET slots == {s \in Room(acc.routes, FleetStarts, ListEnds, ListEnds[k]) :
                    /\ From(list[k]) # Nowhere /\ Drivable(list[k])
                    /\ s[1] \in ToSet(crew)}
        best == Cheapest(slots, [s \in slots |->
                                   Extra(acc.routes, FleetStarts, ListEnds, ListEnds[k], s)])
    IN  IF slots = {} THEN [acc EXCEPT !.spare = @ \cup {k}]
        ELSE [acc EXCEPT !.routes[best[1]] = InsertAt(@, best[2], k)]

WithForced(result) == FoldLeft(Join, result, Forced)

\* ComputeChainDurationsSec: can the map drive the whole chain?
Finite(f, route) ==
    \A p \in DOMAIN route :
        /\ Drivable(list[route[p]])
        /\ Connected(IF p = 1 THEN request.fleet[f].at ELSE To(list[route[p - 1]]),
                     From(list[route[p]]))

\* A chain of infinite duration is taken off its vehicle.
Driveable(result) ==
    [routes |-> [f \in DOMAIN result.routes |->
                   IF Finite(f, result.routes[f]) THEN result.routes[f] ELSE <<>>],
     spare |-> result.spare \cup
         UNION {ToSet(result.routes[f]) :
                f \in {g \in DOMAIN result.routes : ~Finite(g, result.routes[g])}}]

Publish ==
    /\ phase = "publish"
    /\ answer' = Driveable(WithForced(Remapped(Sanitized([chains |-> chains, spare |-> spare]))))
    /\ phase' = "done"
    /\ UNCHANGED <<request, list, work, crew, costs, chains, missing, spare>>

-----------------------------------------------------------------------------
(* The head of processSchedulingMessage.                                   *)

\* In an emergency the code also adds what vehicles at work have in their own queues
\* (stealAllQueuedTasks): nothing, for vehicles are built from their status, without a
\* queue.
Receive ==
    /\ phase = "waiting"
    /\ \E q \in Request : \E sorted \in Sorted(q.tasks) :
         LET taken == IF q.batch = 0 THEN Len(sorted) ELSE Min({q.batch, Len(sorted)})
             tasks == SubSeq(sorted, 1, taken)
             able == LET few == Available(q.fleet, tasks)
                     IN  [v \in DOMAIN few |-> q.fleet[few[v]]]
             left == Chosen(Numbers(taken), {k \in 1..taken : Reachable(tasks[k], able)})
             jobs == [k \in DOMAIN left |-> tasks[left[k]]]
             cars == Available(q.fleet, jobs)
         IN  /\ request' = q
             /\ list' = tasks
             /\ work' = left
             /\ crew' = cars
             /\ chains' = [v \in DOMAIN cars |-> <<>>]
             /\ phase' = IF /\ HasIdle(q.fleet) \/ HasEmergency(jobs)
                            /\ cars # <<>>
                            /\ jobs # <<>>
                         THEN "costs" ELSE "refuse"
    /\ UNCHANGED <<costs, missing, spare, answer>>

\* Nobody to plan for or nothing to plan: every task is spare.
Refuse ==
    /\ phase = "refuse"
    /\ answer' = [routes |-> [f \in DOMAIN request.fleet |-> <<>>],
                  spare |-> ToSet(Forced) \cup ToSet(work)]
    /\ phase' = "done"
    /\ UNCHANGED <<request, list, work, crew, costs, chains, missing, spare>>

Init ==
    /\ phase = "waiting" /\ request = NoRequest
    /\ list = <<>> /\ work = <<>> /\ crew = <<>>
    /\ costs = [leg \in {} |-> 0] /\ chains = <<>>
    /\ missing = {} /\ spare = {}
    /\ answer = NoAnswer

Next ==
    \/ Receive \/ Refuse
    \/ FillCosts \/ GreedyRound \/ GreedyEnds \/ GreedyRepair
    \/ FillMissing \/ StartAnywhere \/ Search \/ PostaRepair
    \/ Publish

Spec == Init /\ [][Next]_vars

-----------------------------------------------------------------------------
(* Properties.                                                             *)

\* Every part of the pipeline works on tasks and vehicles that exist, in
\* every numbering: the filtered one until the chains are published, then
\* the one of the message.
TypeOK ==
    /\ phase \in {"waiting", "refuse", "costs", "greedy", "greedyRepair", "fill",
                  "postaRepair", "publish", "done"}
    /\ work \in Seq(DOMAIN list) /\ crew \in Seq(DOMAIN request.fleet)
    /\ DOMAIN costs \subseteq (Jobs \cup {First}) \X Jobs \X Cars
    /\ \A leg \in DOMAIN costs : costs[leg] \in Int /\ costs[leg] < Inf
    /\ DOMAIN chains = Cars /\ Driven(chains) \subseteq Jobs
    /\ missing \cup spare \subseteq Jobs
    /\ Driven(answer.routes) \cup answer.spare \subseteq DOMAIN list

Answered == phase = "done"

\* No task of the batch is lost on the way through filter, allocators,
\* repairs and renumbering: the answer names it, on a vehicle or as spare.
EveryTaskAnswered ==
    Answered => Driven(answer.routes) \cup answer.spare = DOMAIN list

OnOneVehicle ==
    \A f, g \in DOMAIN answer.routes :
        \A p \in DOMAIN answer.routes[f], q \in DOMAIN answer.routes[g] :
            answer.routes[f][p] = answer.routes[g][q] => f = g /\ p = q

\* The task lists of the vehicles do not overlap, although greedy, missing
\* tasks, search, repair, idle vehicles, sanitising and forced tasks all
\* insert into them: each task is on one vehicle, once.  It takes that no
\* vehicle has limited endurance and that a vehicle can start with each task
\* it can drive to after another, for a task over the limit, or behind a leg
\* that broke when one left the chain, is inserted again and stays as well.
DrivenOnce ==
    /\ Answered
    /\ \A v \in ToSet(request.fleet) : v.endurance <= 0
    /\ \A leg \in DOMAIN costs : <<First, leg[2], leg[3]>> \in DOMAIN costs
    => OnOneVehicle

\* What isTaskValid asks of a vehicle (devices, battery, priority, an idle
\* vehicle unless it is an emergency) holds of the vehicle a task ends up
\* on, however often it was moved.  The last two steps only ask the map: they
\* are exempt for tasks that had been set aside, for messages with a task whose first or
\* last subtask names no node, and for fleets with a vehicle that reports a destination
\* it cannot drive to.
EligibleOnly ==
    /\ Answered
    /\ \A t \in ToSet(list) : Nowhere \notin {Entry(t), Leave(t)}
    /\ \A v \in ToSet(request.fleet) : Connected(v.at, v.heading)
    => \A f \in DOMAIN answer.routes :
          \A k \in ToSet(answer.routes[f]) \ ToSet(Forced) :
             IsTaskValid(request.fleet[f], list[k])

\* A chain holds only legs the cost matrix has: search, repair, trimming and
\* idle vehicles never join two tasks over a leg the updater denied.
LegsAreKnown ==
    phase = "publish" => \A v \in Cars : Known(v, chains[v])

\* An answer has one place for a task: once on one vehicle, as the repair says
\* it takes care of where it moves tasks, or in the list of tasks that could not
\* be allocated.
NamedOnce ==
    Answered => OnOneVehicle /\ Driven(answer.routes) \cap answer.spare = {}
=============================================================================
