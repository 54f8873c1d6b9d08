------------------------- MODULE UpdaterOnMap_proofs -------------------------
(***************************************************************************)
(* Proofs about the table of travel times.                                 *)
(*                                                                         *)
(* First the updater by itself, for any nodes, workers, questions and      *)
(* results of the searches: nothing up to NoWait cites an assumption about *)
(* the map or about the searches.                                          *)
(*                                                                         *)
(* Then what the table means on a map, for any map and any number of       *)
(* workers: a time in it is the time of a route that can be driven, and a  *)
(* pair that is given up has no route without a forbidden turn, whichever  *)
(* of the two searches, or the cheap test, has written it.                 *)
(***************************************************************************)
EXTENDS UpdaterOnMap, NumberSets, FiniteSetTheorems, FunctionTheorems, SequenceTheorems

-----------------------------------------------------------------------------
(* The updater: its queue, its rows and its threads.                       *)

InCall == {"row", "batch", "read", "deny", "enqueue", "notify", "value", "poll"}

HasRow(pair) == pair \in Node \X Node /\ matrix[pair[1]] # NoRow

\* Whoever writes to the table has made the row before.
ClientHasRow ==
  /\ client.pc \in InCall => client.pair \in Node \X Node
  /\ client.pc \in InCall \ {"row"} => HasRow(client.pair)

QueueHasRows == \A i \in 1 .. Len(queue) : HasRow(queue[i])

WorkersHaveRows == \A w \in Worker : worker[w].pc = "searching" => HasRow(worker[w].pair)

\* A worker that is about to sleep, or has gone, has seen an empty queue, and nobody
\* puts anything in it any more once a worker has gone.
IdleInv ==
  /\ \A w \in Worker : worker[w].pc = "exited" => shouldExit /\ queue = <<>>
  /\ \A w \in Worker : worker[w].pc = "dozing" => queue = <<>>
  /\ shouldExit => client.pc \in {"exiting", "leaving", "destroy", "joining", "done"}
  /\ client.pc = "done" => \A w \in Worker : worker[w].pc = "exited"

\* After its batch, a call that waits finds the pair settled, and so does not poll.
BatchInv ==
  /\ client.pc \in InCall \ {"row", "batch"} /\ client.wait /\ client.pair[1] # client.pair[2] =>
       Usable(Value(client.pair))
  /\ WaitsOnlyAtHome

\* The inductive invariant.
IInv ==
  /\ TypeOK /\ ClientHasRow /\ QueueHasRows /\ WorkersHaveRows /\ IdleInv /\ BatchInv
  /\ QueueIsServed

-----------------------------------------------------------------------------
(* The table.                                                               *)

\* Writing one pair leaves the rows where they are and the other pairs as they are.
LEMMA SetPair ==
  ASSUME TypeOK, NEW pair, HasRow(pair), NEW v \in Known, Set(pair, v)
  PROVE  /\ matrix' \in [Node -> {NoRow} \cup [Node -> Known \cup {UNCALCULATED}]]
         /\ \A p : HasRow(p) => p \in Node \X Node /\ matrix'[p[1]] # NoRow
         /\ matrix'[pair[1]][pair[2]] = v
         /\ \A p : HasRow(p) /\ p # pair => matrix'[p[1]][p[2]] = matrix[p[1]][p[2]]
<1> DEFINE s == pair[1]
           e == pair[2]
           row == [matrix[s] EXCEPT ![e] = v]
<1>1. s \in Node /\ e \in Node /\ pair = <<s, e>> /\ matrix[s] # NoRow
  BY DEF HasRow
<1>2. matrix[s] \in [Node -> Known \cup {UNCALCULATED}]
  BY <1>1 DEF TypeOK
<1>3. row \in [Node -> Known \cup {UNCALCULATED}] /\ row[e] = v
  BY <1>1, <1>2
<1>4. row # NoRow
  <2>1. DOMAIN row = Node /\ Node # {}
    BY <1>1, <1>3
  <2>2. DOMAIN NoRow = {}
    BY DEF NoRow
  <2> QED BY <2>1, <2>2
<1>5. matrix' = [matrix EXCEPT ![s] = row]
  BY DEF Set
<1>6. DOMAIN matrix = Node
  BY DEF TypeOK
<1>7. matrix'[s] = row /\ \A n \in Node \ {s} : matrix'[n] = matrix[n]
  BY <1>1, <1>5, <1>6
<1>8. matrix' \in [Node -> {NoRow} \cup [Node -> Known \cup {UNCALCULATED}]]
  BY <1>1, <1>3, <1>5 DEF TypeOK
<1>9. ASSUME NEW p, HasRow(p)
      PROVE  p \in Node \X Node /\ matrix'[p[1]] # NoRow
  BY <1>4, <1>7, <1>9 DEF HasRow
<1>10. ASSUME NEW p, HasRow(p), p # pair
       PROVE  matrix'[p[1]][p[2]] = matrix[p[1]][p[2]]
  <2>1. p = <<p[1], p[2]>> /\ p[1] \in Node /\ p[2] \in Node
    BY <1>10 DEF HasRow
  <2>2. CASE p[1] = s
    <3>1. p[2] # e
      BY <1>1, <1>10, <2>1, <2>2
    <3>2. row[p[2]] = matrix[s][p[2]]
      BY <1>2, <2>1, <3>1
    <3> QED BY <1>7, <2>2, <3>2
  <2>3. CASE p[1] # s
    BY <1>7, <2>1, <2>3
  <2> QED BY <2>2, <2>3
<1> QED BY <1>3, <1>7, <1>8, <1>9, <1>10

\* A row is not an empty one.
LEMMA NewRow ==
  ASSUME TypeOK, NEW s \in Node, matrix' = [matrix EXCEPT ![s] = [n \in Node |-> UNCALCULATED]]
  PROVE  /\ matrix' \in [Node -> {NoRow} \cup [Node -> Known \cup {UNCALCULATED}]]
         /\ matrix'[s] # NoRow
         /\ \A n \in Node \ {s} : matrix'[n] = matrix[n]
<1> DEFINE row == [n \in Node |-> UNCALCULATED]
<1>1. row \in [Node -> Known \cup {UNCALCULATED}]
  OBVIOUS
<1>2. row # NoRow
  <2>1. DOMAIN row = Node /\ Node # {}
    OBVIOUS
  <2>2. DOMAIN NoRow = {}
    BY DEF NoRow
  <2> QED BY <2>1, <2>2
<1>3. DOMAIN matrix = Node
  BY DEF TypeOK
<1>4. matrix'[s] = row
  BY <1>3
<1> HIDE DEF row
<1>5. matrix' = [matrix EXCEPT ![s] = row]
  BY DEF row
<1> QED BY <1>1, <1>2, <1>3, <1>4, <1>5 DEF TypeOK

\* What a search writes for a pair of two nodes is usable.
LEMMA ResultUsable ==
  ASSUME NEW pair \in Node \X Node, NEW v \in Batch[pair] \cup Found[pair]
  PROVE  v \in Known /\ (pair[1] # pair[2] => Usable(v))
  BY UpdaterAssumption DEF Known, Usable, UNREACHABLE

-----------------------------------------------------------------------------
(* The steps of the client.                                                 *)

USE DEF InCall, WaitsOnlyAtHome

\* A query that begins keeps the invariant.
LEMMA AskStep ==
  ASSUME IInv, NEW pair \in Asked, NEW wait \in BOOLEAN, Ask(pair, wait)
  PROVE  IInv'
<1> USE DEF IInv, Ask
<1>1. pair \in Node \X Node
  BY UpdaterAssumption
<1>2. TypeOK'
  BY <1>1, UpdaterAssumption DEF TypeOK, ClientState
<1>3. ClientHasRow'
  BY <1>1 DEF ClientHasRow
<1>4. QueueHasRows' /\ WorkersHaveRows'
  BY DEF QueueHasRows, WorkersHaveRows, HasRow
<1>5. IdleInv'
  BY DEF IdleInv
<1>6. BatchInv'
  BY DEF BatchInv
<1>7. QueueIsServed'
  BY DEF QueueIsServed
<1> QED BY <1>2, <1>3, <1>4, <1>5, <1>6, <1>7

\* Making a row keeps the invariant.
LEMMA EnsureRowStep ==
  ASSUME IInv, EnsureRow
  PROVE  IInv'
<1> DEFINE s == client.pair[1]
<1>1. client.pair \in Node \X Node /\ s \in Node
  BY DEF IInv, ClientHasRow, EnsureRow
<1>2. /\ matrix' \in [Node -> {NoRow} \cup [Node -> Known \cup {UNCALCULATED}]]
      /\ matrix'[s] # NoRow
      /\ \A n \in Node : matrix[n] # NoRow => matrix'[n] # NoRow
  <2>1. CASE matrix[s] # NoRow
    BY <2>1 DEF EnsureRow, IInv, TypeOK
  <2>2. CASE matrix[s] = NoRow
    <3>1. matrix' = [matrix EXCEPT ![s] = [n \in Node |-> UNCALCULATED]]
      BY <2>2 DEF EnsureRow
    <3> HIDE DEF s
    <3> QED BY <1>1, <3>1, NewRow DEF IInv
  <2> QED BY <2>1, <2>2
<1>3. /\ client' = [client EXCEPT !.pc = IF client.wait THEN "batch" ELSE "read"]
      /\ UNCHANGED <<queue, worker, shouldExit, calls>> /\ client.pc = "row"
  BY DEF EnsureRow, GotoClient
<1>4. /\ client' \in ClientState /\ client'.pair = client.pair /\ client'.wait = client.wait
      /\ client'.pc = IF client.wait THEN "batch" ELSE "read"
  BY <1>3 DEF IInv, TypeOK, ClientState
<1>5. TypeOK'
  BY <1>2, <1>3, <1>4 DEF IInv, TypeOK
<1>6. ClientHasRow'
  BY <1>1, <1>2, <1>4 DEF ClientHasRow, HasRow
<1>7. QueueHasRows' /\ WorkersHaveRows'
  BY <1>2, <1>3 DEF IInv, QueueHasRows, WorkersHaveRows, HasRow
<1>8. IdleInv'
  BY <1>3, <1>4 DEF IInv, IdleInv
<1>9. BatchInv'
  BY <1>4 DEF BatchInv
<1>10. QueueIsServed'
  BY <1>3 DEF IInv, QueueIsServed
<1> QED BY <1>5, <1>6, <1>7, <1>8, <1>9, <1>10 DEF IInv

\* A step of a call that only moves the client on to another place of the call.
LEMMA GotoStep ==
  ASSUME IInv, NEW pc \in InCall \ {"row", "batch"}, GotoClient(pc),
         client.pc \in InCall \ {"row", "batch", "notify"},
         pc = "poll" => client.pair[1] = client.pair[2],
         UNCHANGED <<matrix, queue, worker, shouldExit, calls>>
  PROVE  IInv'
<1>1. /\ client' \in ClientState /\ client'.pair = client.pair /\ client'.wait = client.wait
      /\ client'.pc = pc
  BY DEF IInv, TypeOK, ClientState, GotoClient
<1>2. TypeOK'
  BY <1>1 DEF IInv, TypeOK
<1>3. ClientHasRow' /\ QueueHasRows' /\ WorkersHaveRows'
  BY <1>1 DEF IInv, ClientHasRow, QueueHasRows, WorkersHaveRows, HasRow
<1>4. IdleInv'
  BY <1>1 DEF IInv, IdleInv
<1>5. BatchInv'
  BY <1>1 DEF IInv, BatchInv, Value
<1>6. QueueIsServed'
  BY DEF IInv, QueueIsServed
<1> QED BY <1>2, <1>3, <1>4, <1>5, <1>6 DEF IInv

\* The end of a call, or a step of its end: the client owes the workers nothing.
LEMMA LeaveStep ==
  ASSUME IInv, NEW pc \in {"idle", "exiting", "leaving", "destroy"}, GotoClient(pc),
         client.pc # "notify", UNCHANGED <<matrix, queue, worker, calls>>,
         shouldExit' \in BOOLEAN, shouldExit => shouldExit', shouldExit' => pc # "idle"
  PROVE  IInv'
<1>1. client' \in ClientState /\ client'.pc = pc
  BY DEF IInv, TypeOK, ClientState, GotoClient
<1>2. TypeOK'
  BY <1>1 DEF IInv, TypeOK
<1>3. ClientHasRow' /\ QueueHasRows' /\ WorkersHaveRows'
  BY <1>1 DEF IInv, ClientHasRow, QueueHasRows, WorkersHaveRows, HasRow
<1>4. IdleInv'
  BY <1>1 DEF IInv, IdleInv
<1>5. BatchInv'
  BY <1>1 DEF BatchInv
<1>6. QueueIsServed'
  BY DEF IInv, QueueIsServed
<1> QED BY <1>2, <1>3, <1>4, <1>5, <1>6 DEF IInv

\* A call writes to the pair asked for.
LEMMA ClientWrites ==
  ASSUME IInv, NEW v \in Known, Set(client.pair, v), NEW pc \in {"read", "value"}, GotoClient(pc),
         client.pc \in {"batch", "deny"}, client.pair[1] # client.pair[2] => Usable(v),
         UNCHANGED <<queue, worker, shouldExit, calls>>
  PROVE  IInv'
<1>1. HasRow(client.pair)
  BY DEF IInv, ClientHasRow
<1>2. /\ matrix' \in [Node -> {NoRow} \cup [Node -> Known \cup {UNCALCULATED}]]
      /\ \A p : HasRow(p) => p \in Node \X Node /\ matrix'[p[1]] # NoRow
      /\ matrix'[client.pair[1]][client.pair[2]] = v
  BY <1>1, SetPair DEF IInv
<1>3. /\ client' \in ClientState /\ client'.pair = client.pair /\ client'.wait = client.wait
      /\ client'.pc = pc
  BY DEF IInv, TypeOK, ClientState, GotoClient
<1>4. TypeOK'
  BY <1>2, <1>3 DEF IInv, TypeOK
<1>5. ClientHasRow' /\ QueueHasRows' /\ WorkersHaveRows'
  <2>1. \A p : HasRow(p) => HasRow(p)'
    BY <1>2 DEF HasRow
  <2>2. HasRow(client.pair)'
    BY <1>1, <1>2, <1>3 DEF HasRow
  <2> QED BY <1>3, <2>1, <2>2 DEF IInv, ClientHasRow, QueueHasRows, WorkersHaveRows, HasRow
<1>6. IdleInv'
  BY <1>3 DEF IInv, IdleInv
<1>7. BatchInv'
  BY <1>2, <1>3 DEF BatchInv, Value
<1>8. QueueIsServed'
  BY DEF IInv, QueueIsServed
<1> QED BY <1>4, <1>5, <1>6, <1>7, <1>8 DEF IInv

\* Queueing a pair keeps the invariant: the notification that follows is part of the step.
LEMMA EnqueueStep ==
  ASSUME IInv, Enqueue
  PROVE  IInv'
<1>1. /\ client.pc = "enqueue" /\ QueueFree
      /\ client' = [client EXCEPT !.pc = "notify"]
      /\ UNCHANGED <<matrix, worker, shouldExit, calls>>
      /\ queue' = queue \/ queue' = Append(queue, client.pair)
  BY DEF Enqueue, GotoClient
<1>2. /\ client' \in ClientState /\ client'.pair = client.pair /\ client'.wait = client.wait
      /\ client'.pc = "notify"
  BY <1>1 DEF IInv, TypeOK, ClientState
<1>3. HasRow(client.pair) /\ client.pair \in Node \X Node /\ queue \in Seq(Node \X Node)
  BY <1>1 DEF IInv, ClientHasRow, HasRow, TypeOK
<1>4. TypeOK'
  BY <1>1, <1>2, <1>3 DEF IInv, TypeOK
<1>5. ClientHasRow' /\ WorkersHaveRows'
  BY <1>1, <1>2, <1>3 DEF IInv, ClientHasRow, WorkersHaveRows, HasRow
<1>6. QueueHasRows'
  <2>1. \A i \in 1 .. Len(queue') : HasRow(queue'[i])
    BY <1>1, <1>3 DEF IInv, QueueHasRows
  <2> QED BY <1>1, <2>1 DEF QueueHasRows, HasRow
<1>7. IdleInv'
  BY <1>1, <1>2 DEF IInv, IdleInv, QueueFree
<1>8. BatchInv'
  BY <1>1, <1>2 DEF IInv, BatchInv, Value
<1>9. QueueIsServed'
  BY <1>2 DEF QueueIsServed
<1> QED BY <1>4, <1>5, <1>6, <1>7, <1>8, <1>9 DEF IInv

\* The workers that do not sleep are awake, are searching, or saw an empty queue.
LEMMA NotifyOneStep ==
  ASSUME IInv, NotifyOne
  PROVE  IInv'
<1>1. /\ client.pc = "notify" /\ client' = [client EXCEPT !.pc = "value"]
      /\ UNCHANGED <<matrix, queue, shouldExit, calls>>
  BY DEF NotifyOne, GotoClient
<1>2. /\ client' \in ClientState /\ client'.pair = client.pair /\ client'.wait = client.wait
      /\ client'.pc = "value"
  BY <1>1 DEF IInv, TypeOK, ClientState
<1>3. /\ worker' \in [Worker -> WorkerState]
      /\ \A w \in Worker : worker'[w] = worker[w] \/ worker'[w].pc = "awake"
  <2>1. worker' = worker \/ \E w \in Worker : worker' = [worker EXCEPT ![w].pc = "awake"]
    BY DEF NotifyOne
  <2>2. worker \in [Worker -> WorkerState]
    BY DEF IInv, TypeOK
  <2>3. CASE worker' = worker
    BY <2>2, <2>3
  <2>4. ASSUME NEW v \in Worker, worker' = [worker EXCEPT ![v].pc = "awake"]
        PROVE  /\ worker' \in [Worker -> WorkerState]
               /\ \A w \in Worker : worker'[w] = worker[w] \/ worker'[w].pc = "awake"
    BY <2>2, <2>4 DEF WorkerState
  <2> QED BY <2>1, <2>3, <2>4
<1>4. TypeOK'
  BY <1>1, <1>2, <1>3 DEF IInv, TypeOK
<1>5. ClientHasRow' /\ QueueHasRows' /\ WorkersHaveRows'
  BY <1>1, <1>2, <1>3 DEF IInv, ClientHasRow, QueueHasRows, WorkersHaveRows, HasRow
<1>6. IdleInv'
  BY <1>1, <1>2, <1>3 DEF IInv, IdleInv
<1>7. BatchInv'
  BY <1>1, <1>2 DEF IInv, BatchInv, Value
<1>8. QueueIsServed'
  <2>1. CASE \E w \in Worker : worker[w].pc = "asleep"
    <3>1. \E w \in Worker : worker' = [worker EXCEPT ![w].pc = "awake"]
      BY <2>1 DEF NotifyOne
    <3>2. \E w \in Worker : worker'[w].pc = "awake"
      BY <3>1 DEF IInv, TypeOK, WorkerState
    <3> QED BY <3>2 DEF QueueIsServed
  <2>2. CASE ~ \E w \in Worker : worker[w].pc = "asleep"
    <3>1. worker' = worker
      BY <2>2 DEF NotifyOne
    <3>2. \A w \in Worker : worker[w].pc \in {"awake", "dozing", "searching", "exited"}
      BY <2>2 DEF IInv, TypeOK, WorkerState
    <3>3. queue # <<>> => \A w \in Worker : worker[w].pc \in {"awake", "searching"}
      BY <3>2 DEF IInv, IdleInv
    <3> QED BY <1>1, <3>1, <3>3, UpdaterAssumption DEF QueueIsServed
  <2> QED BY <2>1, <2>2
<1> QED BY <1>4, <1>5, <1>6, <1>7, <1>8 DEF IInv

\* The destructor's notification keeps the invariant.
LEMMA NotifyAllStep ==
  ASSUME IInv, NotifyAll
  PROVE  IInv'
<1>1. /\ client' \in ClientState /\ client'.pc = "joining" /\ client.pc = "destroy"
      /\ UNCHANGED <<matrix, queue, shouldExit, calls>>
  BY DEF NotifyAll, GotoClient, IInv, TypeOK, ClientState
<1>2. /\ worker' \in [Worker -> WorkerState]
      /\ \A w \in Worker : worker'[w] = worker[w]
                           \/ (worker[w].pc = "asleep" /\ worker'[w].pc = "awake")
  BY DEF NotifyAll, IInv, TypeOK, WorkerState
<1>3. TypeOK'
  BY <1>1, <1>2 DEF IInv, TypeOK
<1>4. ClientHasRow' /\ QueueHasRows' /\ WorkersHaveRows'
  BY <1>1, <1>2 DEF IInv, ClientHasRow, QueueHasRows, WorkersHaveRows, HasRow
<1>5. IdleInv'
  BY <1>1, <1>2 DEF IInv, IdleInv
<1>6. BatchInv'
  BY <1>1 DEF BatchInv
<1>7. QueueIsServed'
  BY <1>1, <1>2 DEF IInv, QueueIsServed
<1> QED BY <1>3, <1>4, <1>5, <1>6, <1>7 DEF IInv

\* The destructor's join keeps the invariant.
LEMMA JoinStep ==
  ASSUME IInv, Join
  PROVE  IInv'
<1>1. /\ client' \in ClientState /\ client'.pc = "done" /\ client.pc = "joining"
      /\ UNCHANGED <<matrix, queue, worker, shouldExit, calls>>
      /\ \A w \in Worker : worker[w].pc = "exited"
  BY DEF Join, GotoClient, IInv, TypeOK, ClientState
<1>2. TypeOK'
  BY <1>1 DEF IInv, TypeOK
<1>3. ClientHasRow' /\ QueueHasRows' /\ WorkersHaveRows'
  BY <1>1 DEF IInv, ClientHasRow, QueueHasRows, WorkersHaveRows, HasRow
<1>4. IdleInv'
  BY <1>1 DEF IInv, IdleInv
<1>5. BatchInv' /\ QueueIsServed'
  BY <1>1 DEF IInv, BatchInv, QueueIsServed
<1> QED BY <1>2, <1>3, <1>4, <1>5 DEF IInv

\* Every other step of the client keeps the invariant.
LEMMA ClientStep ==
  ASSUME IInv, CallStep \/ RequestExit \/ Unwind \/ EndStep
  PROVE  IInv'
<1>1. CASE EnsureRow
  BY <1>1, EnsureRowStep
<1>2. CASE RunBatch
  <2>1. PICK v \in Batch[client.pair] : Set(client.pair, v)
    BY <1>2 DEF RunBatch
  <2>2. client.pair \in Node \X Node
    BY <1>2 DEF RunBatch, IInv, ClientHasRow
  <2>3. v \in Known /\ (client.pair[1] # client.pair[2] => Usable(v))
    BY <2>2, ResultUsable
  <2> QED BY <1>2, <2>1, <2>3, ClientWrites DEF RunBatch
<1>3. CASE ReadCache
  BY <1>3, GotoStep DEF ReadCache
<1>4. CASE Deny
  <2>1. UNREACHABLE \in Known /\ Usable(UNREACHABLE)
    BY DEF Known, Usable
  <2> QED BY <1>4, <2>1, ClientWrites DEF Deny
<1>5. CASE Enqueue
  BY <1>5, EnqueueStep
<1>6. CASE NotifyOne
  BY <1>6, NotifyOneStep
<1>7. CASE Answer
  <2>1. CASE client.wait /\ ~Usable(Value(client.pair))
    <3>1. client.pair[1] = client.pair[2]
      BY <1>7, <2>1 DEF Answer, IInv, BatchInv
    <3> QED BY <1>7, <2>1, <3>1, GotoStep DEF Answer
  <2>2. CASE ~(client.wait /\ ~Usable(Value(client.pair)))
    BY <1>7, <2>2, LeaveStep DEF Answer, IInv, IdleInv, TypeOK
  <2> QED BY <2>1, <2>2
<1>8. CASE Poll
  <2>1. CASE GotoClient("read")
    BY <1>8, <2>1, GotoStep DEF Poll
  <2>2. CASE GotoClient("idle")
    BY <1>8, <2>2, LeaveStep DEF Poll, IInv, IdleInv, TypeOK
  <2> QED BY <1>8, <2>1, <2>2 DEF Poll
<1>9. CASE RequestExit
  BY <1>9, LeaveStep DEF RequestExit
<1>10. CASE Unwind
  BY <1>10, LeaveStep DEF Unwind, IInv, TypeOK
<1>11. CASE Destroy
  BY <1>11, LeaveStep DEF Destroy
<1>12. CASE NotifyAll
  BY <1>12, NotifyAllStep
<1>13. CASE Join
  BY <1>13, JoinStep
<1>14. CASE GetActiveWorkers
  BY <1>14, LeaveStep DEF GetActiveWorkers, IInv, TypeOK
<1> QED BY <1>1, <1>2, <1>3, <1>4, <1>5, <1>6, <1>7, <1>8, <1>9, <1>10, <1>11, <1>12, <1>13, <1>14
        DEF CallStep, EndStep

-----------------------------------------------------------------------------
(* The steps of a worker.                                                   *)

\* A worker that only changes its place, and leaves queue and table alone.
LEMMA MoveStep ==
  ASSUME IInv, NEW w \in Worker, NEW pc \in {"awake", "dozing", "asleep", "exited"},
         worker' = [worker EXCEPT ![w].pc = pc],
         worker[w].pc # "exited", worker[w].pc = "searching" => pc = "awake",
         worker[w].pc # "asleep" => queue = <<>>,
         pc = "exited" => shouldExit /\ queue = <<>>, pc = "dozing" => queue = <<>>,
         UNCHANGED <<matrix, queue, client, shouldExit, calls>>
  PROVE  IInv'
<1>1. /\ worker' \in [Worker -> WorkerState]
      /\ worker'[w].pc = pc
      /\ \A u \in Worker \ {w} : worker'[u] = worker[u]
  BY DEF IInv, TypeOK, WorkerState
<1>2. TypeOK'
  BY <1>1 DEF IInv, TypeOK
<1>3. ClientHasRow' /\ QueueHasRows' /\ WorkersHaveRows'
  BY <1>1 DEF IInv, ClientHasRow, QueueHasRows, WorkersHaveRows, HasRow
<1>4. IdleInv'
  BY <1>1 DEF IInv, IdleInv
<1>5. BatchInv'
  BY DEF IInv, BatchInv, Value
<1>6. QueueIsServed'
  BY <1>1 DEF IInv, QueueIsServed
<1> QED BY <1>2, <1>3, <1>4, <1>5, <1>6 DEF IInv

\* A worker that takes a pair keeps the invariant.
LEMMA TakeStep ==
  ASSUME IInv, NEW w \in Worker, Take(w)
  PROVE  IInv'
<1>1. /\ worker[w].pc = "awake" /\ QueueFree /\ queue # <<>> /\ queue' = Tail(queue)
      /\ worker' = [worker EXCEPT ![w] = [pc |-> "searching", pair |-> Head(queue)]]
      /\ UNCHANGED <<matrix, client, shouldExit, calls>>
  BY DEF Take
<1>2. queue \in Seq(Node \X Node) /\ Head(queue) = queue[1] /\ 1 \in 1 .. Len(queue)
  BY <1>1 DEF IInv, TypeOK
<1>3. HasRow(queue[1]) /\ queue[1] \in Node \X Node
  BY <1>2 DEF IInv, QueueHasRows, HasRow
<1>4. /\ worker' \in [Worker -> WorkerState]
      /\ worker'[w] = [pc |-> "searching", pair |-> queue[1]]
      /\ \A u \in Worker \ {w} : worker'[u] = worker[u]
  BY <1>1, <1>2, <1>3 DEF IInv, TypeOK, WorkerState
<1>5. TypeOK'
  BY <1>1, <1>2, <1>4 DEF IInv, TypeOK
<1>6. ClientHasRow' /\ WorkersHaveRows'
  BY <1>1, <1>3, <1>4 DEF IInv, ClientHasRow, WorkersHaveRows, HasRow
<1>7. QueueHasRows'
  <2>1. \A i \in 1 .. Len(queue') : i + 1 \in 1 .. Len(queue) /\ queue'[i] = queue[i + 1]
    BY <1>1, <1>2
  <2> QED BY <1>1, <2>1 DEF IInv, QueueHasRows, HasRow
<1>8. IdleInv'
  BY <1>1, <1>2, <1>4 DEF IInv, IdleInv
<1>9. BatchInv'
  BY <1>1 DEF IInv, BatchInv, Value
<1>10. QueueIsServed'
  BY <1>4 DEF QueueIsServed
<1> QED BY <1>5, <1>6, <1>7, <1>8, <1>9, <1>10 DEF IInv

\* A worker that ends its search keeps the invariant.
LEMMA SearchStep ==
  ASSUME IInv, NEW w \in Worker, Search(w)
  PROVE  IInv'
<1> DEFINE pair == worker[w].pair
<1>1. PICK v \in Found[pair] : Set(pair, v)
  BY DEF Search
<1>2. /\ worker[w].pc = "searching" /\ worker' = [worker EXCEPT ![w] = [pc |-> "awake", pair |-> NoPair]]
      /\ UNCHANGED <<queue, client, shouldExit, calls>>
  BY DEF Search
<1>3. HasRow(pair) /\ pair \in Node \X Node
  BY <1>2 DEF IInv, WorkersHaveRows, HasRow
<1>4. v \in Known /\ (pair[1] # pair[2] => Usable(v))
  BY <1>3, ResultUsable
<1>5. /\ matrix' \in [Node -> {NoRow} \cup [Node -> Known \cup {UNCALCULATED}]]
      /\ \A p : HasRow(p) => p \in Node \X Node /\ matrix'[p[1]] # NoRow
      /\ matrix'[pair[1]][pair[2]] = v
      /\ \A p : HasRow(p) /\ p # pair => matrix'[p[1]][p[2]] = matrix[p[1]][p[2]]
  <2> HIDE DEF pair
  <2> QED BY <1>1, <1>3, <1>4, SetPair DEF IInv
<1>6. /\ worker' \in [Worker -> WorkerState]
      /\ worker'[w].pc = "awake"
      /\ \A u \in Worker \ {w} : worker'[u] = worker[u]
  BY <1>2 DEF IInv, TypeOK, WorkerState
<1>7. TypeOK'
  BY <1>2, <1>5, <1>6 DEF IInv, TypeOK
<1>8. ClientHasRow' /\ QueueHasRows' /\ WorkersHaveRows'
  <2>1. \A p : HasRow(p) => HasRow(p)'
    BY <1>5 DEF HasRow
  <2>2. ClientHasRow'
    BY <1>2, <2>1 DEF IInv, ClientHasRow
  <2>3. QueueHasRows'
    BY <1>2, <2>1 DEF IInv, QueueHasRows
  <2>4. WorkersHaveRows'
    BY <1>6, <2>1 DEF IInv, WorkersHaveRows
  <2> QED BY <2>2, <2>3, <2>4
<1>9. IdleInv'
  BY <1>2, <1>6 DEF IInv, IdleInv
<1>10. BatchInv'
  <2> SUFFICES ASSUME client.pc \in InCall \ {"row", "batch"}, client.wait,
                      client.pair[1] # client.pair[2]
               PROVE  Usable(matrix'[client.pair[1]][client.pair[2]])
    BY <1>2 DEF IInv, BatchInv, Value
  <2>1. HasRow(client.pair) /\ Usable(Value(client.pair))
    BY DEF IInv, ClientHasRow, BatchInv
  <2>2. CASE client.pair = pair
    BY <1>4, <1>5, <2>2
  <2>3. CASE client.pair # pair
    BY <1>5, <2>1, <2>3 DEF Value
  <2> QED BY <2>2, <2>3
<1>11. QueueIsServed'
  BY <1>6 DEF QueueIsServed
<1> QED BY <1>7, <1>8, <1>9, <1>10, <1>11 DEF IInv

\* Every step of a worker keeps the invariant.
LEMMA WorkerMoves ==
  ASSUME IInv, NEW w \in Worker, WorkerStep(w) \/ WakeUp(w)
  PROVE  IInv'
<1>1. CASE Take(w)
  BY <1>1, TakeStep
<1>2. CASE Exit(w)
  BY <1>2, MoveStep DEF Exit
<1>3. CASE Doze(w)
  BY <1>3, MoveStep DEF Doze
<1>4. CASE Sleep(w)
  BY <1>4, MoveStep DEF Sleep, IInv, IdleInv
<1>5. CASE Search(w)
  BY <1>5, SearchStep
<1>6. CASE WakeUp(w)
  BY <1>6, MoveStep DEF WakeUp
<1> QED BY <1>1, <1>2, <1>3, <1>4, <1>5, <1>6 DEF WorkerStep

-----------------------------------------------------------------------------

\* The table starts without rows, with every worker about to look at the queue.
THEOREM Initially == Init => IInv
<1> SUFFICES ASSUME Init PROVE IInv
  OBVIOUS
<1>1. TypeOK
  <2>1. matrix \in [Node -> {NoRow} \cup [Node -> Known \cup {UNCALCULATED}]]
    BY DEF Init
  <2>2. queue \in Seq(Node \X Node)
    BY DEF Init
  <2>3. worker \in [Worker -> WorkerState] /\ client \in ClientState
    BY DEF Init, WorkerState, ClientState
  <2>4. shouldExit \in BOOLEAN
    BY DEF Init
  <2>5. calls \in 0 .. MaxCalls
    <3>1. MaxCalls \in Nat /\ calls = 0
      BY UpdaterAssumption DEF Init
    <3> QED BY <3>1
  <2> QED BY <2>1, <2>2, <2>3, <2>4, <2>5 DEF TypeOK
<1> QED BY <1>1 DEF Init, IInv, ClientHasRow, QueueHasRows, WorkersHaveRows, IdleInv, BatchInv,
               QueueIsServed

\* Every step of the client and of the workers keeps the inductive invariant.
THEOREM Inductive == IInv /\ [Next]_vars => IInv'
<1> SUFFICES ASSUME IInv, [Next]_vars PROVE IInv'
  OBVIOUS
<1>1. ASSUME NEW pair \in Asked, NEW wait \in BOOLEAN, Ask(pair, wait) PROVE IInv'
  BY <1>1, AskStep
<1>2. CASE CallStep \/ RequestExit \/ Unwind \/ EndStep
  BY <1>2, ClientStep
<1>3. ASSUME NEW w \in Worker, WorkerStep(w) \/ WakeUp(w) PROVE IInv'
  BY <1>3, WorkerMoves
<1>4. CASE UNCHANGED vars
  BY <1>4 DEF vars, IInv, TypeOK, ClientHasRow, QueueHasRows, WorkersHaveRows, HasRow, IdleInv,
              BatchInv, Value, QueueIsServed
<1> QED BY <1>1, <1>2, <1>3, <1>4 DEF Next

\* The inductive invariant holds of every state of the updater.
THEOREM Invariance == Spec => []IInv
BY Initially, Inductive, PTL DEF Spec

\* The rows of the table are whole whenever somebody reads or writes them.
THEOREM TypeCorrect == Spec => []TypeOK
<1>1. IInv => TypeOK
  BY DEF IInv
<1> QED BY <1>1, Invariance, PTL

\* A pair that waits in the queue is on its way to a worker, however many workers there are
\* and whoever wakes up for no reason.
THEOREM NoLostQuery == Spec => []QueueIsServed
<1>1. IInv => QueueIsServed
  BY DEF IInv
<1> QED BY <1>1, Invariance, PTL

\* The destructor leaves no query behind.
THEOREM Drained == Spec => []DrainedAtEnd
<1>1. IInv => DrainedAtEnd
  BY UpdaterAssumption DEF IInv, IdleInv, DrainedAtEnd
<1> QED BY <1>1, Invariance, PTL

\* Only the time from a node to itself is waited for in vain.
THEOREM NoWait == Spec => []WaitsOnlyAtHome
<1>1. IInv => WaitsOnlyAtHome
  BY DEF IInv, BatchInv
<1> QED BY <1>1, Invariance, PTL

-----------------------------------------------------------------------------
(* Routes and the times at which their points are reached.                  *)

\* The direction a route ends in.
LastHeading(r) == IF Len(r) = 1 THEN 0 ELSE Heading[<<r[Len(r) - 1], r[Len(r)]>>]

\* Turning at the i-th point of a route.
TurnAt(r, i) == IF i \in TurnPoints(r) THEN TurnTime[r[i]] ELSE 0

\* f tells when each point of r is reached.
Clock(r, f) ==
  /\ f[1] = 0
  /\ \A i \in 2 .. Len(r) : f[i] = f[i - 1] + Weight[<<r[i - 1], r[i]>>] + TurnAt(r, i - 1)

\* A route from s to p that can be driven, with its times.
Way(s, p, r, f) ==
  /\ r \in Seq(Point) /\ Len(r) \in Nat \ {0} /\ f \in [1 .. Len(r) -> Nat]
  /\ r[1] = s /\ r[Len(r)] = p
  /\ \A i \in 1 .. Len(r) : r[i] \notin NoPass
  /\ \A i, j \in 1 .. Len(r) : r[i] = r[j] => i = j
  /\ \A i \in 2 .. Len(r) : <<r[i - 1], r[i]>> \in Link
  /\ Drivable(r)
  /\ Clock(r, f)

\* A route has no turn at its ends.
LEMMA TurnsInside ==
  ASSUME NEW r, NEW i \in TurnPoints(r)
  PROVE  i \in 2 .. Len(r) - 1
BY DEF TurnPoints

\* The turns of a route that is longer by one point.
LEMMA TurnsOfLonger ==
  ASSUME NEW r \in Seq(Point), Len(r) # 0, NEW p \in Point
  PROVE  /\ TurnPoints(r) \subseteq TurnPoints(Append(r, p))
         /\ \A i \in TurnPoints(Append(r, p)) :
              i \in TurnPoints(r)
              \/ (i = Len(r) /\ Len(r) # 1 /\ LastHeading(r) # Heading[<<r[Len(r)], p>>])
         /\ Len(r) # 1 /\ LastHeading(r) # Heading[<<r[Len(r)], p>>]
              => Len(r) \in TurnPoints(Append(r, p))
<1>1. PICK n : n = Len(r) /\ n \in Nat \ {0}
  OBVIOUS
<1>2. PICK u : u = Append(r, p)
  OBVIOUS
<1>3. Len(u) = n + 1 /\ u[n + 1] = p /\ \A i \in 1 .. n : u[i] = r[i]
  BY <1>1, <1>2
<1>4. \A i \in 2 .. n - 1 : u[i - 1] = r[i - 1] /\ u[i] = r[i] /\ u[i + 1] = r[i + 1]
  <2>1. ASSUME NEW i \in 2 .. n - 1 PROVE i - 1 \in 1 .. n /\ i \in 1 .. n /\ i + 1 \in 1 .. n
    BY <1>1
  <2> QED BY <1>3, <2>1
<1>5. ASSUME n # 1 PROVE n \in 2 .. n /\ u[n - 1] = r[n - 1] /\ u[n] = r[n] /\ u[n + 1] = p
  <2>1. n - 1 \in 1 .. n /\ n \in 1 .. n
    BY <1>1, <1>5
  <2> QED BY <1>1, <1>3, <1>5, <2>1
<1>6. TurnPoints(r) = {i \in 2 .. n - 1 : Heading[<<r[i - 1], r[i]>>] # Heading[<<r[i], r[i + 1]>>]}
  BY <1>1 DEF TurnPoints
<1>7. TurnPoints(u) = {i \in 2 .. n : Heading[<<u[i - 1], u[i]>>] # Heading[<<u[i], u[i + 1]>>]}
  <2>1. Len(u) - 1 = n
    BY <1>1, <1>3
  <2> QED BY <2>1 DEF TurnPoints
<1>8. TurnPoints(r) \subseteq TurnPoints(u)
  <2>1. \A i \in 2 .. n - 1 : i \in 2 .. n
    BY <1>1
  <2> QED BY <1>4, <1>6, <1>7, <2>1
<1>9. n # 1 => (LastHeading(r) = Heading[<<r[n - 1], r[n]>>])
  BY <1>1 DEF LastHeading
<1>10. ASSUME NEW i \in TurnPoints(u)
       PROVE  i \in TurnPoints(r) \/ (i = n /\ n # 1 /\ LastHeading(r) # Heading[<<r[n], p>>])
  <2>1. i \in 2 .. n /\ Heading[<<u[i - 1], u[i]>>] # Heading[<<u[i], u[i + 1]>>]
    BY <1>7
  <2>2. CASE i = n
    <3>1. n # 1
      BY <2>1, <2>2
    <3> QED BY <1>5, <1>9, <2>1, <2>2, <3>1
  <2>3. CASE i # n
    <3>1. i \in 2 .. n - 1
      BY <1>1, <2>1, <2>3
    <3>2. u[i - 1] = r[i - 1] /\ u[i] = r[i] /\ u[i + 1] = r[i + 1]
      BY <1>4, <3>1
    <3>3. Heading[<<r[i - 1], r[i]>>] # Heading[<<r[i], r[i + 1]>>]
      BY <2>1, <3>2
    <3> QED BY <1>6, <3>1, <3>3
  <2> QED BY <2>2, <2>3
<1>11. ASSUME n # 1, LastHeading(r) # Heading[<<r[n], p>>] PROVE n \in TurnPoints(u)
  BY <1>5, <1>7, <1>9, <1>11
<1> QED BY <1>1, <1>2, <1>8, <1>10, <1>11

\* Going on from the end of r, reached at q, to p: whether it turns, and when it is there.
TurnsOn(r, q, p) == LastHeading(r) # 0 /\ LastHeading(r) # Heading[<<q, p>>]

\* The time at p when q, the end of the route r with times f, is left for it.
TimeOn(r, f, q, p) ==
  f[Len(r)] + Weight[<<q, p>>] + IF TurnsOn(r, q, p) THEN TurnTime[q] ELSE 0

\* u with the times g is r with the times f and one point more.
OneMore(s, q, p, r, f, u, g) ==
  /\ Way(s, p, u, g) /\ Len(u) = Len(r) + 1 /\ g[Len(u)] = TimeOn(r, f, q, p)
  /\ LastHeading(u) = Heading[<<q, p>>]
  /\ \A i \in 1 .. Len(r) : u[i] = r[i] /\ g[i] = f[i]
  /\ u[Len(u)] = p

\* A way goes on along an edge to a point it has not visited, unless it would have to turn where
\* nobody may.
LEMMA LongerWay ==
  ASSUME NEW s, NEW q \in Point, NEW r, NEW f, Way(s, q, r, f),
         NEW p \in Point \ NoPass, \A i \in 1 .. Len(r) : r[i] # p, <<q, p>> \in Link,
         TurnsOn(r, q, p) => q \notin NoTurn
  PROVE  \E u, g : OneMore(s, q, p, r, f, u, g)
<1>1. PICK t : t = TimeOn(r, f, q, p)
  OBVIOUS
<1>2. PICK n : n = Len(r)
  OBVIOUS
<1>3. /\ r \in Seq(Point) /\ n \in Nat \ {0} /\ f \in [1 .. n -> Nat]
      /\ r[1] = s /\ r[n] = q
      /\ \A i \in 1 .. n : r[i] \notin NoPass
      /\ \A i, j \in 1 .. n : r[i] = r[j] => i = j
      /\ \A i \in 2 .. n : <<r[i - 1], r[i]>> \in Link
      /\ Drivable(r) /\ Clock(r, f)
  BY <1>2 DEF Way
<1>4. PICK u : u = Append(r, p)
  OBVIOUS
<1>5. /\ u \in Seq(Point) /\ Len(u) = n + 1 /\ u[n + 1] = p
      /\ \A i \in 1 .. n : u[i] = r[i]
  BY <1>2, <1>3, <1>4
<1>6. PICK g : g = [i \in 1 .. n + 1 |-> IF i = n + 1 THEN t ELSE f[i]]
  OBVIOUS
<1>7. g[n + 1] = t /\ \A i \in 1 .. n : g[i] = f[i]
  BY <1>3, <1>6
<1>8. PICK turns : turns = (n # 1 /\ LastHeading(r) # Heading[<<q, p>>])
  OBVIOUS
<1>9. TurnsOn(r, q, p) <=> turns
  <2>1. n = 1 => LastHeading(r) = 0
    BY <1>2 DEF LastHeading
  <2>2. ASSUME n # 1 PROVE LastHeading(r) # 0
    <3>1. n \in 2 .. n
      BY <1>3, <2>2
    <3>2. <<r[n - 1], r[n]>> \in Link
      BY <1>3, <3>1
    <3>3. LastHeading(r) = Heading[<<r[n - 1], r[n]>>]
      BY <1>2, <2>2 DEF LastHeading
    <3>4. Heading[<<r[n - 1], r[n]>>] \in 1 .. 4
      BY <3>2, MapAssumption
    <3> QED BY <3>3, <3>4
  <2> QED BY <1>8, <2>1, <2>2 DEF TurnsOn
<1>10. /\ TurnPoints(r) \subseteq TurnPoints(u)
       /\ \A i \in TurnPoints(u) : i \in TurnPoints(r) \/ (i = n /\ turns)
       /\ turns => n \in TurnPoints(u)
       /\ n \notin TurnPoints(r)
  <2>1. n \notin TurnPoints(r)
    BY <1>2, <1>3, TurnsInside
  <2>2. Len(r) # 0
    BY <1>2, <1>3
  <2> QED BY <1>2, <1>3, <1>4, <1>8, <2>1, <2>2, TurnsOfLonger
<1>11. Drivable(u)
  <2>1. ASSUME NEW i \in TurnPoints(u) PROVE u[i] \notin NoTurn
    <3>1. CASE i = n /\ turns
      <4>1. u[n] = q
        BY <1>3, <1>5
      <4> QED BY <1>9, <3>1, <4>1
    <3>2. CASE i \in TurnPoints(r)
      <4>1. i \in 2 .. n - 1 /\ r[i] \notin NoTurn
        BY <1>2, <1>3, <3>2, TurnsInside DEF Drivable
      <4>2. i \in 1 .. n
        BY <1>3, <4>1
      <4> QED BY <1>5, <4>1, <4>2
    <3> QED BY <1>10, <3>1, <3>2
  <2> QED BY <2>1 DEF Drivable
<1>12. t \in Nat /\ t = f[n] + Weight[<<q, p>>] + TurnAt(u, n)
  <2>1. TurnAt(u, n) = IF turns THEN TurnTime[q] ELSE 0
    <3>1. u[n] = q
      BY <1>3, <1>5
    <3> QED BY <1>10, <3>1 DEF TurnAt
  <2>2. TurnAt(u, n) = IF TurnsOn(r, q, p) THEN TurnTime[q] ELSE 0
    BY <1>9, <2>1
  <2>3. t = f[n] + Weight[<<q, p>>] + TurnAt(u, n)
    BY <1>2, <1>1, <2>2 DEF TimeOn
  <2>4. TurnAt(u, n) \in Nat
    BY <2>2, MapAssumption
  <2>5. Weight[<<q, p>>] \in Nat /\ f[n] \in Nat
    <3>1. n \in 1 .. n
      BY <1>3
    <3> QED BY <1>3, <3>1, MapAssumption
  <2> QED BY <2>3, <2>4, <2>5
<1>13. g \in [1 .. n + 1 -> Nat]
  <2>1. \A i \in 1 .. n + 1 : i # n + 1 => i \in 1 .. n
    BY <1>3
  <2> QED BY <1>3, <1>6, <1>12, <2>1
<1>14. Clock(u, g)
  <2>1. g[1] = 0
    <3>1. 1 \in 1 .. n
      BY <1>3
    <3> QED BY <1>3, <1>7, <3>1 DEF Clock
  <2>2. ASSUME NEW i \in 2 .. n + 1
        PROVE  g[i] = g[i - 1] + Weight[<<u[i - 1], u[i]>>] + TurnAt(u, i - 1)
    <3>1. CASE i = n + 1
      <4>1. i - 1 = n /\ n \in 1 .. n
        BY <1>3, <3>1
      <4>2. g[i - 1] = f[n] /\ u[i - 1] = q /\ u[i] = p /\ g[i] = t
        BY <1>3, <1>5, <1>7, <3>1, <4>1
      <4> QED BY <1>12, <4>1, <4>2
    <3>2. CASE i # n + 1
      <4>1. i \in 2 .. n /\ i \in 1 .. n /\ i - 1 \in 1 .. n /\ i - 1 # n
        BY <1>3, <3>2
      <4>2. f[i] = f[i - 1] + Weight[<<r[i - 1], r[i]>>] + TurnAt(r, i - 1)
        BY <1>2, <1>3, <4>1 DEF Clock
      <4>3. TurnAt(u, i - 1) = TurnAt(r, i - 1)
        <5>1. i - 1 \in TurnPoints(u) <=> i - 1 \in TurnPoints(r)
          BY <1>10, <4>1
        <5>2. u[i - 1] = r[i - 1]
          BY <1>5, <4>1
        <5> QED BY <5>1, <5>2 DEF TurnAt
      <4>4. g[i] = f[i] /\ g[i - 1] = f[i - 1] /\ u[i] = r[i] /\ u[i - 1] = r[i - 1]
        BY <1>5, <1>7, <4>1
      <4> QED BY <4>2, <4>3, <4>4
    <3> QED BY <3>1, <3>2
  <2> QED BY <1>5, <2>1, <2>2 DEF Clock
<1>15. \A i \in 1 .. n + 1 : u[i] \notin NoPass
  <2>1. \A i \in 1 .. n + 1 : i = n + 1 \/ i \in 1 .. n
    BY <1>3
  <2> QED BY <1>3, <1>5, <2>1
<1>16. \A i, j \in 1 .. n + 1 : u[i] = u[j] => i = j
  <2>1. \A i \in 1 .. n + 1 : i = n + 1 \/ i \in 1 .. n
    BY <1>3
  <2>2. \A i \in 1 .. n : r[i] # p
    BY <1>2
  <2> QED BY <1>3, <1>5, <2>1, <2>2
<1>17. \A i \in 2 .. n + 1 : <<u[i - 1], u[i]>> \in Link
  <2>1. ASSUME NEW i \in 2 .. n + 1 PROVE <<u[i - 1], u[i]>> \in Link
    <3>1. CASE i = n + 1
      <4>1. i - 1 = n /\ n \in 1 .. n
        BY <1>3, <3>1
      <4> QED BY <1>3, <1>5, <3>1, <4>1
    <3>2. CASE i # n + 1
      <4>1. i \in 2 .. n /\ i \in 1 .. n /\ i - 1 \in 1 .. n
        BY <1>3, <3>2
      <4> QED BY <1>3, <1>5, <4>1
    <3> QED BY <3>1, <3>2
  <2> QED BY <2>1
<1>18. Way(s, p, u, g)
  <2>1. u[1] = s
    <3>1. 1 \in 1 .. n
      BY <1>3
    <3> QED BY <1>3, <1>5, <3>1
  <2>2. Len(u) \in Nat \ {0}
    BY <1>3, <1>5
  <2> QED BY <1>5, <1>11, <1>13, <1>14, <1>15, <1>16, <1>17, <2>1, <2>2 DEF Way
<1>19. LastHeading(u) = Heading[<<q, p>>]
  <2>1. Len(u) - 1 = n /\ Len(u) # 1 /\ n \in 1 .. n
    BY <1>3, <1>5
  <2>2. u[Len(u) - 1] = q
    BY <1>3, <1>5, <2>1
  <2> QED BY <1>5, <2>1, <2>2 DEF LastHeading
<1>20. OneMore(s, q, p, r, f, u, g)
  BY <1>2, <1>5, <1>7, <1>18, <1>19, <1>1 DEF OneMore
<1> QED BY <1>20
-----------------------------------------------------------------------------
(* What both searches keep: times and directions are those of ways.         *)

\* A way to p that explains its time and direction, over points none of which got worse.
Reaches(s, p, time, dir, r, f) ==
  /\ Way(s, p, r, f)
  /\ f[Len(r)] = time[p] /\ dir[p] = LastHeading(r)
  /\ \A i \in 1 .. Len(r) : time[r[i]] # Far /\ time[r[i]] <= f[i]

\* Every point with a time has such a way.
Timed(s, time, dir) ==
  /\ time \in [Point -> Nat \cup {Far}] /\ dir \in [Point -> 0 .. 4]
  /\ \A p \in Point \ NoPass : time[p] # Far => \E r, f : Reaches(s, p, time, dir, r, f)

\* The start is reached at once.
LEMMA TimedAtStart ==
  ASSUME NEW s \in Point \ NoPass
  PROVE  Timed(s, NoTime(s), [p \in Point |-> 0])
<1>1. PICK time : time = NoTime(s)
  OBVIOUS
<1>2. PICK dir : dir = [p \in Point |-> 0]
  OBVIOUS
<1>3. time \in [Point -> Nat \cup {Far}] /\ time[s] = 0 /\ \A p \in Point : p # s => time[p] = Far
  BY <1>1 DEF NoTime
<1>4. dir \in [Point -> 0 .. 4] /\ dir[s] = 0
  BY <1>2
<1>5. PICK r : r = <<s>>
  OBVIOUS
<1>6. PICK f : f = [i \in 1 .. 1 |-> 0]
  OBVIOUS
<1>7. r \in Seq(Point) /\ Len(r) = 1 /\ r[1] = s /\ f[1] = 0 /\ f \in [1 .. 1 -> Nat]
  BY <1>5, <1>6
<1>8. /\ \A i \in 2 .. 1 : FALSE
      /\ \A i \in 1 .. 1 : i = 1
      /\ \A i \in 2 .. 1 - 1 : FALSE
  OBVIOUS
<1>9. Drivable(r)
  BY <1>7, <1>8 DEF Drivable, TurnPoints
<1>10. Clock(r, f)
  BY <1>7, <1>8 DEF Clock
<1>11. Way(s, s, r, f)
  BY <1>7, <1>8, <1>9, <1>10 DEF Way
<1>12. LastHeading(r) = 0
  BY <1>7 DEF LastHeading
<1>13. Reaches(s, s, time, dir, r, f)
  <2>1. 0 # Far /\ 0 <= 0
    BY DEF Far
  <2> QED BY <1>3, <1>4, <1>7, <1>8, <1>11, <1>12, <2>1 DEF Reaches
<1>14. Timed(s, time, dir)
  BY <1>3, <1>4, <1>13 DEF Timed
<1> QED BY <1>1, <1>2, <1>14

\* Going on from q to the points in better explains their new times and directions, and the old
\* explanations of the other points stay good.
LEMMA TimedOn ==
  ASSUME NEW s, NEW st, Timed(s, st.time, st.dir), NEW q \in Point \ NoPass, st.time[q] # Far,
         NEW better, better \subseteq Outgoing(q),
         \A p \in better : /\ MayLeave(st.dir, q, p)
                           /\ Less(Arrival(st.time, st.dir, q, p), st.time[p])
  PROVE  /\ Timed(s, Times(st, q, better), Directions(st, q, better))
         /\ \A p \in Point : st.time[p] # Far => Times(st, q, better)[p] # Far
         /\ \A p \in better : Times(st, q, better)[p] # Far
<1>1. PICK time, dir : time = st.time /\ dir = st.dir
  OBVIOUS
<1>2. /\ time \in [Point -> Nat \cup {Far}] /\ dir \in [Point -> 0 .. 4]
      /\ \A p \in Point \ NoPass : time[p] # Far => \E r, f : Reaches(s, p, time, dir, r, f)
  BY <1>1 DEF Timed
<1>3. better \subseteq Point /\ \A p \in better : <<q, p>> \in Link
  BY DEF Outgoing
<1>4. PICK now : now = Times(st, q, better)
  OBVIOUS
<1>5. PICK then : then = Directions(st, q, better)
  OBVIOUS
<1>6. /\ \A p \in better : now[p] = Arrival(time, dir, q, p) /\ then[p] = Heading[<<q, p>>]
      /\ \A p \in Point \ better : now[p] = time[p] /\ then[p] = dir[p]
  BY <1>1, <1>3, <1>4, <1>5 DEF Times, Directions
<1>7. time[q] \in Nat
  BY <1>1, <1>2
<1>8. ASSUME NEW p \in better
      PROVE  /\ now[p] \in Nat /\ then[p] \in 0 .. 4 /\ now[p] > time[q]
             /\ time[p] # Far => now[p] < time[p]
  <2>1. Weight[<<q, p>>] \in Nat \ {0} /\ Heading[<<q, p>>] \in 1 .. 4 /\ TurnTime[q] \in Nat
    BY <1>3, MapAssumption
  <2>2. now[p] = time[q] + Weight[<<q, p>>] + IF Turns(dir, q, p) THEN TurnTime[q] ELSE 0
    BY <1>6 DEF Arrival
  <2>3. now[p] \in Nat /\ now[p] > time[q]
    BY <1>7, <2>1, <2>2
  <2>4. time[p] # Far => now[p] < time[p]
    BY <1>1, <1>6 DEF Less
  <2> QED BY <1>6, <2>1, <2>3, <2>4
<1>9. now \in [Point -> Nat \cup {Far}] /\ then \in [Point -> 0 .. 4]
  <2>1. now = [p \in Point |-> now[p]] /\ then = [p \in Point |-> then[p]]
    BY <1>4, <1>5 DEF Times, Directions
  <2>2. \A p \in Point : now[p] \in Nat \cup {Far} /\ then[p] \in 0 .. 4
    BY <1>2, <1>6, <1>8
  <2> QED BY <2>1, <2>2
<1>10. ASSUME NEW p \in Point, time[p] # Far PROVE now[p] # Far /\ now[p] <= time[p]
  <2>1. CASE p \in better
    BY <1>2, <1>8, <1>10, <2>1 DEF Far
  <2>2. CASE p \notin better
    BY <1>2, <1>6, <1>10, <2>2
  <2> QED BY <2>1, <2>2
<1>11. ASSUME NEW r, NEW f, NEW p, Way(s, p, r, f), NEW i \in 1 .. Len(r),
              time[r[i]] # Far, time[r[i]] <= f[i]
       PROVE  now[r[i]] # Far /\ now[r[i]] <= f[i]
  <2>1. r[i] \in Point /\ f[i] \in Nat
    BY <1>11 DEF Way
  <2>2. PICK x : x = r[i]
    OBVIOUS
  <2>3. now[x] # Far /\ now[x] <= time[x] /\ now[x] \in Nat /\ time[x] \in Nat
    BY <1>2, <1>9, <1>10, <1>11, <2>1, <2>2
  <2> QED BY <1>11, <2>1, <2>2, <2>3
<1>12. ASSUME NEW p \in Point \ NoPass, now[p] # Far, p \notin better
       PROVE  \E r, f : Reaches(s, p, now, then, r, f)
  <2>1. now[p] = time[p] /\ then[p] = dir[p]
    BY <1>6, <1>12
  <2>2. PICK r, f : Reaches(s, p, time, dir, r, f)
    BY <1>2, <1>12, <2>1
  <2>3. \A i \in 1 .. Len(r) : now[r[i]] # Far /\ now[r[i]] <= f[i]
    BY <1>11, <2>2 DEF Reaches
  <2>4. Reaches(s, p, now, then, r, f)
    BY <2>1, <2>2, <2>3 DEF Reaches
  <2> QED BY <2>4
<1>13. ASSUME NEW p \in better, p \notin NoPass
       PROVE  \E r, f : Reaches(s, p, now, then, r, f)
  <2>1. PICK r, f : Reaches(s, q, time, dir, r, f)
    BY <1>1, <1>2
  <2>2. Way(s, q, r, f) /\ f[Len(r)] = time[q] /\ dir[q] = LastHeading(r)
    BY <2>1 DEF Reaches
  <2>3. r \in Seq(Point) /\ Len(r) \in Nat \ {0} /\ f \in [1 .. Len(r) -> Nat]
    BY <2>2 DEF Way
  <2>4. ASSUME NEW i \in 1 .. Len(r) PROVE f[i] <= f[Len(r)]
    <3>1. PICK n : n = Len(r)
      OBVIOUS
    <3> DEFINE S == {k \in Nat : k \in 1 .. n => f[i] <= f[k]}
    <3>2. i \in Nat /\ i \in S /\ n \in Nat /\ i <= n
      BY <2>3, <3>1
    <3>3. ASSUME NEW k \in i .. n - 1, k \in S PROVE k + 1 \in S
      <4>1. k \in 1 .. n /\ k + 1 \in 2 .. n /\ k + 1 \in 1 .. n /\ k + 1 \in Nat /\ (k + 1) - 1 = k
        BY <2>3, <3>1, <3>2
      <4>2. f[k + 1] = f[k] + Weight[<<r[k], r[k + 1]>>] + TurnAt(r, k)
        BY <2>2, <3>1, <4>1 DEF Way, Clock
      <4>3. Weight[<<r[k], r[k + 1]>>] \in Nat
        <5>1. <<r[k], r[k + 1]>> \in Link
          BY <2>2, <3>1, <4>1 DEF Way
        <5> QED BY <5>1, MapAssumption
      <4>4. TurnAt(r, k) \in Nat
        <5>1. r[k] \in Point
          BY <2>3, <3>1, <4>1
        <5> QED BY <5>1, MapAssumption DEF TurnAt
      <4>5. f[i] \in Nat /\ f[k] \in Nat /\ f[k + 1] \in Nat /\ f[i] <= f[k]
        BY <2>3, <3>1, <3>3, <4>1
      <4> QED BY <4>1, <4>2, <4>3, <4>4, <4>5
    <3>4. \A k \in i .. n : k \in S
      <4> HIDE DEF S
      <4> QED BY <3>2, <3>3, IntervalStep
    <3> QED BY <2>3, <3>1, <3>2, <3>4
  <2>5. ASSUME NEW i \in 1 .. Len(r), r[i] = p PROVE FALSE
    <3>1. time[p] # Far /\ time[p] <= f[i] /\ f[i] \in Nat /\ f[i] <= time[q]
      BY <2>1, <2>2, <2>3, <2>4, <2>5 DEF Reaches
    <3>2. now[p] < time[p] /\ now[p] > time[q] /\ now[p] \in Nat /\ time[p] \in Nat
      BY <1>2, <1>3, <1>8, <1>13, <3>1
    <3> QED BY <1>7, <3>1, <3>2
  <2>6. TurnsOn(r, q, p) => q \notin NoTurn
    BY <1>1, <2>2 DEF MayLeave, Turns, TurnsOn
  <2>7. now[p] = TimeOn(r, f, q, p)
    BY <1>6, <2>2 DEF Arrival, Turns, TurnsOn, TimeOn
  <2>8. PICK u, g : OneMore(s, q, p, r, f, u, g)
    <3>1. p \in Point \ NoPass /\ <<q, p>> \in Link /\ \A i \in 1 .. Len(r) : r[i] # p
      BY <1>3, <1>13, <2>5
    <3> QED BY <2>2, <2>6, <3>1, LongerWay
  <2>9. /\ Way(s, p, u, g) /\ Len(u) = Len(r) + 1 /\ g[Len(u)] = now[p]
        /\ LastHeading(u) = Heading[<<q, p>>]
        /\ \A i \in 1 .. Len(r) : u[i] = r[i] /\ g[i] = f[i]
        /\ u[Len(u)] = p
    BY <2>7, <2>8 DEF OneMore
  <2>10. ASSUME NEW i \in 1 .. Len(u) PROVE now[u[i]] # Far /\ now[u[i]] <= g[i]
    <3>1. CASE i = Len(u)
      BY <1>8, <1>13, <2>9, <3>1 DEF Far
    <3>2. CASE i # Len(u)
      <4>1. i \in 1 .. Len(r)
        BY <2>3, <2>9, <3>2
      <4>2. time[r[i]] # Far /\ time[r[i]] <= f[i]
        BY <2>1, <4>1 DEF Reaches
      <4>3. now[r[i]] # Far /\ now[r[i]] <= f[i]
        BY <1>11, <2>2, <4>1, <4>2
      <4> QED BY <2>9, <4>1, <4>3
    <3> QED BY <3>1, <3>2
  <2>11. Reaches(s, p, now, then, u, g)
    BY <1>6, <1>13, <2>9, <2>10 DEF Reaches
  <2> QED BY <2>11
<1>14. Timed(s, now, then)
  BY <1>9, <1>12, <1>13 DEF Timed
<1>15. \A p \in better : now[p] # Far
  BY <1>8 DEF Far
<1> QED BY <1>1, <1>4, <1>5, <1>10, <1>14, <1>15
-----------------------------------------------------------------------------
(* The searches as sequences of sets of states.                             *)

\* The numbers of steps that are looked at.
BatchSteps == Cardinality(Link) + 2

SearchSteps == Cardinality(Point)

\* A map has finitely many points and edges.
LEMMA CountsNat == BatchSteps \in Nat /\ SearchSteps \in Nat
<1>1. IsFiniteSet(Link)
  BY MapAssumption, FS_Product, FS_Subset
<1> QED BY <1>1, MapAssumption, FS_CardinalityType DEF BatchSteps, SearchSteps

\* The states a search may start in, and those after one more step.
BatchStart(s) ==
  {[time |-> NoTime(s), dir |-> [p \in Point |-> 0], queue |-> {<<0, s>>}, found |-> FALSE]}

BatchOnward(states, e) == UNION {DijkstraSteps(st, e) : st \in states}

SearchStart(s, e) ==
  {[time |-> NoTime(s), dir |-> [p \in Point |-> 0], closed |-> {}, last |-> -1,
    key |-> [p \in Point |-> IF p = s THEN Heuristic(s, e) ELSE Far]]}

SearchOnward(states, e) == UNION {AStarSteps(st, e) : st \in states}

\* f is the sets of the states of the search from s to e, after so many steps.
BatchStates(f, s, e) ==
  /\ f[0] = BatchStart(s)
  /\ \A k \in 0 .. BatchSteps - 1 : f[k + 1] = BatchOnward(f[k], e)
  /\ Dijkstra(s, e) = f[BatchSteps]

\* The recursion of Dijkstra defines what it says.
LEMMA DijkstraRun ==
  ASSUME NEW s, NEW e
  PROVE  \E f : BatchStates(f, s, e)
<1> DEFINE Table(f, n) ==
             f = [k \in 0 .. n |-> IF k = 0 THEN BatchStart(s) ELSE BatchOnward(f[k - 1], e)]
           After == CHOOSE f : Table(f, BatchSteps)
<1>1. Dijkstra(s, e) = After[BatchSteps]
  BY DEF Dijkstra, BatchStart, BatchOnward, BatchSteps
<1>2. BatchSteps \in Nat
  BY CountsNat
<1>3. \E f : Table(f, BatchSteps)
  <2> DEFINE S == {n \in Nat : \E f : Table(f, n)}
  <2>1. 0 \in S
    <3>1. PICK f : f = [k \in 0 .. 0 |-> BatchStart(s)]
      OBVIOUS
    <3>2. Table(f, 0)
      <4>1. \A k \in 0 .. 0 : k = 0
        OBVIOUS
      <4> QED BY <3>1, <4>1
    <3> QED BY <3>2
  <2>2. ASSUME NEW n \in Nat, n \in S PROVE n + 1 \in S
    <3>1. PICK f : Table(f, n)
      BY <2>2
    <3>2. PICK g : g = [k \in 0 .. n + 1 |-> IF k <= n THEN f[k] ELSE BatchOnward(f[n], e)]
      OBVIOUS
    <3>3. \A k \in 0 .. n : /\ g[k] = f[k]
                            /\ f[k] = IF k = 0 THEN BatchStart(s) ELSE BatchOnward(f[k - 1], e)
      BY <3>1, <3>2
    <3>4. ASSUME NEW k \in 0 .. n + 1
          PROVE  g[k] = IF k = 0 THEN BatchStart(s) ELSE BatchOnward(g[k - 1], e)
      <4>1. k # 0 => k - 1 \in 0 .. n
        OBVIOUS
      <4>2. k \in 0 .. n \/ k = n + 1
        OBVIOUS
      <4>3. k = n + 1 => k # 0 /\ k - 1 = n /\ n \in 0 .. n /\ g[k] = BatchOnward(f[n], e)
        BY <3>2
      <4> QED BY <3>3, <4>1, <4>2, <4>3
    <3>5. Table(g, n + 1)
      BY <3>2, <3>4
    <3> HIDE DEF Table
    <3> QED BY <3>5
  <2>3. \A n \in Nat : n \in S
    <3> HIDE DEF S
    <3> QED BY <2>1, <2>2, NatStep
  <2> QED BY <1>2, <2>3
<1>4. Table(After, BatchSteps)
  <2> HIDE DEF Table
  <2> QED BY <1>3
<1> HIDE DEF After
<1>5. After[0] = BatchStart(s)
  BY <1>2, <1>4
<1>6. ASSUME NEW k \in 0 .. BatchSteps - 1 PROVE After[k + 1] = BatchOnward(After[k], e)
  <2>1. k + 1 \in 0 .. BatchSteps /\ k + 1 # 0 /\ (k + 1) - 1 = k
    BY <1>2
  <2> QED BY <1>4, <2>1
<1> QED BY <1>1, <1>5, <1>6 DEF BatchStates

\* f is the sets of the states of the search from s to e, after so many steps.
SearchStates(f, s, e) ==
  /\ f[0] = SearchStart(s, e)
  /\ \A k \in 0 .. SearchSteps - 1 : f[k + 1] = SearchOnward(f[k], e)
  /\ AStar(s, e) = f[SearchSteps]

\* The recursion of AStar defines what it says.
LEMMA AStarRun ==
  ASSUME NEW s, NEW e
  PROVE  \E f : SearchStates(f, s, e)
<1> DEFINE Table(f, n) ==
             f = [k \in 0 .. n |-> IF k = 0 THEN SearchStart(s, e) ELSE SearchOnward(f[k - 1], e)]
           After == CHOOSE f : Table(f, SearchSteps)
<1>1. AStar(s, e) = After[SearchSteps]
  BY DEF AStar, SearchStart, SearchOnward, SearchSteps
<1>2. SearchSteps \in Nat
  BY CountsNat
<1>3. \E f : Table(f, SearchSteps)
  <2> DEFINE S == {n \in Nat : \E f : Table(f, n)}
  <2>1. 0 \in S
    <3>1. PICK f : f = [k \in 0 .. 0 |-> SearchStart(s, e)]
      OBVIOUS
    <3>2. Table(f, 0)
      <4>1. \A k \in 0 .. 0 : k = 0
        OBVIOUS
      <4> QED BY <3>1, <4>1
    <3> QED BY <3>2
  <2>2. ASSUME NEW n \in Nat, n \in S PROVE n + 1 \in S
    <3>1. PICK f : Table(f, n)
      BY <2>2
    <3>2. PICK g : g = [k \in 0 .. n + 1 |-> IF k <= n THEN f[k] ELSE SearchOnward(f[n], e)]
      OBVIOUS
    <3>3. \A k \in 0 .. n : /\ g[k] = f[k]
                            /\ f[k] = IF k = 0 THEN SearchStart(s, e) ELSE SearchOnward(f[k - 1], e)
      BY <3>1, <3>2
    <3>4. ASSUME NEW k \in 0 .. n + 1
          PROVE  g[k] = IF k = 0 THEN SearchStart(s, e) ELSE SearchOnward(g[k - 1], e)
      <4>1. k # 0 => k - 1 \in 0 .. n
        OBVIOUS
      <4>2. k \in 0 .. n \/ k = n + 1
        OBVIOUS
      <4>3. k = n + 1 => k # 0 /\ k - 1 = n /\ n \in 0 .. n /\ g[k] = SearchOnward(f[n], e)
        BY <3>2
      <4> QED BY <3>3, <4>1, <4>2, <4>3
    <3>5. Table(g, n + 1)
      BY <3>2, <3>4
    <3> HIDE DEF Table
    <3> QED BY <3>5
  <2>3. \A n \in Nat : n \in S
    <3> HIDE DEF S
    <3> QED BY <2>1, <2>2, NatStep
  <2> QED BY <1>2, <2>3
<1>4. Table(After, SearchSteps)
  <2> HIDE DEF Table
  <2> QED BY <1>3
<1> HIDE DEF After
<1>5. After[0] = SearchStart(s, e)
  BY <1>2, <1>4
<1>6. ASSUME NEW k \in 0 .. SearchSteps - 1 PROVE After[k + 1] = SearchOnward(After[k], e)
  <2>1. k + 1 \in 0 .. SearchSteps /\ k + 1 # 0 /\ (k + 1) - 1 = k
    BY <1>2
  <2> QED BY <1>4, <2>1
<1> QED BY <1>1, <1>5, <1>6 DEF SearchStates

-----------------------------------------------------------------------------
(* The search of batchQueryByNodeId.                                        *)

\* What holds of every state of the search from s to e.
BatchOK(s, e, st) ==
  /\ st = [time |-> st.time, dir |-> st.dir, queue |-> st.queue, found |-> st.found]
  /\ Timed(s, st.time, st.dir)
  /\ \A entry \in st.queue : entry[2] \in Point \ NoPass /\ st.time[entry[2]] # Far
  /\ st.found \in BOOLEAN /\ (st.found => e \in Point \ NoPass /\ st.time[e] # Far)

\* Expanding a point that has been reached.
LEMMA ExpandOK ==
  ASSUME NEW s, NEW e, NEW st, BatchOK(s, e, st), NEW q \in Point \ NoPass, st.time[q] # Far
  PROVE  BatchOK(s, e, Expand(st, q))
<1> DEFINE better == {p \in Outgoing(q) \ NoPass :
                        /\ MayLeave(st.dir, q, p)
                        /\ Less(Arrival(st.time, st.dir, q, p), st.time[p])}
<1>1. PICK B : B = better
  OBVIOUS
<1>2. /\ B \subseteq Outgoing(q) /\ B \subseteq Point \ NoPass
      /\ \A p \in B : /\ MayLeave(st.dir, q, p)
                      /\ Less(Arrival(st.time, st.dir, q, p), st.time[p])
  BY <1>1 DEF Outgoing
<1>3. PICK more : more = {<<Arrival(st.time, st.dir, q, p), p>> : p \in B}
  OBVIOUS
<1>4. PICK time, dir : time = Times(st, q, B) /\ dir = Directions(st, q, B)
  OBVIOUS
<1>5. /\ Timed(s, time, dir)
      /\ \A p \in Point : st.time[p] # Far => time[p] # Far
      /\ \A p \in B : time[p] # Far
  BY <1>2, <1>4, TimedOn DEF BatchOK
<1>6. PICK u : u = Expand(st, q)
  OBVIOUS
<1>7. u = [st EXCEPT !.time = time, !.dir = dir, !.queue = st.queue \cup more]
  BY <1>1, <1>3, <1>4, <1>6 DEF Expand
<1>8. u = [time |-> time, dir |-> dir, queue |-> st.queue \cup more, found |-> st.found]
  BY <1>7 DEF BatchOK
<1>9. \A entry \in more : entry[2] \in B
  BY <1>3
<1>10. /\ \A entry \in st.queue \cup more : entry[2] \in Point \ NoPass /\ time[entry[2]] # Far
       /\ st.found => e \in Point \ NoPass /\ time[e] # Far
  BY <1>2, <1>5, <1>9 DEF BatchOK
<1> QED BY <1>5, <1>6, <1>8, <1>10 DEF BatchOK

\* Every step of the search.
LEMMA BatchStepOK ==
  ASSUME NEW s, NEW e, NEW st, BatchOK(s, e, st), NEW u \in DijkstraSteps(st, e)
  PROVE  BatchOK(s, e, u)
<1>1. CASE st.queue = {} \/ st.found
  BY <1>1 DEF DijkstraSteps
<1>2. CASE ~(st.queue = {} \/ st.found)
  <2>1. PICK first \in st.queue :
          u = IF first[1] # st.time[first[2]] THEN [st EXCEPT !.queue = @ \ {first}]
              ELSE IF first[2] = e THEN [[st EXCEPT !.queue = @ \ {first}] EXCEPT !.found = TRUE]
              ELSE Expand([st EXCEPT !.queue = @ \ {first}], first[2])
    BY <1>2 DEF DijkstraSteps
  <2>2. PICK popped : popped = [st EXCEPT !.queue = @ \ {first}]
    OBVIOUS
  <2>3. popped = [time |-> st.time, dir |-> st.dir, queue |-> st.queue \ {first},
                  found |-> st.found]
    BY <2>2 DEF BatchOK
  <2>4. BatchOK(s, e, popped)
    BY <2>3 DEF BatchOK
  <2>5. first[2] \in Point \ NoPass /\ popped.time[first[2]] # Far
    BY <2>3 DEF BatchOK
  <2>6. CASE u = popped
    BY <2>4, <2>6
  <2>7. CASE u = [popped EXCEPT !.found = TRUE] /\ first[2] = e
    <3>1. u = [time |-> popped.time, dir |-> popped.dir, queue |-> popped.queue, found |-> TRUE]
      BY <2>3, <2>7
    <3> QED BY <2>4, <2>5, <2>7, <3>1 DEF BatchOK
  <2>8. CASE u = Expand(popped, first[2])
    BY <2>4, <2>5, <2>8, ExpandOK
  <2> QED BY <2>1, <2>2, <2>6, <2>7, <2>8
<1> QED BY <1>1, <1>2

\* How the search begins.
LEMMA BatchOKAtStart ==
  ASSUME NEW s \in Point \ NoPass, NEW e
  PROVE  \A st \in BatchStart(s) : BatchOK(s, e, st)
<1>1. PICK time, dir : time = NoTime(s) /\ dir = [p \in Point |-> 0]
  OBVIOUS
<1>2. PICK st : st = [time |-> time, dir |-> dir, queue |-> {<<0, s>>}, found |-> FALSE]
  OBVIOUS
<1>3. Timed(s, time, dir)
  BY <1>1, TimedAtStart
<1>4. time[s] # Far
  BY <1>1 DEF NoTime, Far
<1>5. BatchOK(s, e, st)
  BY <1>2, <1>3, <1>4 DEF BatchOK
<1> QED BY <1>1, <1>2, <1>5 DEF BatchStart

\* Every state the search can be in.
LEMMA DijkstraOK ==
  ASSUME NEW s \in Point \ NoPass, NEW e, NEW u \in Dijkstra(s, e)
  PROVE  BatchOK(s, e, u)
<1>1. PICK f : BatchStates(f, s, e)
  BY DijkstraRun
<1>2. BatchSteps \in Nat
  BY CountsNat
<1>3. \A st \in BatchStart(s) : BatchOK(s, e, st)
  BY BatchOKAtStart
<1> DEFINE S == {k \in Nat : \A st \in f[k] : BatchOK(s, e, st)}
<1>4. 0 \in S
  BY <1>1, <1>3 DEF BatchStates
<1>5. ASSUME NEW k \in 0 .. BatchSteps - 1, k \in S PROVE k + 1 \in S
  <2>1. \A v \in f[k + 1] : \E st \in f[k] : v \in DijkstraSteps(st, e)
    BY <1>1 DEF BatchStates, BatchOnward
  <2>2. k + 1 \in Nat
    BY <1>2
  <2> QED BY <1>5, <2>1, <2>2, BatchStepOK
<1>6. \A k \in 0 .. BatchSteps : k \in S
  <2> HIDE DEF S
  <2> QED BY <1>2, <1>4, <1>5, IntervalStep
<1> QED BY <1>1, <1>2, <1>6 DEF BatchStates

-----------------------------------------------------------------------------
(* The search of shortestPathFinder.                                        *)

\* What holds of every state of the search from s: a point in the heap, and the one taken from
\* it last, may be passed and has been reached.
SearchOK(s, st) ==
  /\ st = [time |-> st.time, dir |-> st.dir, closed |-> st.closed, last |-> st.last,
           key |-> st.key]
  /\ Timed(s, st.time, st.dir)
  /\ \E Keys : st.key \in [Point -> Keys]
  /\ \A p \in Point : st.key[p] # Far => p \notin NoPass /\ st.time[p] # Far
  /\ st.last \in Point => st.last \notin NoPass /\ st.time[st.last] # Far

\* Relaxing the edges out of a point that has been reached.
LEMMA RelaxOK ==
  ASSUME NEW s, NEW e, NEW st, SearchOK(s, st), NEW q \in Point \ NoPass, st.time[q] # Far
  PROVE  SearchOK(s, Relax(st, q, e))
<1>1. PICK B : B = {p \in Outgoing(q) \ st.closed :
                      /\ MayLeave(st.dir, q, p)
                      /\ Less(Arrival(st.time, st.dir, q, p), st.time[p])}
  OBVIOUS
<1>2. /\ B \subseteq Outgoing(q) /\ B \subseteq Point
      /\ \A p \in B : /\ MayLeave(st.dir, q, p)
                      /\ Less(Arrival(st.time, st.dir, q, p), st.time[p])
  BY <1>1 DEF Outgoing
<1>3. PICK time, dir : time = Times(st, q, B) /\ dir = Directions(st, q, B)
  OBVIOUS
<1>4. PICK key : key = [p \in Point |->
                          IF p \in B \ NoPass /\ st.key[p] = Far
                          THEN Arrival(st.time, st.dir, q, p) + Heuristic(p, e) ELSE st.key[p]]
  OBVIOUS
<1>5. /\ Timed(s, time, dir)
      /\ \A p \in Point : st.time[p] # Far => time[p] # Far
      /\ \A p \in B : time[p] # Far
  BY <1>2, <1>3, TimedOn DEF SearchOK
<1>6. PICK u : u = Relax(st, q, e)
  OBVIOUS
<1>7. u = [st EXCEPT !.time = time, !.dir = dir, !.key = key]
  BY <1>1, <1>3, <1>4, <1>6 DEF Relax
<1>8. u = [time |-> time, dir |-> dir, closed |-> st.closed, last |-> st.last, key |-> key]
  BY <1>7 DEF SearchOK
<1>9. \A p \in Point : key[p] # Far => p \notin NoPass /\ time[p] # Far
  BY <1>4, <1>5 DEF SearchOK
<1>10. \E Keys : key \in [Point -> Keys]
  <2>1. key \in [Point -> {key[p] : p \in Point}]
    BY <1>4
  <2> QED BY <2>1
<1>11. st.last \in Point => st.last \notin NoPass /\ time[st.last] # Far
  BY <1>5 DEF SearchOK
<1> QED BY <1>5, <1>6, <1>8, <1>9, <1>10, <1>11 DEF SearchOK

\* Every step of the search.
LEMMA SearchStepOK ==
  ASSUME NEW s, NEW e, NEW st, SearchOK(s, st), NEW u \in AStarSteps(st, e)
  PROVE  SearchOK(s, u)
<1>1. CASE InHeap(st) = {} \/ st.last = e
  BY <1>1 DEF AStarSteps
<1>2. CASE ~(InHeap(st) = {} \/ st.last = e)
  <2>1. PICK p \in SmallestOf(st) :
          u = IF p = e THEN [st EXCEPT !.key[p] = Far, !.last = p]
              ELSE Relax([[st EXCEPT !.key[p] = Far, !.last = p]
                             EXCEPT !.closed = @ \cup {p}], p, e)
    BY <1>2 DEF AStarSteps
  <2>2. p \in Point \ NoPass /\ st.time[p] # Far
    BY DEF SmallestOf, InHeap, SearchOK
  <2>3. PICK key : key = [st.key EXCEPT ![p] = Far]
    OBVIOUS
  <2>4. PICK popped : popped = [st EXCEPT !.key[p] = Far, !.last = p]
    OBVIOUS
  <2>5. popped = [time |-> st.time, dir |-> st.dir, closed |-> st.closed, last |-> p, key |-> key]
    BY <2>3, <2>4 DEF SearchOK
  <2>6. \A x \in Point : key[x] # Far => x \notin NoPass /\ st.time[x] # Far
    BY <2>2, <2>3 DEF SearchOK
  <2>7. \E Keys : key \in [Point -> Keys]
    <3>1. key \in [Point -> {key[x] : x \in Point}]
      BY <2>3 DEF SearchOK
    <3> QED BY <3>1
  <2>8. SearchOK(s, popped)
    BY <2>2, <2>5, <2>6, <2>7 DEF SearchOK
  <2>9. PICK closing : closing = [popped EXCEPT !.closed = @ \cup {p}]
    OBVIOUS
  <2>10. closing = [time |-> st.time, dir |-> st.dir, closed |-> st.closed \cup {p}, last |-> p,
                    key |-> key]
    BY <2>5, <2>9
  <2>11. SearchOK(s, closing) /\ closing.time[p] # Far
    BY <2>2, <2>5, <2>6, <2>7, <2>8, <2>10 DEF SearchOK
  <2>12. u = popped \/ u = Relax(closing, p, e)
    BY <2>1, <2>4, <2>9
  <2> QED BY <2>2, <2>8, <2>11, <2>12, RelaxOK
<1> QED BY <1>1, <1>2

\* How the search begins.
LEMMA SearchOKAtStart ==
  ASSUME NEW s \in Point \ NoPass, NEW e
  PROVE  \A st \in SearchStart(s, e) : SearchOK(s, st)
<1>1. PICK time, dir : time = NoTime(s) /\ dir = [p \in Point |-> 0]
  OBVIOUS
<1>2. PICK key : key = [p \in Point |-> IF p = s THEN Heuristic(s, e) ELSE Far]
  OBVIOUS
<1>3. PICK st : st = [time |-> time, dir |-> dir, closed |-> {}, last |-> -1, key |-> key]
  OBVIOUS
<1>4. Timed(s, time, dir)
  BY <1>1, TimedAtStart
<1>5. time[s] # Far
  BY <1>1 DEF NoTime, Far
<1>6. \E Keys : key \in [Point -> Keys]
  <2>1. key \in [Point -> {key[x] : x \in Point}]
    BY <1>2
  <2> QED BY <2>1
<1>7. \A p \in Point : key[p] # Far => p = s
  BY <1>2
<1>8. -1 \notin Point
  BY MapAssumption
<1>9. SearchOK(s, st)
  BY <1>3, <1>4, <1>5, <1>6, <1>7, <1>8 DEF SearchOK
<1> QED BY <1>1, <1>2, <1>3, <1>9 DEF SearchStart

\* Every state the search can be in.
LEMMA AStarOK ==
  ASSUME NEW s \in Point \ NoPass, NEW e, NEW u \in AStar(s, e)
  PROVE  SearchOK(s, u)
<1>1. PICK f : SearchStates(f, s, e)
  BY AStarRun
<1>2. SearchSteps \in Nat
  BY CountsNat
<1>3. \A st \in SearchStart(s, e) : SearchOK(s, st)
  BY SearchOKAtStart
<1> DEFINE S == {k \in Nat : \A st \in f[k] : SearchOK(s, st)}
<1>4. 0 \in S
  BY <1>1, <1>3 DEF SearchStates
<1>5. ASSUME NEW k \in 0 .. SearchSteps - 1, k \in S PROVE k + 1 \in S
  <2>1. \A v \in f[k + 1] : \E st \in f[k] : v \in AStarSteps(st, e)
    BY <1>1 DEF SearchStates, SearchOnward
  <2>2. k + 1 \in Nat
    BY <1>2
  <2> QED BY <1>5, <2>1, <2>2, SearchStepOK
<1>6. \A k \in 0 .. SearchSteps : k \in S
  <2> HIDE DEF S
  <2> QED BY <1>2, <1>4, <1>5, IntervalStep
<1> QED BY <1>1, <1>2, <1>6 DEF SearchStates

-----------------------------------------------------------------------------
(* Ways are routes, and TimeOf is their time.                               *)

\* The recursion of TimeOf gives the time at the end of a way.
LEMMA WayTime ==
  ASSUME NEW s, NEW p, NEW r, NEW f, Way(s, p, r, f)
  PROVE  TimeOf(r) = f[Len(r)]
<1>1. Len(r) \in Nat \ {0} /\ Clock(r, f)
  BY DEF Way
<1> DEFINE Onward(t, i) == t + Weight[<<r[i - 1], r[i]>>]
                             + IF i - 1 \in TurnPoints(r) THEN TurnTime[r[i - 1]] ELSE 0
           Table(h) == h = [i \in 1 .. Len(r) |-> IF i = 1 THEN 0 ELSE Onward(h[i - 1], i)]
           U == CHOOSE h : Table(h)
<1>2. TimeOf(r) = U[Len(r)]
  BY DEF TimeOf
<1>3. \A i \in 2 .. Len(r) : f[i] = Onward(f[i - 1], i)
  BY <1>1 DEF Clock, TurnAt
<1> HIDE DEF Onward
<1>4. \E h : Table(h)
  <2>1. PICK h : h = [i \in 1 .. Len(r) |-> f[i]]
    OBVIOUS
  <2>2. \A i \in 1 .. Len(r) : h[i] = f[i] /\ (i # 1 => i \in 2 .. Len(r) /\ i - 1 \in 1 .. Len(r))
    BY <1>1, <2>1
  <2>3. \A i \in 1 .. Len(r) : f[i] = IF i = 1 THEN 0 ELSE Onward(h[i - 1], i)
    BY <1>1, <1>3, <2>2 DEF Clock
  <2> QED BY <2>1, <2>3
<1>5. Table(U)
  <2> HIDE DEF Table
  <2> QED BY <1>4
<1> HIDE DEF U
<1> DEFINE S == {i \in Nat : U[i] = f[i]}
<1>6. 1 \in S
  BY <1>1, <1>5 DEF Clock
<1>7. ASSUME NEW i \in 1 .. Len(r) - 1, i \in S PROVE i + 1 \in S
  <2>1. i + 1 \in 2 .. Len(r) /\ i + 1 \in 1 .. Len(r) /\ i + 1 # 1 /\ (i + 1) - 1 = i
    BY <1>1
  <2>2. U[i + 1] = Onward(U[i], i + 1)
    BY <1>5, <2>1
  <2>3. f[i + 1] = Onward(f[i], i + 1)
    BY <1>3, <2>1
  <2> QED BY <1>7, <2>1, <2>2, <2>3
<1>8. \A i \in 1 .. Len(r) : i \in S
  <2> HIDE DEF S
  <2> QED BY <1>1, <1>6, <1>7, IntervalStep
<1> QED BY <1>1, <1>2, <1>8

\* The routes of one point, and those that are longer by one point than the given ones of k - 1.
ShortRoutes == {<<p>> : p \in Point \ NoPass}

\* The routes of k points, from those that have one point less.
LongerRoutes(shorter, k) ==
  UNION {{Append(r, q) : q \in Outgoing(r[k - 1]) \ (NoPass \cup Range(r))} : r \in shorter}

\* h is the sets of the routes by their number of points.
RouteSets(h) ==
  /\ SearchSteps # 0 => h[1] = ShortRoutes
  /\ \A k \in 1 .. SearchSteps - 1 : h[k + 1] = LongerRoutes(h[k], k + 1)
  /\ Route = UNION {h[k] : k \in 1 .. SearchSteps}

\* The recursion of Route defines what it says.
LEMMA RouteRun == \E h : RouteSets(h)
<1> DEFINE Table(h, n) ==
             h = [k \in 1 .. n |-> IF k = 1 THEN ShortRoutes ELSE LongerRoutes(h[k - 1], k)]
           Of == CHOOSE h : Table(h, SearchSteps)
<1>1. Route = UNION {Of[k] : k \in 1 .. SearchSteps}
  BY DEF Route, ShortRoutes, LongerRoutes, SearchSteps
<1>2. \E h : Table(h, SearchSteps)
  <2> DEFINE S == {m \in Nat : \E h : Table(h, m)}
  <2>1. 0 \in S
    <3>1. PICK h : h = [k \in 1 .. 0 |-> ShortRoutes]
      OBVIOUS
    <3>2. Table(h, 0)
      <4>1. \A k \in 1 .. 0 : FALSE
        OBVIOUS
      <4> QED BY <3>1, <4>1
    <3> QED BY <3>2
  <2>2. ASSUME NEW m \in Nat, m \in S PROVE m + 1 \in S
    <3>1. PICK h : Table(h, m)
      BY <2>2
    <3>2. PICK g : g = [k \in 1 .. m + 1 |->
                         IF k <= m THEN h[k]
                          ELSE IF k = 1 THEN ShortRoutes ELSE LongerRoutes(h[k - 1], k)]
      OBVIOUS
    <3>3. \A k \in 1 .. m : /\ g[k] = h[k]
                            /\ h[k] = IF k = 1 THEN ShortRoutes ELSE LongerRoutes(h[k - 1], k)
      BY <3>1, <3>2
    <3>4. ASSUME NEW k \in 1 .. m + 1
          PROVE  g[k] = IF k = 1 THEN ShortRoutes ELSE LongerRoutes(g[k - 1], k)
      <4>1. k # 1 => k - 1 \in 1 .. m
        OBVIOUS
      <4>2. k \in 1 .. m \/ k = m + 1
        OBVIOUS
      <4>3. k = m + 1 => g[k] = IF k = 1 THEN ShortRoutes ELSE LongerRoutes(h[k - 1], k)
        BY <3>2
      <4> QED BY <3>3, <4>1, <4>2, <4>3
    <3>5. Table(g, m + 1)
      BY <3>2, <3>4
    <3> HIDE DEF Table
    <3> QED BY <3>5
  <2>3. \A m \in Nat : m \in S
    <3> HIDE DEF S
    <3> QED BY <2>1, <2>2, NatStep
  <2> QED BY CountsNat, <2>3
<1>3. Table(Of, SearchSteps)
  <2> HIDE DEF Table
  <2> QED BY <1>2
<1> HIDE DEF Of
<1>4. SearchSteps # 0 => Of[1] = ShortRoutes
  BY <1>3, CountsNat
<1>5. ASSUME NEW k \in 1 .. SearchSteps - 1 PROVE Of[k + 1] = LongerRoutes(Of[k], k + 1)
  <2>1. k + 1 \in 1 .. SearchSteps /\ k + 1 # 1 /\ (k + 1) - 1 = k
    BY CountsNat
  <2> QED BY <1>3, <2>1
<1> QED BY <1>1, <1>4, <1>5 DEF RouteSets

\* A sequence of points that may be passed, joined by edges.
OnMap(r) ==
  /\ r \in Seq(Point) /\ Len(r) \in Nat \ {0}
  /\ \A i \in 1 .. Len(r) : r[i] \notin NoPass
  /\ \A i \in 2 .. Len(r) : <<r[i - 1], r[i]>> \in Link

\* A route is that.
LEMMA RouteOnMap == \A r \in Route : OnMap(r) /\ Len(r) <= SearchSteps
<1>1. PICK h : RouteSets(h)
  BY RouteRun
<1> DEFINE S == {k \in Nat : \A r \in h[k] : OnMap(r) /\ Len(r) = k}
<1>2. SearchSteps \in Nat
  BY CountsNat
<1>3. CASE SearchSteps = 0
  <2>1. \A k \in 1 .. SearchSteps : FALSE
    BY <1>3
  <2> QED BY <1>1, <2>1 DEF RouteSets
<1>4. CASE SearchSteps # 0
  <2>1. 1 \in S
    <3>1. ASSUME NEW p \in Point \ NoPass, NEW r, r = <<p>> PROVE OnMap(r) /\ Len(r) = 1
      <4>1. r \in Seq(Point) /\ Len(r) = 1 /\ r[1] = p
        BY <3>1
      <4>2. (\A i \in 1 .. 1 : i = 1) /\ (\A i \in 2 .. 1 : FALSE)
        OBVIOUS
      <4> QED BY <4>1, <4>2 DEF OnMap
    <3> QED BY <1>1, <1>4, <3>1 DEF RouteSets, ShortRoutes
  <2>2. ASSUME NEW k \in 1 .. SearchSteps - 1, k \in S PROVE k + 1 \in S
    <3>1. k \in Nat \ {0} /\ (k + 1) - 1 = k
      BY <1>2
    <3>2. ASSUME NEW r \in h[k], NEW q \in Outgoing(r[k]) \ NoPass, NEW u, u = Append(r, q)
          PROVE  OnMap(u) /\ Len(u) = k + 1
      <4>1. /\ r \in Seq(Point) /\ Len(r) = k /\ q \in Point /\ q \notin NoPass
            /\ <<r[k], q>> \in Link
            /\ \A i \in 1 .. k : r[i] \notin NoPass
            /\ \A i \in 2 .. k : <<r[i - 1], r[i]>> \in Link
        BY <2>2, <3>2 DEF OnMap, Outgoing
      <4>2. u \in Seq(Point) /\ Len(u) = k + 1 /\ u[k + 1] = q /\ \A i \in 1 .. k : u[i] = r[i]
        BY <3>2, <4>1
      <4>3. ASSUME NEW i \in 1 .. k + 1 PROVE u[i] \notin NoPass
        <5>1. i = k + 1 \/ i \in 1 .. k
          BY <3>1
        <5> QED BY <4>1, <4>2, <5>1
      <4>4. ASSUME NEW i \in 2 .. k + 1 PROVE <<u[i - 1], u[i]>> \in Link
        <5>1. CASE i = k + 1
          <6>1. i - 1 = k /\ k \in 1 .. k
            BY <3>1, <5>1
          <6> QED BY <4>1, <4>2, <5>1, <6>1
        <5>2. CASE i # k + 1
          <6>1. i \in 2 .. k /\ i \in 1 .. k /\ i - 1 \in 1 .. k
            BY <3>1, <5>2
          <6> QED BY <4>1, <4>2, <6>1
        <5> QED BY <5>1, <5>2
      <4>5. k + 1 \in Nat \ {0}
        BY <3>1
      <4> QED BY <4>2, <4>3, <4>4, <4>5 DEF OnMap
    <3>3. \A u \in h[k + 1] : \E r \in h[k] : \E q \in Outgoing(r[k]) \ NoPass : u = Append(r, q)
      BY <1>1, <3>1 DEF RouteSets, LongerRoutes
    <3> QED BY <3>1, <3>2, <3>3
  <2>3. \A k \in 1 .. SearchSteps : k \in S
    <3> HIDE DEF S
    <3> QED BY <1>2, <2>1, <2>2, IntervalStep
  <2>4. \A k \in 1 .. SearchSteps : \A r \in h[k] : OnMap(r) /\ Len(r) <= SearchSteps
    BY <1>2, <2>3
  <2> QED BY <1>1, <2>4 DEF RouteSets
<1> QED BY <1>3, <1>4

\* A way is among the routes from its start to its end: it visits no point twice, and so has no
\* more points than the map.
LEMMA WayIsRoute ==
  ASSUME NEW s, NEW p, NEW r, NEW f, Way(s, p, r, f)
  PROVE  r \in Routes(s, p)
<1>1. PICK h : RouteSets(h)
  BY RouteRun
<1>2. SearchSteps \in Nat
  BY CountsNat
<1>3. PICK n : n = Len(r)
  OBVIOUS
<1>4. /\ r \in Seq(Point) /\ n \in Nat \ {0} /\ r[1] = s /\ r[n] = p
      /\ \A i \in 1 .. n : r[i] \in Point /\ r[i] \notin NoPass
      /\ \A i, j \in 1 .. n : r[i] = r[j] => i = j
      /\ \A i \in 2 .. n : <<r[i - 1], r[i]>> \in Link
  BY <1>3 DEF Way
<1>5. n <= SearchSteps
  <2>1. SUFFICES ASSUME SearchSteps < n PROVE FALSE
    BY <1>2, <1>4
  <2>2. PICK g : g = [i \in 1 .. n |-> r[i]]
    OBVIOUS
  <2>3. g \in [1 .. n -> Point] /\ \A i \in 1 .. n : g[i] = r[i]
    BY <1>4, <2>2
  <2>4. PICK I : I = 1 .. n
    OBVIOUS
  <2>5. IsFiniteSet(I) /\ Cardinality(I) = n
    BY <1>4, <2>4, FS_Interval
  <2>6. IsFiniteSet(Point) /\ Cardinality(Point) < Cardinality(I) /\ g \in [I -> Point]
    BY <2>1, <2>3, <2>4, <2>5, MapAssumption DEF SearchSteps
  <2>7. \E i, j \in I : i # j /\ g[i] = g[j]
    BY <2>5, <2>6, FS_PigeonHole
  <2> QED BY <1>4, <2>3, <2>4, <2>7
<1>6. ASSUME NEW k \in 1 .. n - 1, NEW states, NEW u \in states, u \in Seq(Point), Len(u) = k,
             \A i \in 1 .. k : u[i] = r[i]
      PROVE  Append(u, r[k + 1]) \in LongerRoutes(states, k + 1)
  <2>1. k \in 1 .. n /\ k + 1 \in 2 .. n /\ k + 1 \in 1 .. n /\ (k + 1) - 1 = k /\ k \in 1 .. k
    BY <1>4
  <2>2. r[k + 1] \in Outgoing(u[k])
    BY <1>4, <1>6, <2>1 DEF Outgoing
  <2>3. r[k + 1] \notin Range(u)
    <3>1. Range(u) = {u[i] : i \in 1 .. k}
      <4>1. DOMAIN u = 1 .. k
        BY <1>6
      <4> QED BY <4>1 DEF Range
    <3>2. \A i \in 1 .. k : i \in 1 .. n /\ i # k + 1
      BY <1>4, <2>1
    <3>3. \A i \in 1 .. k : u[i] # r[k + 1]
      BY <1>4, <1>6, <2>1, <3>2
    <3> QED BY <3>1, <3>3
  <2>4. r[k + 1] \in Outgoing(u[(k + 1) - 1]) \ (NoPass \cup Range(u))
    BY <1>4, <2>1, <2>2, <2>3
  <2> QED BY <2>4 DEF LongerRoutes
<1> DEFINE S == {k \in Nat : \E u \in h[k] : /\ u \in Seq(Point) /\ Len(u) = k
                                             /\ \A i \in 1 .. k : u[i] = r[i]}
<1>7. 1 \in S
  <2>1. 1 \in 1 .. SearchSteps /\ 1 \in 1 .. n
    BY <1>2, <1>4, <1>5
  <2>2. PICK q \in Point \ NoPass : q = r[1]
    BY <1>4, <2>1
  <2>3. PICK u : u = <<q>>
    OBVIOUS
  <2>4. u \in h[1]
    BY <1>1, <2>1, <2>2, <2>3 DEF RouteSets, ShortRoutes
  <2>5. u \in Seq(Point) /\ Len(u) = 1 /\ \A i \in 1 .. 1 : u[i] = r[i]
    BY <2>2, <2>3
  <2> QED BY <2>4, <2>5
<1>8. ASSUME NEW k \in 1 .. n - 1, k \in S PROVE k + 1 \in S
  <2>1. k \in 1 .. SearchSteps - 1 /\ k + 1 \in Nat /\ k + 1 \in 1 .. n
    BY <1>2, <1>4, <1>5
  <2>2. PICK u \in h[k] : u \in Seq(Point) /\ Len(u) = k /\ \A i \in 1 .. k : u[i] = r[i]
    BY <1>8
  <2>3. PICK v : v = Append(u, r[k + 1])
    OBVIOUS
  <2>4. v \in h[k + 1]
    <3>1. h[k + 1] = LongerRoutes(h[k], k + 1)
      BY <1>1, <2>1 DEF RouteSets
    <3> QED BY <1>6, <2>2, <2>3, <3>1
  <2>5. v \in Seq(Point) /\ Len(v) = k + 1 /\ v[k + 1] = r[k + 1] /\ \A i \in 1 .. k : v[i] = u[i]
    BY <1>4, <2>1, <2>2, <2>3
  <2>6. \A i \in 1 .. k + 1 : i = k + 1 \/ i \in 1 .. k
    BY <2>1
  <2>7. \A i \in 1 .. k + 1 : v[i] = r[i]
    BY <2>2, <2>5, <2>6
  <2> QED BY <2>1, <2>4, <2>5, <2>7
<1>9. \A k \in 1 .. n : k \in S
  <2> HIDE DEF S
  <2> QED BY <1>4, <1>7, <1>8, IntervalStep
<1>10. r \in h[n]
  <2>1. n \in S
    BY <1>4, <1>9
  <2>2. PICK u \in h[n] : u \in Seq(Point) /\ Len(u) = n /\ \A i \in 1 .. n : u[i] = r[i]
    BY <2>1
  <2>3. u = r
    BY <1>3, <1>4, <2>2, SeqEqual
  <2> QED BY <2>2, <2>3
<1>11. r \in Route
  BY <1>1, <1>2, <1>4, <1>5, <1>10 DEF RouteSets
<1> QED BY <1>3, <1>4, <1>11 DEF Routes

\* A point that has been reached has been reached by a route that can be driven, at its time.
LEMMA TimedDriven ==
  ASSUME NEW s \in Point, NEW e \in Point \ NoPass, NEW time, NEW dir, Timed(s, time, dir),
         time[e] # Far
  PROVE  time[e] \in DrivenTimes[<<s, e>>]
<1>1. PICK r, f : Reaches(s, e, time, dir, r, f)
  BY DEF Timed
<1>2. Way(s, e, r, f) /\ f[Len(r)] = time[e]
  BY <1>1 DEF Reaches
<1>3. TimeOf(r) = time[e]
  BY <1>2, WayTime
<1>4. r \in Routes(s, e) /\ Drivable(r)
  <2>1. Drivable(r)
    BY <1>2 DEF Way
  <2> QED BY <1>2, <2>1, WayIsRoute
<1>5. PICK pair \in Point \X Point : pair = <<s, e>>
  OBVIOUS
<1>6. DrivenTimes[pair] = {TimeOf(route) : route \in {x \in Routes(s, e) : Drivable(x)}}
  BY <1>5 DEF DrivenTimes
<1> QED BY <1>3, <1>4, <1>5, <1>6

\* A time that either search finds is the time of a route that can be driven.
LEMMA ResultDriven ==
  ASSUME NEW pair \in Node \X Node, NEW v \in Batch[pair] \cup Found[pair], v > 0
  PROVE  v \in DrivenTimes[pair]
<1>1. PICK s, e : s = pair[1] /\ e = pair[2]
  OBVIOUS
<1>2. s \in Point /\ e \in Point /\ pair = <<s, e>> /\ pair \in Point \X Point
  BY <1>1, SearchesAssumption
<1>3. v # NoRoute
  BY DEF NoRoute
<1>4. CASE v \in Batch[pair]
  <2>1. v \in BatchResults[pair]
    BY <1>4, SearchesAssumption
  <2>2. s \notin NoPass /\ \E st \in Dijkstra(s, e) : v = IF st.found THEN st.time[e] ELSE NoRoute
    BY <1>1, <1>2, <1>3, <2>1 DEF BatchResults
  <2>3. PICK st \in Dijkstra(s, e) : st.found /\ v = st.time[e]
    BY <1>3, <2>2
  <2>4. BatchOK(s, e, st)
    BY <1>2, <2>2, DijkstraOK
  <2> QED BY <1>2, <2>3, <2>4, TimedDriven DEF BatchOK
<1>5. CASE v \in Found[pair]
  <2>1. v \in SearchResults[pair]
    BY <1>5, SearchesAssumption
  <2>2. s \notin NoPass /\ \E st \in AStar(s, e) : v = IF st.last = e THEN st.time[e] ELSE NoRoute
    BY <1>1, <1>2, <1>3, <2>1 DEF SearchResults
  <2>3. PICK st \in AStar(s, e) : st.last = e /\ v = st.time[e]
    BY <1>3, <2>2
  <2>4. SearchOK(s, st)
    BY <1>2, <2>2, AStarOK
  <2> QED BY <1>2, <2>3, <2>4, TimedDriven DEF SearchOK
<1> QED BY <1>4, <1>5


\* A set that has the start of a route without a forbidden turn, and with a point where turning
\* is allowed also the ends of its edges, has the end of the route.
LEMMA AlongWay ==
  ASSUME NEW s, NEW e, NEW r \in Routes(s, e), Range(r) \cap NoTurn = {},
         NEW R, s \in R, \A p \in R \cap Point : p \notin NoTurn /\ p \notin NoPass =>
                                                \A q \in Outgoing(p) \ NoPass : q \in R
  PROVE  e \in R /\ e \in Point /\ e \notin NoTurn /\ e \notin NoPass
<1>1. PICK n : n = Len(r)
  OBVIOUS
<1>2. /\ n \in Nat \ {0} /\ r[1] = s /\ r[n] = e
      /\ \A i \in 1 .. n : r[i] \in Point /\ r[i] \notin NoPass /\ r[i] \notin NoTurn
      /\ \A i \in 2 .. n : <<r[i - 1], r[i]>> \in Link
  <2>1. OnMap(r) /\ r[1] = s /\ r[Len(r)] = e
    BY RouteOnMap DEF Routes
  <2>2. \A i \in 1 .. n : r[i] \in Range(r) /\ r[i] \in Point
    BY <1>1, <2>1 DEF Range, OnMap
  <2> QED BY <1>1, <2>1, <2>2 DEF OnMap
<1> DEFINE T == {i \in Nat : r[i] \in R}
<1>3. 1 \in T
  BY <1>2
<1>4. ASSUME NEW i \in 1 .. n - 1, i \in T PROVE i + 1 \in T
  <2>1. i \in 1 .. n /\ i + 1 \in 1 .. n /\ i + 1 \in 2 .. n /\ (i + 1) - 1 = i /\ i + 1 \in Nat
    BY <1>2
  <2>2. r[i + 1] \in Outgoing(r[i]) \ NoPass
    <3>1. <<r[i], r[i + 1]>> \in Link /\ r[i + 1] \in Point /\ r[i + 1] \notin NoPass
      BY <1>2, <2>1
    <3> QED BY <3>1 DEF Outgoing
  <2>3. r[i] \in R \cap Point /\ r[i] \notin NoTurn /\ r[i] \notin NoPass
    BY <1>2, <1>4, <2>1
  <2> QED BY <2>1, <2>2, <2>3
<1>5. \A i \in 1 .. n : i \in T
  <2> HIDE DEF T
  <2> QED BY <1>2, <1>3, <1>4, IntervalStep
<1>6. n \in 1 .. n /\ n \in T
  BY <1>2, <1>5
<1> QED BY <1>2, <1>6

-----------------------------------------------------------------------------
(* The search of batchQueryByNodeId ends, and misses no route without a     *)
(* forbidden turn.                                                          *)

\* A set loses an element and gets others, no more than another set loses: together they shrink.
LEMMA LessTogether ==
  ASSUME NEW Q, IsFiniteSet(Q), NEW x \in Q, NEW A, IsFiniteSet(A), NEW L \in SUBSET A,
         NEW M, NEW g \in Surjection(L, M)
  PROVE  /\ IsFiniteSet((Q \ {x}) \cup M)
         /\ Cardinality((Q \ {x}) \cup M) + Cardinality(A \ L) < Cardinality(Q) + Cardinality(A)
<1>1. IsFiniteSet(L) /\ Cardinality(L) \in Nat
  BY FS_Subset, FS_CardinalityType
<1>2. IsFiniteSet(M) /\ Cardinality(M) <= Cardinality(L) /\ Cardinality(M) \in Nat
  BY <1>1, FS_Surjection, FS_CardinalityType
<1>3. PICK R : R = Q \ {x}
  OBVIOUS
<1>4. IsFiniteSet(R) /\ Cardinality(R) = Cardinality(Q) - 1
  BY <1>3, FS_RemoveElement
<1>5. /\ IsFiniteSet(R \cup M)
      /\ Cardinality(R \cup M) = Cardinality(R) + Cardinality(M) - Cardinality(R \cap M)
      /\ IsFiniteSet(R \cap M) /\ Cardinality(R \cap M) \in Nat
  BY <1>2, <1>4, FS_Union, FS_Intersection, FS_CardinalityType
<1>6. /\ Cardinality(A \ L) = Cardinality(A) - Cardinality(A \cap L)
      /\ Cardinality(A \cap L) = Cardinality(L)
  <2>1. A \cap L = L
    OBVIOUS
  <2> QED BY <2>1, FS_Difference
<1>7. Cardinality(Q) \in Nat /\ Cardinality(A) \in Nat
  BY FS_CardinalityType
<1>8. Cardinality(R \cup M) + Cardinality(A \ L) < Cardinality(Q) + Cardinality(A)
  BY <1>1, <1>2, <1>4, <1>5, <1>6, <1>7
<1> QED BY <1>3, <1>5, <1>8

\* The edges that may still put an entry into the queue, when the points in done have been
\* expanded.
Ahead(done) == {l \in Link : l[1] \notin done}

\* What is known of the points in done, and that everything else that has been reached waits in
\* the queue.
BatchDone(s, e, st, done) ==
  /\ done \subseteq Point /\ e \notin done /\ st.time[s] # Far
  /\ IsFiniteSet(st.queue) /\ st.queue \subseteq Nat \X (Point \ NoPass)
  /\ \A p \in done : st.time[p] # Far /\ \A entry \in st.queue : st.time[p] <= entry[1]
  /\ \A p \in done : <<st.time[p], p>> \notin st.queue
  /\ \A p \in done \ NoTurn : \A q \in Outgoing(p) \ NoPass : st.time[q] # Far
  /\ \A p \in Point \ NoPass : st.time[p] # Far => p \in done \/ <<st.time[p], p>> \in st.queue

\* What is left of the queue and of the edges.
Left(st, done) == Cardinality(st.queue) + Cardinality(Ahead(done))

\* There are only so many edges.
LEMMA AheadFinite == \A done : IsFiniteSet(Ahead(done)) /\ Cardinality(Ahead(done)) \in Nat
<1>1. IsFiniteSet(Link)
  BY MapAssumption, FS_Product, FS_Subset
<1>2. \A done : Ahead(done) \in SUBSET Link
  BY DEF Ahead
<1> QED BY <1>1, <1>2, FS_Subset, FS_CardinalityType

\* An entry that has been improved meanwhile is passed over.
LEMMA StaleDone ==
  ASSUME NEW s, NEW e, NEW st, NEW done, BatchDone(s, e, st, done),
         NEW first \in st.queue, first[1] # st.time[first[2]],
         NEW u, u.time = st.time, u.queue = st.queue \ {first}
  PROVE  BatchDone(s, e, u, done) /\ Left(u, done) < Left(st, done)
<1>1. IsFiniteSet(u.queue) /\ Cardinality(u.queue) = Cardinality(st.queue) - 1
  BY FS_RemoveElement DEF BatchDone
<1>2. \A p \in Point \ NoPass : <<st.time[p], p>> # first
  OBVIOUS
<1>3. BatchDone(s, e, u, done)
  BY <1>1, <1>2 DEF BatchDone
<1>4. Cardinality(st.queue) \in Nat /\ Cardinality(Ahead(done)) \in Nat
  BY AheadFinite, FS_CardinalityType DEF BatchDone
<1> QED BY <1>1, <1>3, <1>4 DEF Left

\* The first entry of the queue is up to date, and does not say that the target is reached.
Fresh(e, st, first) ==
  /\ first \in st.queue /\ IsFirst(first, st.queue)
  /\ first[1] = st.time[first[2]] /\ first[2] # e

\* The search without that entry.
Popped(st, first) ==
  [time |-> st.time, dir |-> st.dir, queue |-> st.queue \ {first}, found |-> st.found]

\* The first entry is expanded: nothing that is better can have been done before, as it would
\* have been later in the queue.
LEMMA FreshDone ==
  ASSUME NEW s \in Point, NEW e, NEW st, BatchOK(s, e, st), NEW done, BatchDone(s, e, st, done),
         NEW first, Fresh(e, st, first)
  PROVE  \E d : /\ BatchDone(s, e, Expand(Popped(st, first), first[2]), d)
                /\ Left(Expand(Popped(st, first), first[2]), d) < Left(st, done)
<1>1. PICK q : q = first[2]
  OBVIOUS
<1>2. /\ first \in st.queue /\ IsFirst(first, st.queue)
      /\ first[1] = st.time[q] /\ q # e
  BY <1>1 DEF Fresh
<1>3. PICK popped : /\ popped = Popped(st, first)
                    /\ popped = [time |-> st.time, dir |-> st.dir, queue |-> st.queue \ {first},
                                 found |-> st.found]
  BY DEF Popped
<1>4. st.time \in [Point -> Nat \cup {Far}]
  BY DEF BatchOK, Timed
<1>5. PICK B : B = {p \in Outgoing(q) \ NoPass :
                      /\ MayLeave(st.dir, q, p)
                      /\ Less(Arrival(st.time, st.dir, q, p), st.time[p])}
  OBVIOUS
<1>6. PICK now : now = Times(popped, q, B)
  OBVIOUS
<1>7. PICK more : more = {<<Arrival(st.time, st.dir, q, p), p>> : p \in B}
  OBVIOUS
<1>8. PICK u : u = Expand(popped, q)
  OBVIOUS
<1>9. u.time = now /\ u.queue = (st.queue \ {first}) \cup more
  BY <1>3, <1>5, <1>6, <1>7, <1>8 DEF Expand
<1>10. first = <<st.time[q], q>> /\ st.time[q] \in Nat /\ q \in Point \ NoPass
  BY <1>1, <1>2 DEF BatchDone
<1>11. ASSUME NEW p \in B
      PROVE  /\ now[p] = Arrival(st.time, st.dir, q, p) /\ now[p] \in Nat /\ now[p] > st.time[q]
             /\ p \in Point \ NoPass /\ <<q, p>> \in Link
             /\ st.time[p] = Far \/ now[p] < st.time[p]
  <2>1. p \in Point \ NoPass /\ <<q, p>> \in Link
    BY <1>5 DEF Outgoing
  <2>2. now[p] = Arrival(st.time, st.dir, q, p)
    BY <1>4, <1>6, <1>3, <2>1 DEF Times
  <2>3. Weight[<<q, p>>] \in Nat \ {0} /\ TurnTime[q] \in Nat
    BY <1>10, <2>1, MapAssumption
  <2>4. now[p] \in Nat /\ now[p] > st.time[q]
    BY <1>10, <2>2, <2>3 DEF Arrival
  <2>5. st.time[p] = Far \/ now[p] < st.time[p]
    BY <1>5, <2>2 DEF Less
  <2> QED BY <2>1, <2>2, <2>4, <2>5
<1>12. \A p \in Point \ B : now[p] = st.time[p]
  BY <1>3, <1>6 DEF Times
<1>13. \A p \in done \cup {q} : p \in Point /\ st.time[p] \in Nat /\ st.time[p] <= st.time[q]
  BY <1>4, <1>10, <1>2 DEF BatchDone
<1>14. \A p \in done \cup {q} : p \notin B /\ now[p] = st.time[p]
  <2>1. ASSUME NEW p \in done \cup {q}, p \in B PROVE FALSE
    <3>1. st.time[p] \in Nat /\ st.time[p] <= st.time[q] /\ now[p] > st.time[q] /\ now[p] \in Nat
      BY <1>11, <1>13, <2>1
    <3>2. st.time[p] # Far
      BY <3>1 DEF Far
    <3>3. now[p] < st.time[p]
      BY <1>11, <2>1, <3>2
    <3> QED BY <1>10, <3>1, <3>3
  <2> QED BY <1>12, <1>13, <2>1
<1>15. \A entry \in more : \E p \in B : entry = <<now[p], p>>
  BY <1>7, <1>11
<1>16. \A p \in B : <<now[p], p>> \in more
  BY <1>7, <1>11
<1>17. more \subseteq Nat \X (Point \ NoPass)
  <2>1. ASSUME NEW entry \in more PROVE entry \in Nat \X (Point \ NoPass)
    <3>1. PICK p \in B : entry = <<now[p], p>>
      BY <1>15
    <3>2. now[p] \in Nat /\ p \in Point \ NoPass
      BY <1>11
    <3> QED BY <3>1, <3>2
  <2> QED BY <2>1
<1>18. PICK L : L = {l \in Link : l[1] = q /\ l[2] \in B}
  OBVIOUS
<1>19. q \notin done
  BY <1>10, <1>2 DEF BatchDone
<1>20. L \in SUBSET Ahead(done) /\ Ahead(done \cup {q}) \in SUBSET (Ahead(done) \ L)
  BY <1>18, <1>19 DEF Ahead
<1>21. /\ IsFiniteSet(u.queue)
       /\ Cardinality(u.queue) + Cardinality(Ahead(done) \ L)
            < Cardinality(st.queue) + Cardinality(Ahead(done))
  <2>1. PICK g : g = [l \in L |-> <<now[l[2]], l[2]>>]
    OBVIOUS
  <2>2. g \in [L -> more]
    BY <1>16, <1>18, <2>1
  <2>3. \A m \in more : \E l \in L : g[l] = m
    <3>1. ASSUME NEW m \in more PROVE \E l \in L : g[l] = m
      <4>1. PICK p \in B : m = <<now[p], p>>
        BY <1>15
      <4>2. PICK l : l = <<q, p>>
        OBVIOUS
      <4>3. l \in L /\ l[2] = p
        BY <1>11, <1>18, <4>2
      <4>4. g[l] = m
        BY <2>1, <4>1, <4>3
      <4> QED BY <4>3, <4>4
    <3> QED BY <3>1
  <2>4. g \in Surjection(L, more)
    BY <2>2, <2>3, Fun_IsSurj
  <2>5. PICK A : A = Ahead(done)
    OBVIOUS
  <2>6. IsFiniteSet(A) /\ L \in SUBSET A /\ IsFiniteSet(st.queue)
    BY <1>20, <2>5, AheadFinite DEF BatchDone
  <2>7. PICK Q : Q = st.queue
    OBVIOUS
  <2>8. /\ IsFiniteSet((Q \ {first}) \cup more)
        /\ Cardinality((Q \ {first}) \cup more) + Cardinality(A \ L)
             < Cardinality(Q) + Cardinality(A)
    BY <1>2, <2>6, <2>7, <2>4, LessTogether
  <2> QED BY <1>9, <2>5, <2>7, <2>8
<1>22. Cardinality(Ahead(done \cup {q})) <= Cardinality(Ahead(done) \ L)
  <2>1. IsFiniteSet(Ahead(done) \ L)
    BY AheadFinite, FS_Subset
  <2> QED BY <1>20, <2>1, FS_Subset
<1>23. Left(u, done \cup {q}) < Left(st, done)
  <2>1. /\ Cardinality(u.queue) \in Nat /\ Cardinality(st.queue) \in Nat
        /\ Cardinality(Ahead(done)) \in Nat /\ Cardinality(Ahead(done \cup {q})) \in Nat
    BY <1>21, AheadFinite, FS_CardinalityType DEF BatchDone
  <2>2. Cardinality(Ahead(done) \ L) \in Nat
    BY AheadFinite, FS_Subset, FS_CardinalityType
  <2> QED BY <1>21, <1>22, <2>1, <2>2 DEF Left
<1>24. \A p \in Point : st.time[p] # Far => now[p] # Far
  <2>1. \A p \in B : now[p] # Far
    <3>1. \A p \in B : now[p] \in Nat
      BY <1>11
    <3> QED BY <3>1 DEF Far
  <2> QED BY <1>12, <2>1
<1>25. ASSUME NEW p \in done \cup {q}
       PROVE  /\ now[p] # Far /\ \A entry \in u.queue : now[p] <= entry[1]
              /\ <<now[p], p>> \notin u.queue
  <2>1. now[p] = st.time[p] /\ st.time[p] \in Nat /\ st.time[p] <= st.time[q]
    BY <1>13, <1>14
  <2>2. ASSUME NEW entry \in st.queue \ {first} PROVE now[p] <= entry[1] /\ entry # <<now[p], p>>
    <3>1. entry[1] \in Nat /\ first[1] <= entry[1]
      BY <1>2, <2>2 DEF IsFirst, BatchDone
    <3>2. now[p] <= entry[1]
      BY <1>10, <2>1, <3>1
    <3>3. entry # <<now[p], p>>
      BY <1>10, <2>1, <2>2 DEF BatchDone
    <3> QED BY <3>2, <3>3
  <2>3. ASSUME NEW entry \in more PROVE now[p] <= entry[1] /\ entry # <<now[p], p>>
    <3>1. PICK x \in B : entry = <<now[x], x>>
      BY <1>15
    <3>2. x # p /\ now[x] \in Nat /\ now[x] > st.time[q]
      BY <1>11, <1>14
    <3> QED BY <1>10, <2>1, <3>1, <3>2
  <2>4. now[p] # Far
    BY <2>1 DEF Far
  <2> QED BY <1>9, <2>2, <2>3, <2>4
<1>26. ASSUME NEW p \in (done \cup {q}) \ NoTurn, NEW x \in Outgoing(p) \ NoPass
       PROVE  now[x] # Far
  <2>1. CASE p \in done
    <3>1. x \in Point /\ st.time[x] # Far
      BY <1>26, <2>1 DEF BatchDone, Outgoing
    <3> QED BY <1>24, <3>1
  <2>2. CASE p = q
    <3>1. MayLeave(st.dir, q, x)
      BY <1>26, <2>2 DEF MayLeave
    <3>2. CASE x \in B
      <4>1. now[x] \in Nat
        BY <1>11, <3>2
      <4> QED BY <4>1 DEF Far
    <3>3. CASE x \notin B
      <4>1. x \in Point /\ ~Less(Arrival(st.time, st.dir, q, x), st.time[x])
        BY <1>5, <2>2, <3>1, <3>3 DEF Outgoing
      <4>2. Arrival(st.time, st.dir, q, x) # Far
        <5>1. <<q, x>> \in Link
          BY <2>2 DEF Outgoing
        <5>2. Weight[<<q, x>>] \in Nat \ {0} /\ TurnTime[q] \in Nat
          BY <1>10, <5>1, MapAssumption
        <5>3. Arrival(st.time, st.dir, q, x) \in Nat
          BY <1>10, <5>2 DEF Arrival
        <5> QED BY <5>3 DEF Far
      <4>3. st.time[x] # Far
        BY <4>1, <4>2 DEF Less
      <4> QED BY <1>24, <4>1, <4>3
    <3> QED BY <3>2, <3>3
  <2> QED BY <2>1, <2>2
<1>27. ASSUME NEW p \in Point \ NoPass, now[p] # Far
       PROVE  p \in done \cup {q} \/ <<now[p], p>> \in u.queue
  <2>1. CASE p \in B
    BY <1>9, <1>16, <2>1
  <2>2. CASE p \notin B
    <3>1. now[p] = st.time[p]
      BY <1>12, <2>2
    <3>2. p \in done \/ <<now[p], p>> \in st.queue
      BY <1>27, <3>1 DEF BatchDone
    <3>3. p # q => <<now[p], p>> # first
      BY <1>10
    <3> QED BY <1>9, <3>2, <3>3
  <2> QED BY <2>1, <2>2
<1>28. BatchDone(s, e, u, done \cup {q})
  <2>1. now[s] # Far
    BY <1>24 DEF BatchDone
  <2>2. u.queue \subseteq Nat \X (Point \ NoPass)
    BY <1>9, <1>17 DEF BatchDone
  <2>3. done \cup {q} \subseteq Point /\ e \notin done \cup {q}
    BY <1>10, <1>2 DEF BatchDone
  <2> QED BY <1>9, <1>21, <1>25, <1>26, <1>27, <2>1, <2>2, <2>3 DEF BatchDone
<1> QED BY <1>8, <1>23, <1>28, <1>1, <1>3

\* What holds of every state of the search from s to e after k steps: each step that is not the
\* last uses up an entry of the queue, or the edges out of a point.
BatchAt(s, e, k, st) ==
  /\ BatchOK(s, e, st)
  /\ st.found \/ \E done : /\ BatchDone(s, e, st, done)
                           /\ st.queue # {} => k + Left(st, done) <= Cardinality(Link) + 1

\* The search starts with one entry and all edges.
LEMMA BatchAtStart ==
  ASSUME NEW s \in Point \ NoPass, NEW e, NEW st \in BatchStart(s), BatchOK(s, e, st)
  PROVE  BatchAt(s, e, 0, st)
<1>1. PICK time : time = NoTime(s)
  OBVIOUS
<1>2. st.time = time /\ st.queue = {<<0, s>>}
  BY <1>1 DEF BatchStart
<1>3. time[s] = 0 /\ \A p \in Point : time[p] # Far => p = s
  BY <1>1 DEF NoTime
<1>4. IsFiniteSet(st.queue) /\ Cardinality(st.queue) = 1
  BY <1>2, FS_Singleton
<1>5. 0 # Far
  BY DEF Far
<1>6. BatchDone(s, e, st, {})
  BY <1>2, <1>3, <1>4, <1>5 DEF BatchDone
<1>7. Left(st, {}) = Cardinality(Link) + 1 /\ Cardinality(Link) \in Nat
  <2>1. Ahead({}) = Link
    BY DEF Ahead
  <2> QED BY <1>4, <2>1, AheadFinite DEF Left
<1> QED BY <1>6, <1>7 DEF BatchAt

\* Every step of the search.
LEMMA BatchStepAt ==
  ASSUME NEW s \in Point, NEW e, NEW k \in Nat, NEW st, BatchAt(s, e, k, st),
         NEW u \in DijkstraSteps(st, e)
  PROVE  BatchAt(s, e, k + 1, u)
<1>1. BatchOK(s, e, st) /\ BatchOK(s, e, u)
  BY BatchStepOK DEF BatchAt
<1>2. CASE st.queue = {} \/ st.found
  <2>1. u = st
    BY <1>2 DEF DijkstraSteps
  <2> QED BY <1>2, <2>1 DEF BatchAt
<1>3. CASE ~(st.queue = {} \/ st.found)
  <2>1. PICK first \in st.queue :
          /\ IsFirst(first, st.queue)
          /\ u = IF first[1] # st.time[first[2]] THEN [st EXCEPT !.queue = @ \ {first}]
                 ELSE IF first[2] = e THEN [[st EXCEPT !.queue = @ \ {first}] EXCEPT !.found = TRUE]
                 ELSE Expand([st EXCEPT !.queue = @ \ {first}], first[2])
    BY <1>3 DEF DijkstraSteps
  <2>2. PICK popped : popped = [st EXCEPT !.queue = @ \ {first}]
    OBVIOUS
  <2>3. popped = [time |-> st.time, dir |-> st.dir, queue |-> st.queue \ {first},
                  found |-> st.found]
    BY <1>1, <2>2 DEF BatchOK
  <2>4. PICK done : BatchDone(s, e, st, done) /\ k + Left(st, done) <= Cardinality(Link) + 1
    BY <1>3 DEF BatchAt
  <2>5. Cardinality(Link) \in Nat /\ \A v, d : BatchDone(s, e, v, d) => Left(v, d) \in Nat
    <3>1. Cardinality(Link) \in Nat
      <4>1. Ahead({}) = Link
        BY DEF Ahead
      <4> QED BY <4>1, AheadFinite
    <3>2. ASSUME NEW v, NEW d, BatchDone(s, e, v, d) PROVE Left(v, d) \in Nat
      <4>1. Cardinality(v.queue) \in Nat /\ Cardinality(Ahead(d)) \in Nat
        BY <3>2, AheadFinite, FS_CardinalityType DEF BatchDone
      <4> QED BY <4>1 DEF Left
    <3> QED BY <3>1, <3>2
  <2>6. CASE u.found
    BY <1>1, <2>6 DEF BatchAt
  <2>7. ASSUME NEW d, BatchDone(s, e, u, d), Left(u, d) < Left(st, done)
        PROVE  BatchAt(s, e, k + 1, u)
    <3>1. (k + 1) + Left(u, d) <= Cardinality(Link) + 1
      BY <2>4, <2>5, <2>7
    <3> QED BY <1>1, <2>7, <3>1 DEF BatchAt
  <2>8. CASE first[1] # st.time[first[2]]
    <3>1. u = popped
      BY <2>1, <2>2, <2>8
    <3>2. u.time = st.time /\ u.queue = st.queue \ {first}
      BY <2>3, <3>1
    <3>3. BatchDone(s, e, u, done) /\ Left(u, done) < Left(st, done)
      BY <2>4, <2>8, <3>2, StaleDone
    <3> QED BY <2>7, <3>3
  <2>9. CASE first[1] = st.time[first[2]] /\ first[2] = e
    <3>1. u = [popped EXCEPT !.found = TRUE]
      BY <2>1, <2>2, <2>9
    <3>2. u.found = TRUE
      BY <2>3, <3>1
    <3> QED BY <2>6, <3>2
  <2>10. CASE first[1] = st.time[first[2]] /\ first[2] # e
    <3>1. u = Expand(Popped(st, first), first[2])
      BY <2>1, <2>2, <2>3, <2>10 DEF Popped
    <3>2. Fresh(e, st, first)
      BY <2>1, <2>10 DEF Fresh
    <3>3. PICK d : BatchDone(s, e, u, d) /\ Left(u, d) < Left(st, done)
      BY <1>1, <2>4, <3>1, <3>2, FreshDone
    <3> QED BY <2>7, <3>3
  <2> QED BY <2>8, <2>9, <2>10
<1> QED BY <1>2, <1>3

\* When the target has not been found, the queue is empty, and so nothing on a route without a
\* forbidden turn can be left over, the target included.
LEMMA BatchTrue ==
  ASSUME NEW s \in Point \ NoPass, NEW e, NEW u \in Dijkstra(s, e), ~u.found,
         NEW r \in Routes(s, e), Range(r) \cap NoTurn = {}
  PROVE  FALSE
<1>1. PICK f : BatchStates(f, s, e)
  BY DijkstraRun
<1>2. BatchSteps \in Nat /\ Cardinality(Link) \in Nat /\ BatchSteps = Cardinality(Link) + 2
  <2>1. Ahead({}) = Link
    BY DEF Ahead
  <2> QED BY <2>1, AheadFinite DEF BatchSteps
<1> DEFINE S == {k \in Nat : \A st \in f[k] : BatchAt(s, e, k, st)}
<1>3. 0 \in S
  <2>1. ASSUME NEW st \in f[0] PROVE BatchAt(s, e, 0, st)
    <3>1. st \in BatchStart(s)
      BY <1>1 DEF BatchStates
    <3>2. BatchOK(s, e, st)
      BY <3>1, BatchOKAtStart
    <3> QED BY <3>1, <3>2, BatchAtStart
  <2> QED BY <2>1
<1>4. ASSUME NEW k \in 0 .. BatchSteps - 1, k \in S PROVE k + 1 \in S
  <2>1. \A v \in f[k + 1] : \E st \in f[k] : v \in DijkstraSteps(st, e)
    BY <1>1 DEF BatchStates, BatchOnward
  <2>2. k + 1 \in Nat
    BY <1>2
  <2> QED BY <1>4, <2>1, <2>2, BatchStepAt
<1>5. \A k \in 0 .. BatchSteps : k \in S
  <2> HIDE DEF S
  <2> QED BY <1>2, <1>3, <1>4, IntervalStep
<1>6. BatchAt(s, e, BatchSteps, u)
  BY <1>1, <1>2, <1>5 DEF BatchStates
<1>7. PICK done : /\ BatchDone(s, e, u, done)
                  /\ u.queue # {} => BatchSteps + Left(u, done) <= Cardinality(Link) + 1
  BY <1>6 DEF BatchAt
<1>8. u.queue = {}
  <2>1. Cardinality(u.queue) \in Nat /\ Cardinality(Ahead(done)) \in Nat
    BY <1>7, AheadFinite, FS_CardinalityType DEF BatchDone
  <2> QED BY <1>2, <1>7, <2>1 DEF Left
<1>9. PICK R : R = {p \in Point : u.time[p] # Far}
  OBVIOUS
<1>10. s \in R
  BY <1>7, <1>9 DEF BatchDone
<1>11. \A p \in R \cap Point : p \notin NoTurn /\ p \notin NoPass =>
         \A q \in Outgoing(p) \ NoPass : q \in R
  <2>1. \A p : \A q \in Outgoing(p) : q \in Point
    BY DEF Outgoing
  <2> QED BY <1>7, <1>8, <1>9, <2>1 DEF BatchDone
<1>12. e \in R /\ e \notin NoPass
  BY <1>10, <1>11, AlongWay
<1> QED BY <1>7, <1>8, <1>9, <1>12 DEF BatchDone

-----------------------------------------------------------------------------
(* So does the search of shortestPathFinder.                                *)

\* What is known of the closed points, and that everything else that has been reached is in the
\* heap.
SearchDone(s, e, st) ==
  /\ st.closed \subseteq Point /\ e \notin st.closed /\ st.time[s] # Far
  /\ \A p \in st.closed : st.key[p] = Far /\ st.time[p] # Far
  /\ \A p \in st.closed \ NoTurn : \A q \in Outgoing(p) : st.time[q] # Far
  /\ \A p \in Point \ NoPass : st.time[p] # Far => p \in st.closed \/ st.key[p] # Far

\* What holds of every state of the search from s to e after k steps: each step that is not the
\* last closes a point.
SearchAt(s, e, k, st) ==
  /\ SearchOK(s, st)
  /\ st.last = e \/ (SearchDone(s, e, st) /\ (InHeap(st) # {} => k <= Cardinality(st.closed)))

\* An estimate is a number.
LEMMA HeuristicNat == \A p, q \in Point : Heuristic(p, q) \in Nat
<1>1. \A n \in Int : Abs(n) \in Nat
  BY DEF Abs
<1>2. ASSUME NEW p \in Point, NEW q \in Point PROVE Heuristic(p, q) \in Nat
  <2>1. X[p] - X[q] \in Int /\ Y[p] - Y[q] \in Int
    BY MapAssumption
  <2> QED BY <1>1, <2>1 DEF Heuristic
<1> QED BY <1>2

\* The search starts with one point in the heap.
LEMMA SearchAtStart ==
  ASSUME NEW s \in Point \ NoPass, NEW e \in Point, NEW st \in SearchStart(s, e), SearchOK(s, st)
  PROVE  SearchAt(s, e, 0, st)
<1>1. PICK time, key : /\ time = NoTime(s)
                       /\ key = [p \in Point |-> IF p = s THEN Heuristic(s, e) ELSE Far]
  OBVIOUS
<1>2. st.time = time /\ st.key = key /\ st.closed = {}
  BY <1>1 DEF SearchStart
<1>3. time[s] = 0 /\ \A p \in Point : time[p] # Far => p = s
  BY <1>1 DEF NoTime
<1>4. key[s] \in Nat
  BY <1>1, HeuristicNat
<1>5. key[s] # Far /\ 0 # Far
  BY <1>4 DEF Far
<1>6. SearchDone(s, e, st)
  BY <1>2, <1>3, <1>5 DEF SearchDone
<1>7. 0 <= Cardinality(st.closed)
  <2>1. Cardinality(st.closed) = 0
    BY <1>2, FS_EmptySet
  <2> QED BY <2>1
<1> QED BY <1>6, <1>7 DEF SearchAt

\* p is taken from the heap and closed.
Closing(st, p) ==
  [time |-> st.time, dir |-> st.dir, closed |-> st.closed \cup {p}, last |-> p,
   key |-> [st.key EXCEPT ![p] = Far]]

\* Relaxing the edges out of the point that is closed.
LEMMA RelaxDone ==
  ASSUME NEW s \in Point, NEW e \in Point, NEW st, SearchOK(s, st), SearchDone(s, e, st),
         NEW p \in Point \ NoPass, p # e, st.time[p] # Far, st.key[p] # Far
  PROVE  /\ SearchDone(s, e, Relax(Closing(st, p), p, e))
         /\ Relax(Closing(st, p), p, e).closed = st.closed \cup {p}
         /\ p \notin st.closed
<1>1. st.time \in [Point -> Nat \cup {Far}] /\ \E Keys : st.key \in [Point -> Keys]
  BY DEF SearchOK, Timed
<1>2. PICK was : was = Closing(st, p)
  OBVIOUS
<1>3. PICK key : key = [st.key EXCEPT ![p] = Far]
  OBVIOUS
<1>4. was = [time |-> st.time, dir |-> st.dir, closed |-> st.closed \cup {p}, last |-> p,
             key |-> key]
  BY <1>2, <1>3 DEF Closing
<1>5. PICK B : B = {q \in Outgoing(p) \ (st.closed \cup {p}) :
                      /\ MayLeave(st.dir, p, q)
                      /\ Less(Arrival(st.time, st.dir, p, q), st.time[q])}
  OBVIOUS
<1>6. PICK now : now = Times(was, p, B)
  OBVIOUS
<1>7. PICK next : next = [q \in Point |->
                            IF q \in B \ NoPass /\ key[q] = Far
                            THEN Arrival(st.time, st.dir, p, q) + Heuristic(q, e) ELSE key[q]]
  OBVIOUS
<1>8. PICK u : u = Relax(was, p, e)
  OBVIOUS
<1>9. u.time = now /\ u.closed = st.closed \cup {p} /\ u.key = next
  BY <1>4, <1>5, <1>6, <1>7, <1>8 DEF Relax
<1>10. st.time[p] \in Nat
  BY <1>1
<1>11. ASSUME NEW q \in Outgoing(p) PROVE q \in Point /\ Arrival(st.time, st.dir, p, q) \in Nat
  <2>1. q \in Point /\ <<p, q>> \in Link
    BY <1>11 DEF Outgoing
  <2>2. Weight[<<p, q>>] \in Nat /\ TurnTime[p] \in Nat
    BY <2>1, MapAssumption
  <2> QED BY <1>10, <2>1, <2>2 DEF Arrival
<1>12. B \subseteq Outgoing(p)
  BY <1>5
<1>13. /\ \A q \in B : now[q] = Arrival(st.time, st.dir, p, q)
       /\ \A q \in Point \ B : now[q] = st.time[q]
  BY <1>4, <1>6, <1>11, <1>12 DEF Times
<1>14. \A q \in B : now[q] # Far
  <2>1. \A q \in B : now[q] \in Nat
    BY <1>11, <1>12, <1>13
  <2> QED BY <2>1 DEF Far
<1>15. \A q \in Point : st.time[q] # Far => now[q] # Far
  BY <1>13, <1>14
<1>16. p \notin st.closed
  BY DEF SearchDone
<1>17. ASSUME NEW q \in st.closed \cup {p} PROVE next[q] = Far /\ now[q] # Far
  <2>1. q \in Point /\ key[q] = Far /\ st.time[q] # Far
    BY <1>1, <1>3, <1>17 DEF SearchDone
  <2>2. q \notin B
    BY <1>5, <1>17
  <2> QED BY <1>7, <1>15, <2>1, <2>2
<1>18. ASSUME NEW x \in (st.closed \cup {p}) \ NoTurn, NEW q \in Outgoing(x) PROVE now[q] # Far
  <2>1. q \in Point
    BY DEF Outgoing
  <2>2. CASE x \in st.closed
    BY <1>15, <1>18, <2>1, <2>2 DEF SearchDone
  <2>3. CASE x = p
    <3>1. MayLeave(st.dir, p, q)
      BY <1>18, <2>3 DEF MayLeave
    <3>2. CASE q \in B
      BY <1>14, <3>2
    <3>3. CASE q \in st.closed \cup {p}
      BY <1>17, <3>3
    <3>4. CASE q \notin B /\ q \notin st.closed \cup {p}
      <4>1. ~Less(Arrival(st.time, st.dir, p, q), st.time[q])
        BY <1>5, <2>3, <3>1, <3>4
      <4>2. Arrival(st.time, st.dir, p, q) # Far
        <5>1. Arrival(st.time, st.dir, p, q) \in Nat
          BY <1>11, <2>3
        <5> QED BY <5>1 DEF Far
      <4>3. st.time[q] # Far
        BY <4>1, <4>2 DEF Less
      <4> QED BY <1>15, <2>1, <4>3
    <3> QED BY <3>2, <3>3, <3>4
  <2> QED BY <1>18, <2>2, <2>3
<1>19. ASSUME NEW q \in Point \ NoPass, now[q] # Far
       PROVE  q \in st.closed \cup {p} \/ next[q] # Far
  <2>1. CASE q \in B /\ key[q] = Far
    <3>1. next[q] = Arrival(st.time, st.dir, p, q) + Heuristic(q, e)
      BY <1>7, <2>1
    <3>2. Arrival(st.time, st.dir, p, q) \in Nat /\ Heuristic(q, e) \in Nat
      BY <1>11, <1>12, <2>1, HeuristicNat
    <3>3. next[q] \in Nat
      BY <3>1, <3>2
    <3> QED BY <3>3 DEF Far
  <2>2. CASE key[q] # Far
    BY <1>7, <2>2
  <2>3. CASE q \notin B
    <3>1. st.time[q] # Far
      BY <1>13, <1>19, <2>3
    <3>2. q \in st.closed \/ st.key[q] # Far
      BY <3>1 DEF SearchDone
    <3>3. q # p => key[q] = st.key[q]
      BY <1>1, <1>3
    <3> QED BY <1>7, <2>3, <3>2, <3>3
  <2> QED BY <2>1, <2>2, <2>3
<1>20. now[s] # Far
  BY <1>15 DEF SearchDone
<1>21. SearchDone(s, e, u)
  BY <1>9, <1>17, <1>18, <1>19, <1>20 DEF SearchDone
<1> QED BY <1>2, <1>8, <1>9, <1>16, <1>21

\* Every step of the search.
LEMMA SearchStepAt ==
  ASSUME NEW s \in Point, NEW e \in Point, NEW k \in Nat, NEW st, SearchAt(s, e, k, st),
         NEW u \in AStarSteps(st, e)
  PROVE  SearchAt(s, e, k + 1, u)
<1>1. SearchOK(s, st) /\ SearchOK(s, u)
  BY SearchStepOK DEF SearchAt
<1>2. CASE InHeap(st) = {} \/ st.last = e
  <2>1. u = st
    BY <1>2 DEF AStarSteps
  <2> QED BY <1>2, <2>1 DEF SearchAt
<1>3. CASE ~(InHeap(st) = {} \/ st.last = e)
  <2>1. SearchDone(s, e, st) /\ k <= Cardinality(st.closed)
    BY <1>3 DEF SearchAt
  <2>2. PICK p \in SmallestOf(st) :
          u = IF p = e THEN [st EXCEPT !.key[p] = Far, !.last = p]
              ELSE Relax([[st EXCEPT !.key[p] = Far, !.last = p]
                             EXCEPT !.closed = @ \cup {p}], p, e)
    BY <1>3 DEF AStarSteps
  <2>3. p \in Point \ NoPass /\ st.time[p] # Far /\ st.key[p] # Far
    BY <1>1 DEF SmallestOf, InHeap, SearchOK
  <2>4. PICK key : key = [st.key EXCEPT ![p] = Far]
    OBVIOUS
  <2>5. PICK popped : popped = [st EXCEPT !.key[p] = Far, !.last = p]
    OBVIOUS
  <2>6. popped = [time |-> st.time, dir |-> st.dir, closed |-> st.closed, last |-> p, key |-> key]
    BY <1>1, <2>4, <2>5 DEF SearchOK
  <2>7. CASE p = e
    <3>1. u = popped
      BY <2>2, <2>5, <2>7
    <3>2. u.last = e
      BY <2>6, <2>7, <3>1
    <3> QED BY <1>1, <3>2 DEF SearchAt
  <2>8. CASE p # e
    <3>1. [popped EXCEPT !.closed = @ \cup {p}] = Closing(st, p)
      BY <2>4, <2>6 DEF Closing
    <3>2. u = Relax(Closing(st, p), p, e)
      BY <2>2, <2>5, <2>8, <3>1
    <3>3. SearchDone(s, e, u) /\ u.closed = st.closed \cup {p} /\ p \notin st.closed
      BY <1>1, <2>1, <2>3, <2>8, <3>2, RelaxDone
    <3>4. IsFiniteSet(st.closed) /\ Cardinality(st.closed) \in Nat
      BY <2>1, MapAssumption, FS_Subset, FS_CardinalityType DEF SearchDone
    <3>5. Cardinality(u.closed) = Cardinality(st.closed) + 1
      BY <3>3, <3>4, FS_AddElement
    <3>6. k + 1 <= Cardinality(u.closed)
      BY <2>1, <3>4, <3>5
    <3> QED BY <1>1, <3>3, <3>6 DEF SearchAt
  <2> QED BY <2>7, <2>8
<1> QED BY <1>2, <1>3

\* When the target has not been taken from the heap, the heap is empty, as every point would be
\* closed otherwise, and so nothing on a route without a forbidden turn can be left over.
LEMMA SearchTrue ==
  ASSUME NEW s \in Point \ NoPass, NEW e \in Point, NEW u \in AStar(s, e), u.last # e,
         NEW r \in Routes(s, e), Range(r) \cap NoTurn = {}
  PROVE  FALSE
<1>1. PICK f : SearchStates(f, s, e)
  BY AStarRun
<1>2. SearchSteps \in Nat
  BY CountsNat
<1> DEFINE S == {k \in Nat : \A st \in f[k] : SearchAt(s, e, k, st)}
<1>3. 0 \in S
  <2>1. ASSUME NEW st \in f[0] PROVE SearchAt(s, e, 0, st)
    <3>1. st \in SearchStart(s, e)
      BY <1>1 DEF SearchStates
    <3>2. SearchOK(s, st)
      BY <3>1, SearchOKAtStart
    <3> QED BY <3>1, <3>2, SearchAtStart
  <2> QED BY <2>1
<1>4. ASSUME NEW k \in 0 .. SearchSteps - 1, k \in S PROVE k + 1 \in S
  <2>1. \A v \in f[k + 1] : \E st \in f[k] : v \in AStarSteps(st, e)
    BY <1>1 DEF SearchStates, SearchOnward
  <2>2. k + 1 \in Nat
    BY <1>2
  <2> QED BY <1>4, <2>1, <2>2, SearchStepAt
<1>5. \A k \in 0 .. SearchSteps : k \in S
  <2> HIDE DEF S
  <2> QED BY <1>2, <1>3, <1>4, IntervalStep
<1>6. SearchAt(s, e, SearchSteps, u)
  BY <1>1, <1>2, <1>5 DEF SearchStates
<1>7. SearchDone(s, e, u) /\ (InHeap(u) # {} => SearchSteps <= Cardinality(u.closed))
  BY <1>6 DEF SearchAt
<1>8. \A p \in Point : u.key[p] = Far
  <2>1. SUFFICES ASSUME NEW p \in Point, u.key[p] # Far PROVE FALSE
    OBVIOUS
  <2>2. p \in InHeap(u) /\ u.closed \in SUBSET Point /\ p \notin u.closed
    BY <1>7, <2>1 DEF InHeap, SearchDone
  <2>3. IsFiniteSet(Point) /\ Cardinality(Point) <= Cardinality(u.closed)
    BY <1>7, <2>2, MapAssumption DEF SearchSteps
  <2>4. Cardinality(u.closed) <= Cardinality(Point)
    BY <2>2, <2>3, FS_Subset
  <2>5. Cardinality(u.closed) \in Nat /\ Cardinality(Point) \in Nat
    BY <2>2, <2>3, FS_Subset, FS_CardinalityType
  <2>6. u.closed = Point
    BY <2>2, <2>3, <2>4, <2>5, FS_Subset
  <2> QED BY <2>2, <2>6
<1>9. PICK R : R = {p \in Point : u.time[p] # Far}
  OBVIOUS
<1>10. s \in R
  BY <1>7, <1>9 DEF SearchDone
<1>11. \A p \in R \cap Point : p \notin NoTurn /\ p \notin NoPass =>
         \A q \in Outgoing(p) \ NoPass : q \in R
  <2>1. \A p : \A q \in Outgoing(p) : q \in Point
    BY DEF Outgoing
  <2> QED BY <1>7, <1>8, <1>9, <2>1 DEF SearchDone
<1>12. e \in R /\ e \notin NoPass
  BY <1>10, <1>11, AlongWay
<1> QED BY <1>7, <1>8, <1>9, <1>12 DEF SearchDone

-----------------------------------------------------------------------------
(* The cheap test: what it refuses has no route.                            *)

\* The points next to those of a set, and the set itself.
Neighbours(set) ==
  UNION {{p} \cup {q \in Point : {<<p, q>>, <<q, p>>} \cap Link # {}} : p \in set}

\* g is the sets of points connected to s by so many edges.
ConnectedSets(g, s) ==
  /\ g[0] = {s}
  /\ \A k \in 0 .. SearchSteps - 1 : g[k + 1] = Neighbours(g[k])
  /\ Connected(s) = g[SearchSteps]

\* The recursion of Connected defines what it says.
LEMMA ConnectedRun ==
  ASSUME NEW s
  PROVE  \E g : ConnectedSets(g, s)
<1> DEFINE Table(f, n) == f = [k \in 0 .. n |-> IF k = 0 THEN {s} ELSE Neighbours(f[k - 1])]
           Grown == CHOOSE f : Table(f, SearchSteps)
<1>1. Connected(s) = Grown[SearchSteps]
  BY DEF Connected, Neighbours, SearchSteps
<1>2. SearchSteps \in Nat
  BY CountsNat
<1>3. \E f : Table(f, SearchSteps)
  <2> DEFINE S == {n \in Nat : \E f : Table(f, n)}
  <2>1. 0 \in S
    <3>1. PICK f : f = [k \in 0 .. 0 |-> {s}]
      OBVIOUS
    <3>2. Table(f, 0)
      <4>1. \A k \in 0 .. 0 : k = 0
        OBVIOUS
      <4> QED BY <3>1, <4>1
    <3> QED BY <3>2
  <2>2. ASSUME NEW n \in Nat, n \in S PROVE n + 1 \in S
    <3>1. PICK f : Table(f, n)
      BY <2>2
    <3>2. PICK g : g = [k \in 0 .. n + 1 |-> IF k <= n THEN f[k] ELSE Neighbours(f[n])]
      OBVIOUS
    <3>3. \A k \in 0 .. n : /\ g[k] = f[k]
                            /\ f[k] = IF k = 0 THEN {s} ELSE Neighbours(f[k - 1])
      <4>1. \A k \in 0 .. n : k \in 0 .. n + 1 /\ k <= n
        OBVIOUS
      <4>2. \A k \in 0 .. n : f[k] = IF k = 0 THEN {s} ELSE Neighbours(f[k - 1])
        BY ONLY <3>1
      <4> QED BY ONLY <3>2, <4>1, <4>2
    <3>4. ASSUME NEW k \in 0 .. n + 1
          PROVE  g[k] = IF k = 0 THEN {s} ELSE Neighbours(g[k - 1])
      <4>1. k # 0 => k - 1 \in 0 .. n
        OBVIOUS
      <4>2. k \in 0 .. n \/ k = n + 1
        OBVIOUS
      <4>3. k = n + 1 => k # 0 /\ k - 1 = n /\ n \in 0 .. n /\ g[k] = Neighbours(f[n])
        BY <3>2
      <4> QED BY <3>3, <4>1, <4>2, <4>3
    <3>5. Table(g, n + 1)
      BY <3>2, <3>4
    <3> HIDE DEF Table
    <3> QED BY <3>5
  <2>3. \A n \in Nat : n \in S
    <3> HIDE DEF S
    <3> QED BY <2>1, <2>2, NatStep
  <2> QED BY <1>2, <2>3
<1>4. Table(Grown, SearchSteps)
  <2> HIDE DEF Table
  <2> QED BY <1>3
<1> HIDE DEF Grown
<1>5. Grown[0] = {s}
  BY <1>2, <1>4
<1>6. ASSUME NEW k \in 0 .. SearchSteps - 1 PROVE Grown[k + 1] = Neighbours(Grown[k])
  <2>1. k + 1 \in 0 .. SearchSteps /\ k + 1 # 0 /\ (k + 1) - 1 = k
    BY <1>2
  <2> QED BY <1>4, <2>1
<1> QED BY <1>1, <1>5, <1>6 DEF ConnectedSets

\* A route joins points that are connected.
LEMMA RouteConnected ==
  ASSUME NEW s, NEW e, NEW r \in Routes(s, e)
  PROVE  e \in Connected(s)
<1>1. PICK g : ConnectedSets(g, s)
  BY ConnectedRun
<1>2. PICK n : n = Len(r)
  OBVIOUS
<1>3. /\ r \in Seq(Point) /\ n \in Nat \ {0} /\ n <= SearchSteps /\ r[1] = s /\ r[n] = e
      /\ \A i \in 1 .. n : r[i] \in Point
      /\ \A i \in 2 .. n : <<r[i - 1], r[i]>> \in Link
  <2>1. OnMap(r) /\ r[1] = s /\ r[Len(r)] = e /\ Len(r) <= SearchSteps
    BY RouteOnMap DEF Routes
  <2> QED BY <1>2, <2>1 DEF OnMap
<1>4. SearchSteps \in Nat
  BY CountsNat
<1> DEFINE S == {i \in Nat : r[i] \in g[i - 1]}
<1>5. 1 \in S
  BY <1>1, <1>3 DEF ConnectedSets
<1>6. ASSUME NEW i \in 1 .. n - 1, i \in S PROVE i + 1 \in S
  <2>1. /\ i \in 1 .. n /\ i + 1 \in 1 .. n /\ i + 1 \in 2 .. n /\ (i + 1) - 1 = i /\ i + 1 \in Nat
        /\ i - 1 \in 0 .. SearchSteps - 1 /\ (i - 1) + 1 = i
    BY <1>3, <1>4
  <2>2. g[i] = Neighbours(g[i - 1])
    BY <1>1, <2>1 DEF ConnectedSets
  <2>3. <<r[i], r[i + 1]>> \in Link /\ r[i + 1] \in Point
    BY <1>3, <2>1
  <2>4. r[i + 1] \in g[i]
    BY <1>6, <2>2, <2>3 DEF Neighbours
  <2> QED BY <2>1, <2>4
<1>7. \A i \in 1 .. n : i \in S
  <2> HIDE DEF S
  <2> QED BY <1>3, <1>5, <1>6, IntervalStep
<1>8. n - 1 \in 0 .. SearchSteps /\ n - 1 \in Nat /\ e \in g[n - 1]
  <2>1. n \in S
    BY <1>3, <1>7
  <2> QED BY <1>3, <1>4, <2>1
<1> DEFINE T == {k \in Nat : e \in g[k]}
<1>9. n - 1 \in T
  BY <1>8
<1>10. ASSUME NEW k \in n - 1 .. SearchSteps - 1, k \in T PROVE k + 1 \in T
  <2>1. k \in 0 .. SearchSteps - 1 /\ k + 1 \in Nat
    BY <1>3, <1>4
  <2>2. g[k + 1] = Neighbours(g[k])
    BY <1>1, <2>1 DEF ConnectedSets
  <2> QED BY <1>10, <2>1, <2>2 DEF Neighbours
<1>11. \A k \in n - 1 .. SearchSteps : k \in T
  <2> HIDE DEF T
  <2> QED BY <1>4, <1>8, <1>9, <1>10, IntervalStep
<1>12. SearchSteps \in T
  BY <1>3, <1>4, <1>11
<1> QED BY <1>1, <1>12 DEF ConnectedSets

\* The pair is a point and itself, or no route avoids the points where turning is forbidden.
Cut(pair) == pair[1] = pair[2] \/ \A r \in Routes(pair[1], pair[2]) : Range(r) \cap NoTurn # {}

\* What isPathValid refuses has no route at all.
LEMMA InvalidCut ==
  ASSUME NEW pair \in Node \X Node, ~Valid[pair]
  PROVE  Cut(pair)
<1>1. PICK s, e : s = pair[1] /\ e = pair[2]
  OBVIOUS
<1>2. pair \in Point \X Point /\ ~PathValid[pair]
  BY SearchesAssumption
<1>3. SUFFICES ASSUME s # e, NEW r \in Routes(s, e) PROVE FALSE
  BY <1>1 DEF Cut
<1>4. e \in Connected(s)
  BY <1>3, RouteConnected
<1>5. PICK n : n = Len(r)
  OBVIOUS
<1>6. /\ n \in Nat \ {0} /\ r[1] = s /\ r[n] = e
      /\ \A i \in 1 .. n : r[i] \in Point
      /\ \A i \in 2 .. n : <<r[i - 1], r[i]>> \in Link
  <2>1. OnMap(r) /\ r[1] = s /\ r[Len(r)] = e
    BY <1>3, RouteOnMap DEF Routes
  <2> QED BY <1>5, <2>1 DEF OnMap
<1>7. n # 1
  BY <1>3, <1>6
<1>8. 2 \in 2 .. n /\ n \in 2 .. n /\ 2 \in 1 .. n /\ n - 1 \in 1 .. n /\ 2 - 1 = 1
  BY <1>6, <1>7
<1>9. <<s, r[2]>> \in Link /\ r[2] \in Point /\ <<r[n - 1], e>> \in Link /\ r[n - 1] \in Point
  BY <1>6, <1>8
<1>10. PathValid[pair]
  BY <1>1, <1>2, <1>4, <1>9 DEF PathValid
<1> QED BY <1>2, <1>10

\* Neither search gives up a pair that has a route without a forbidden turn.
LEMMA ResultCut ==
  ASSUME NEW pair \in Node \X Node, UNREACHABLE \in Batch[pair] \cup Found[pair]
  PROVE  Cut(pair)
<1>1. PICK s, e : s = pair[1] /\ e = pair[2]
  OBVIOUS
<1>2. s \in Point /\ e \in Point /\ pair \in Point \X Point
  BY <1>1, SearchesAssumption
<1>3. SUFFICES ASSUME NEW r \in Routes(s, e), Range(r) \cap NoTurn = {} PROVE FALSE
  BY <1>1 DEF Cut
<1>4. s \in Point \ NoPass
  <2>1. OnMap(r) /\ r[1] = s
    BY <1>3, RouteOnMap DEF Routes
  <2>2. 1 \in 1 .. Len(r)
    BY <2>1 DEF OnMap
  <2> QED BY <1>2, <2>1, <2>2 DEF OnMap
<1>5. ASSUME NEW time, NEW dir, Timed(s, time, dir) PROVE time[e] # UNREACHABLE
  BY <1>2, <1>5 DEF Timed, UNREACHABLE, Far
<1>6. CASE UNREACHABLE \in Batch[pair]
  <2>1. UNREACHABLE \in BatchResults[pair]
    BY <1>6, SearchesAssumption
  <2>2. \E st \in Dijkstra(s, e) : UNREACHABLE = IF st.found THEN st.time[e] ELSE NoRoute
    BY <1>1, <1>2, <1>4, <2>1 DEF BatchResults
  <2>3. PICK st \in Dijkstra(s, e) : UNREACHABLE = IF st.found THEN st.time[e] ELSE NoRoute
    BY <2>2
  <2>4. BatchOK(s, e, st)
    BY <1>4, DijkstraOK
  <2>5. ~st.found
    BY <1>5, <2>3, <2>4 DEF BatchOK
  <2> QED BY <1>3, <1>4, <2>5, BatchTrue
<1>7. CASE UNREACHABLE \in Found[pair]
  <2>1. UNREACHABLE \in SearchResults[pair]
    BY <1>7, SearchesAssumption
  <2>2. \E st \in AStar(s, e) : UNREACHABLE = IF st.last = e THEN st.time[e] ELSE NoRoute
    BY <1>1, <1>2, <1>4, <2>1 DEF SearchResults
  <2>3. PICK st \in AStar(s, e) : UNREACHABLE = IF st.last = e THEN st.time[e] ELSE NoRoute
    BY <2>2
  <2>4. SearchOK(s, st)
    BY <1>4, AStarOK
  <2>5. st.last # e
    BY <1>5, <2>3, <2>4 DEF SearchOK
  <2> QED BY <1>2, <1>3, <1>4, <2>5, SearchTrue
<1> QED BY <1>6, <1>7

-----------------------------------------------------------------------------
(* The table.                                                               *)

\* What may be written for a pair: a time greater than zero only if a route takes it, the verdict
\* only if it is true.
Right(pair, v) ==
  /\ v > 0 => v \in DrivenTimes[pair]
  /\ v = UNREACHABLE => Cut(pair)

\* The rows that exist hold nothing else, and a client about to refuse a pair is right to.
TableInv ==
  /\ \A pair \in Node \X Node : HasRow(pair) => Right(pair, Value(pair))
  /\ client.pc = "deny" => ~Valid[client.pair]

\* What both searches find.
LEMMA ResultRight ==
  ASSUME NEW pair \in Node \X Node, NEW v \in Batch[pair] \cup Found[pair]
  PROVE  Right(pair, v)
BY ResultDriven, ResultCut DEF Right

\* Writing for one pair what may be written.
LEMMA WriteRight ==
  ASSUME TypeOK, TableInv, NEW pair, HasRow(pair), NEW v \in Known, Right(pair, v), Set(pair, v),
         client'.pc = "deny" => ~Valid[client'.pair]
  PROVE  TableInv'
<1>1. /\ matrix'[pair[1]][pair[2]] = v
      /\ \A p : HasRow(p) /\ p # pair => matrix'[p[1]][p[2]] = matrix[p[1]][p[2]]
  BY SetPair
<1>2. ASSUME NEW p \in Node \X Node, HasRow(p)' PROVE HasRow(p)
  <2>1. matrix'[p[1]] # NoRow /\ p[1] \in Node /\ DOMAIN matrix = Node /\ matrix[pair[1]] # NoRow
    BY <1>2 DEF HasRow, TypeOK
  <2>2. p[1] # pair[1] => matrix'[p[1]] = matrix[p[1]]
    BY <2>1 DEF Set
  <2> QED BY <2>1, <2>2 DEF HasRow
<1>3. ASSUME NEW p \in Node \X Node, HasRow(p)
      PROVE  Right(p, matrix'[p[1]][p[2]])
  <2>1. CASE p = pair
    BY <1>1, <2>1
  <2>2. CASE p # pair
    BY <1>1, <1>3, <2>2 DEF TableInv, Value
  <2> QED BY <2>1, <2>2
<1>4. ASSUME NEW p \in Node \X Node, HasRow(p)' PROVE Right(p, Value(p))'
  <2>1. PICK x : x = matrix'[p[1]][p[2]]
    OBVIOUS
  <2>2. Right(p, x)
    BY <1>2, <1>3, <1>4, <2>1
  <2> QED BY <2>1, <2>2 DEF Value, Right, Cut
<1> QED BY <1>4 DEF TableInv

\* A step that leaves the rows as they are.
LEMMA SameRows ==
  ASSUME TableInv, UNCHANGED matrix, client'.pc = "deny" => ~Valid[client'.pair]
  PROVE  TableInv'
<1>1. ASSUME NEW p \in Node \X Node, HasRow(p)' PROVE Right(p, Value(p))'
  <2>1. Right(p, Value(p))
    BY <1>1 DEF TableInv, HasRow
  <2> QED BY <2>1 DEF Right, Value, Cut
<1> QED BY <1>1 DEF TableInv

\* A new row holds neither times nor verdicts.
LEMMA RowRight ==
  ASSUME IInv, TableInv, EnsureRow
  PROVE  TableInv'
<1>1. PICK s : s = client.pair[1]
  OBVIOUS
<1>2. s \in Node /\ DOMAIN matrix = Node /\ client'.pc # "deny"
  BY <1>1 DEF IInv, ClientHasRow, InCall, EnsureRow, TypeOK, GotoClient, ClientState
<1>3. CASE matrix[s] # NoRow
  <2>1. matrix' = matrix
    BY <1>1, <1>3 DEF EnsureRow
  <2> QED BY <1>2, <2>1, SameRows
<1>4. CASE matrix[s] = NoRow
  <2>1. matrix' = [matrix EXCEPT ![s] = [n \in Node |-> UNCALCULATED]]
    BY <1>1, <1>4 DEF EnsureRow
  <2>2. ASSUME NEW p \in Node \X Node, matrix'[p[1]] # NoRow PROVE Right(p, Value(p))'
    <3>1. p[1] \in Node /\ p[2] \in Node
      OBVIOUS
    <3>2. CASE p[1] = s
      <4>1. matrix'[p[1]][p[2]] = -1
        BY <1>2, <2>1, <3>1, <3>2 DEF UNCALCULATED
      <4> QED BY <4>1 DEF Right, Value, UNREACHABLE
    <3>3. CASE p[1] # s
      <4>1. matrix'[p[1]] = matrix[p[1]]
        BY <1>2, <2>1, <3>1, <3>3
      <4>2. Right(p, Value(p))
        BY <2>2, <4>1 DEF TableInv, HasRow
      <4> QED BY <4>1, <4>2 DEF Right, Value, Cut
    <3> QED BY <3>2, <3>3
  <2> QED BY <1>2, <2>2 DEF TableInv, HasRow
<1> QED BY <1>3, <1>4

\* Every step of the client and of the workers.
LEMMA StepRight ==
  ASSUME IInv, TableInv, [Next]_vars
  PROVE  TableInv'
<1>1. TypeOK
  BY DEF IInv
<1>2. ASSUME NEW pc, GotoClient(pc)
      PROVE  client'.pc = pc /\ client'.pair = client.pair
  BY <1>1, <1>2 DEF TypeOK, ClientState, GotoClient
<1>3. CASE EnsureRow
  BY <1>3, RowRight
<1>4. CASE RunBatch
  <2>1. PICK v \in Batch[client.pair] : Set(client.pair, v)
    BY <1>4 DEF RunBatch
  <2>2. HasRow(client.pair) /\ client.pair \in Node \X Node /\ client'.pc # "deny"
    BY <1>2, <1>4 DEF RunBatch, IInv, ClientHasRow, InCall, HasRow
  <2>3. v \in Known /\ Right(client.pair, v)
    BY <2>2, ResultUsable, ResultRight
  <2> QED BY <1>1, <2>1, <2>2, <2>3, WriteRight
<1>5. CASE Deny
  <2>1. Set(client.pair, UNREACHABLE) /\ HasRow(client.pair) /\ client'.pc # "deny"
    BY <1>2, <1>5 DEF Deny, IInv, ClientHasRow, InCall
  <2>2. Cut(client.pair)
    BY <1>5, <2>1, InvalidCut DEF Deny, TableInv, HasRow
  <2>3. UNREACHABLE \in Known /\ ~(UNREACHABLE > 0)
    BY DEF Known, UNREACHABLE
  <2>4. Right(client.pair, UNREACHABLE)
    BY <2>2, <2>3 DEF Right
  <2> QED BY <1>1, <2>1, <2>3, <2>4, WriteRight
<1>6. ASSUME NEW w \in Worker, Search(w) PROVE TableInv'
  <2>1. PICK pair : pair = worker[w].pair
    OBVIOUS
  <2>2. PICK v \in Found[pair] : Set(pair, v)
    BY <1>6, <2>1 DEF Search
  <2>3. HasRow(pair) /\ pair \in Node \X Node
    BY <1>6, <2>1 DEF Search, IInv, WorkersHaveRows, HasRow
  <2>4. v \in Known /\ Right(pair, v)
    BY <2>3, ResultUsable, ResultRight
  <2>5. client'.pc = "deny" => ~Valid[client'.pair]
    BY <1>6 DEF Search, TableInv
  <2> QED BY <1>1, <2>2, <2>3, <2>4, <2>5, WriteRight
<1>7. CASE ReadCache
  <2>1. matrix' = matrix /\ client'.pair = client.pair
    BY <1>2, <1>7 DEF ReadCache
  <2>2. client'.pc = "deny" => ~Valid[client.pair]
    BY <1>2, <1>7 DEF ReadCache
  <2> QED BY <2>1, <2>2, SameRows
<1>8. ASSUME UNCHANGED matrix, client'.pc # "deny" \/ UNCHANGED client PROVE TableInv'
  BY <1>8, SameRows DEF TableInv
<1>9. (\E pair \in Asked, wait \in BOOLEAN : Ask(pair, wait))
        => UNCHANGED matrix /\ client'.pc # "deny"
  BY DEF Ask
<1>10. Enqueue \/ NotifyOne \/ Answer \/ Poll \/ RequestExit \/ Unwind \/ EndStep
         => UNCHANGED matrix /\ client'.pc # "deny"
  BY <1>2 DEF Enqueue, NotifyOne, Answer, Poll, RequestExit, Unwind, EndStep, GetActiveWorkers,
              Destroy, NotifyAll, Join
<1>11. \A w \in Worker : Take(w) \/ Exit(w) \/ Doze(w) \/ Sleep(w) \/ WakeUp(w)
         => UNCHANGED <<matrix, client>>
  BY DEF Take, Exit, Doze, Sleep, WakeUp
<1>12. UNCHANGED vars => UNCHANGED <<matrix, client>>
  BY DEF vars
<1> QED
  BY <1>3, <1>4, <1>5, <1>6, <1>7, <1>8, <1>9, <1>10, <1>11, <1>12
     DEF Next, CallStep, WorkerStep

\* Whatever the table holds is right, on every map, however client and workers take turns and
\* whichever search has written last.
THEOREM TableCorrect == Spec => []TableInv
<1>1. Init => TableInv
  BY DEF Init, TableInv, HasRow
<1>2. IInv /\ TableInv /\ [Next]_vars => TableInv'
  BY StepRight
<1> QED BY <1>1, <1>2, Invariance, PTL DEF Spec

\* A time in the table is the time of a route that a vehicle can drive, turns included.
THEOREM TimesCorrect == Spec => []TimesAreDriven
<1>1. TableInv => TimesAreDriven
  BY DEF TableInv, Right, TimesAreDriven, SettledPairs, Settled, HasRow
<1> QED BY <1>1, TableCorrect, PTL

\* A pair that the table gives up has no route without a forbidden turn, whether the cheap test,
\* the batch or a worker gave it up.
THEOREM VerdictsCorrect == Spec => []UnreachableIsTrue
<1>1. TableInv => UnreachableIsTrue
  BY DEF TableInv, Right, Cut, UnreachableIsTrue, SettledPairs, Settled, HasRow
<1> QED BY <1>1, TableCorrect, PTL

=============================================================================
