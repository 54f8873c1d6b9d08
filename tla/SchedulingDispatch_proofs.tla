---------------------- MODULE SchedulingDispatch_proofs ----------------------
(***************************************************************************)
(* Proofs about SchedulingDispatch, for any number of requests, maps and   *)
(* workers: the types hold, a map has one server if it is marked as served *)
(* and none if it is not, and every part of a request is at one place.     *)
(***************************************************************************)
EXTENDS SchedulingDispatch, NumberSets, FiniteSetTheorems, TLAPS

-----------------------------------------------------------------------------
(* The map the receiver is at.                                              *)

Least(S) == CHOOSE m \in S : \A k \in S : m <= k

\* The map the receiver is at is the least of those left, and one of them.
LEMMA AtLeast ==
  /\ CurrentMap = Least(receiver.maps)
  /\ \A S \in SUBSET Map : S # {} => Least(S) \in S
<1>1. CurrentMap = Least(receiver.maps)
  BY DEF CurrentMap, Least
<1>2. ASSUME NEW S \in SUBSET Map, S # {}
      PROVE  Least(S) \in S
  <2>1. S \in SUBSET Nat
    BY DispatchAssumption
  <2>2. \E m \in S : \A k \in S : m <= k
    BY <1>2, <2>1, LeastExists
  <2> QED BY <2>2 DEF Least
<1> QED BY <1>1, <1>2

\* After the last map the receiver rests; otherwise it goes on with one map less.
LEMMA NextMapLeaves ==
  ASSUME TypeOK, receiver.pc # "idle", NextMap
  PROVE  /\ receiver' \in Receiver
         /\ receiver'.pc \in {"idle", "slot"}
         /\ receiver'.pc # "idle" => receiver'.req \in Request /\ receiver'.maps # {}
<1>1. CurrentMap \in receiver.maps
  BY AtLeast DEF TypeOK, Receiver
<1>2. CASE receiver.maps = {CurrentMap}
  BY <1>2 DEF NextMap, IdleReceiver, Receiver
<1>3. CASE receiver.maps # {CurrentMap}
  BY <1>1, <1>3 DEF NextMap, Receiver, TypeOK
<1> QED BY <1>2, <1>3

-----------------------------------------------------------------------------
(* Types.                                                                   *)

TypeReceiver ==
  /\ receiver \in Receiver
  /\ receiver.pc # "idle" => receiver.req \in Request /\ receiver.maps # {}
  /\ receiver.pc = "refuse" => receiver.refused \in Request

TypeWorkers ==
  /\ worker \in [Worker -> WorkerState]
  /\ \A w \in Worker : /\ Serving(w) <=> MapOf(w) \in Map
                       /\ Working(w) <=> worker[w].req \in Request

\* Only workers that serve no map move, and they go on serving none.
RestersMove ==
  \A v \in Worker : /\ MapOf(v)' = MapOf(v)
                    /\ Serving(v)' = Serving(v)
                    /\ Serving(v) => worker'[v] = worker[v]

\* A worker that dozes, sleeps or wakes up serves no map, before and after.
LEMMA RestMoves ==
  ASSUME TypeOK, NEW w \in Worker, NEW label \in {"idle", "dozing", "asleep"},
         worker[w].pc \in {"idle", "dozing", "asleep"}, Goto(w, label)
  PROVE  TypeWorkers' /\ RestersMove
<1>1. /\ worker \in [Worker -> WorkerState] /\ worker[w] \in WorkerState
      /\ worker' = [worker EXCEPT ![w].pc = label]
  BY DEF TypeOK, Goto
<1>2. /\ worker'[w].pc = label /\ worker'[w].map = worker[w].map /\ worker'[w].req = worker[w].req
      /\ worker' \in [Worker -> WorkerState]
      /\ \A v \in Worker : v # w => worker'[v] = worker[v]
  BY <1>1 DEF WorkerState
<1>3. RestersMove
  BY <1>2 DEF RestersMove, Serving, MapOf
<1>4. \A v \in Worker : Working(v)' = Working(v) /\ worker'[v].req = worker[v].req
  BY <1>2 DEF Working
<1> QED BY <1>2, <1>3, <1>4 DEF TypeOK, TypeWorkers, RestersMove

\* The receiver's notification wakes a sleeping worker or nobody.
LEMMA NotifyMoves ==
  ASSUME TypeOK, Notify
  PROVE  TypeWorkers' /\ RestersMove
<1>1. CASE UNCHANGED worker
  BY <1>1 DEF TypeOK, TypeWorkers, RestersMove, Serving, Working, MapOf
<1>2. ASSUME NEW w \in Worker, worker[w].pc = "asleep", worker' = [worker EXCEPT ![w].pc = "idle"]
      PROVE  TypeWorkers' /\ RestersMove
  BY <1>2, RestMoves DEF Goto
<1> QED BY <1>1, <1>2 DEF Notify

\* Steps of the receiver keep the types.
LEMMA ReceiverTypes ==
  ASSUME TypeOK, ReceiverStep
  PROVE  TypeOK'
<1>1. /\ receiver.pc # "idle"
      /\ CurrentMap \in receiver.maps
      /\ CurrentMap \in Map
  BY AtLeast DEF TypeOK, Receiver, ReceiverStep, Put, PutBusy, Submit, Notify, Refuse
<1>2. CASE Put
  <2>1. receiver.refused \in Request \cup {NoRequest} /\ latest[CurrentMap] \in Request \cup {NoRequest}
    BY <1>1 DEF TypeOK, Receiver
  <2>2. latest' \in [Map -> Request \cup {NoRequest}] /\ active' \in [Map -> BOOLEAN]
    BY <1>1, <1>2 DEF Put, TypeOK
  <2>3. TypeReceiver'
    <3>1. CASE active[CurrentMap] /\ latest[CurrentMap] = NoRequest
      BY <1>1, <1>2, <3>1, NextMapLeaves DEF Put, TypeReceiver
    <3>2. CASE ~(active[CurrentMap] /\ latest[CurrentMap] = NoRequest)
      BY <1>1, <1>2, <2>1, <3>2 DEF Put, TypeReceiver, Receiver, TypeOK
    <3> QED BY <3>1, <3>2
  <2> QED BY <1>2, <2>2, <2>3 DEF Put, TypeOK, TypeReceiver, Serving, Working, MapOf, At
<1>3. CASE PutBusy
  BY <1>1, <1>3 DEF PutBusy, TypeOK, Receiver, Serving, Working, MapOf, At
<1>4. CASE Submit
  <2>1. jobs' \in Seq(Map)
    BY <1>1, <1>4 DEF Submit, TypeOK
  <2>2. TypeReceiver'
    BY <1>4 DEF Submit, TypeReceiver, Receiver, TypeOK
  <2> QED BY <1>4, <2>1, <2>2 DEF Submit, TypeOK, TypeReceiver, Serving, Working, MapOf
<1>5. CASE Refuse
  <2>1. TypeReceiver'
    BY <1>1, <1>5, NextMapLeaves DEF Refuse, TypeReceiver
  <2>2. <<receiver.refused, CurrentMap>> \in Part
    BY <1>1, <1>5 DEF Refuse, TypeOK, Part
  <2>3. replies' \in [Part -> Nat]
    BY <1>5, <2>2 DEF Refuse, TypeOK
  <2> QED BY <1>5, <2>1, <2>3 DEF Refuse, TypeOK, TypeReceiver, Serving, Working, MapOf, At
<1>6. CASE Notify
  <2>1. TypeReceiver'
    <3>1. CASE receiver.refused = NoRequest
      BY <1>1, <1>6, <3>1, NextMapLeaves DEF Notify, TypeReceiver
    <3>2. CASE receiver.refused # NoRequest
      BY <1>1, <1>6, <3>2 DEF Notify, TypeReceiver, Receiver, TypeOK
    <3> QED BY <3>1, <3>2
  <2>2. TypeWorkers'
    BY <1>6, NotifyMoves
  <2> QED BY <1>6, <2>1, <2>2 DEF Notify, TypeOK, TypeReceiver, TypeWorkers
<1> QED BY <1>2, <1>3, <1>4, <1>5, <1>6 DEF ReceiverStep

\* Steps of a worker keep the types; it has a request exactly while it works on one.
LEMMA WorkerTypes ==
  ASSUME TypeOK, NEW w \in Worker, WorkerStep(w)
  PROVE  TypeOK'
<1>1. DispatchAssumption
  BY DispatchAssumption
<1>2. NoMap \notin Map /\ NoRequest \notin Request
  BY DispatchAssumption DEF NoMap
<1>3. worker[w] \in WorkerState
  BY DEF TypeOK
<1>4. PartOf(w) \in Part \/ ~Working(w)
  BY <1>3 DEF PartOf, Part, TypeOK, Working, Serving, WorkerState, MapOf, At
<1>5. CASE TakeJob(w)
  <2>1. Head(jobs) \in Map /\ Tail(jobs) \in Seq(Map)
    BY <1>5 DEF TakeJob, TypeOK
  <2> DEFINE W == [pc |-> "loop", map |-> Head(jobs), req |-> NoRequest, data |-> 0]
  <2>2. worker' = [worker EXCEPT ![w] = W]
    <3>1. worker'[w] = W
      BY <1>3, <1>5 DEF TakeJob, IdleWorker, TypeOK
    <3>2. \E x : worker' = [worker EXCEPT ![w] = x]
      BY <1>5 DEF TakeJob
    <3> QED BY <3>1, <3>2 DEF TypeOK
  <2>3. W \in WorkerState /\ W.pc = "loop" /\ W.map \in Map /\ W.req = NoRequest
    BY <2>1, DispatchAssumption DEF WorkerState
  <2>4. TypeWorkers'
    <3> HIDE DEF W
    <3> QED BY <1>2, <2>2, <2>3 DEF TypeOK, TypeWorkers, Serving, Working, MapOf, At
  <2> QED BY <1>5, <2>1, <2>4 DEF TakeJob, TypeOK, TypeWorkers, Serving, Working, MapOf, At
<1>6. CASE TakePart(w)
  BY <1>2, <1>3, <1>6 DEF TakePart, TypeOK, WorkerState, Serving, Working, MapOf, At
<1>7. CASE EndJob(w)
  <2>1. IdleWorker \in WorkerState
    BY DispatchAssumption DEF IdleWorker, WorkerState
  <2> QED BY <1>2, <1>3, <1>7, <2>1 DEF EndJob, TypeOK, WorkerState, Serving, Working, MapOf, At, IdleWorker
<1>8. CASE SetBusy(w)
  BY <1>2, <1>3, <1>8 DEF SetBusy, TypeOK, WorkerState, Serving, Working, MapOf, At, Goto
<1>9. CASE Call(w)
  BY <1>2, <1>3, <1>9 DEF Call, TypeOK, WorkerState, Serving, Working, MapOf, At, Goto
<1>10. CASE Distrust(w) \/ GiveUp(w)
  <2>1. silent' \subseteq Part
    BY <1>4, <1>10 DEF Distrust, GiveUp, TypeOK, Working, At
  <2>2. worker' = [worker EXCEPT ![w].pc = "finish"] /\ Working(w) /\ Serving(w)
    BY <1>10 DEF Distrust, GiveUp, Goto, Working, Serving, At
  <2>3. TypeWorkers'
    BY <1>2, <1>3, <2>2 DEF TypeOK, TypeWorkers, WorkerState, Serving, Working, MapOf, At
  <2> QED BY <1>10, <2>1, <2>3 DEF Distrust, GiveUp, TypeOK, TypeWorkers, Serving, Working, MapOf, At
<1>11. CASE LockMap(w)
  BY <1>2, <1>3, <1>11 DEF LockMap, TypeOK, WorkerState, Serving, Working, MapOf, At, Goto
<1>12. CASE Publish(w)
  <2>1. replies' \in [Part -> Nat]
    BY <1>4, <1>12 DEF Publish, TypeOK, Working, At
  <2> QED BY <1>2, <1>3, <1>12, <2>1 DEF Publish, TypeOK, WorkerState, Serving, Working, MapOf, At, Goto
<1>13. CASE ClearBusy(w)
  <2>1. worker'[w] = [pc |-> "loop", map |-> MapOf(w), req |-> NoRequest, data |-> 0]
    BY <1>13, <1>3 DEF ClearBusy, IdleWorker, TypeOK, MapOf
  <2>2. MapOf(w) \in Map
    BY <1>13 DEF ClearBusy, TypeOK, Serving, At
  <2>3. worker'[w] \in WorkerState
    BY <2>1, <2>2, DispatchAssumption DEF WorkerState
  <2>4. /\ worker' \in [Worker -> WorkerState]
        /\ \A v \in Worker : v # w => worker'[v] = worker[v]
    <3>1. \E x : worker' = [worker EXCEPT ![w] = x]
      BY <1>13 DEF ClearBusy
    <3> QED BY <2>3, <3>1 DEF TypeOK
  <2>5. /\ worker'[w].pc = "loop" /\ worker'[w].map \in Map
        /\ worker'[w].req \notin Request
    BY <1>2, <2>1, <2>2
  <2>6. TypeWorkers'
    BY <2>4, <2>5 DEF TypeOK, TypeWorkers, Serving, Working, MapOf, At
  <2> QED BY <1>13, <2>2, <2>6 DEF ClearBusy, TypeOK, TypeWorkers, Serving, Working, MapOf, At
<1>14. CASE Doze(w) \/ Sleep(w)
  <2>1. TypeWorkers'
    BY <1>14, RestMoves DEF Doze, Sleep, At
  <2> QED BY <1>14, <2>1 DEF Doze, Sleep, TypeOK, TypeWorkers
<1> QED BY <1>5, <1>6, <1>7, <1>8, <1>9, <1>10, <1>11, <1>12, <1>13, <1>14 DEF WorkerStep

\* Arriving messages, loaded maps and workers that wake up keep the types.
LEMMA OtherTypes ==
  ASSUME TypeOK
  PROVE  /\ \A r \in Request, maps \in SUBSET Map : Receive(r, maps) => TypeOK'
         /\ \A r \in Request : RefuseUnresolved(r) => TypeOK'
         /\ \A m \in Map : LoadMap(m) => TypeOK'
         /\ \A w \in Worker : WakeUp(w) => TypeOK'
<1>1. ASSUME NEW r \in Request, NEW maps \in SUBSET Map, Receive(r, maps)
      PROVE  TypeOK'
  <2>1. maps # {}
    BY <1>1 DEF Receive
  <2>2. receiver' = [pc |-> "slot", req |-> r, maps |-> maps, refused |-> NoRequest]
    BY <1>1 DEF Receive, IdleReceiver
  <2>3. TypeReceiver'
    BY <2>1, <2>2 DEF TypeReceiver, Receiver
  <2>4. arrived' \subseteq Part
    BY <1>1 DEF Receive, TypeOK, Part
  <2> QED BY <1>1, <2>3, <2>4 DEF Receive, TypeOK, TypeReceiver, Serving, Working, MapOf, At
<1>2. ASSUME NEW r \in Request, RefuseUnresolved(r)
      PROVE  TypeOK'
  <2>1. <<r, NoMap>> \in Part
    BY DEF Part
  <2>2. arrived' \subseteq Part
    BY <1>2, <2>1 DEF RefuseUnresolved, TypeOK
  <2>3. replies' \in [Part -> Nat]
    <3>1. replies' = [replies EXCEPT ![<<r, NoMap>>] = @ + 1] /\ replies \in [Part -> Nat]
      BY <1>2 DEF RefuseUnresolved, TypeOK
    <3> QED BY <2>1, <3>1
  <2> QED BY <1>2, <2>2, <2>3 DEF RefuseUnresolved, TypeOK, Serving, Working, MapOf, At
<1>3. ASSUME NEW m \in Map, LoadMap(m)
      PROVE  TypeOK'
  <2>1. loads' \in [Map -> 0 .. MaxLoads]
    BY <1>3, DispatchAssumption DEF LoadMap, TypeOK
  <2> QED BY <1>3, <2>1 DEF LoadMap, TypeOK, Serving, Working, MapOf, At
<1>4. ASSUME NEW w \in Worker, WakeUp(w)
      PROVE  TypeOK'
  <2>1. TypeWorkers'
    BY <1>4, RestMoves DEF WakeUp, At
  <2> QED BY <1>4, <2>1 DEF WakeUp, TypeOK, TypeWorkers
<1> QED BY <1>1, <1>2, <1>3, <1>4

-----------------------------------------------------------------------------
(* Who serves a map.                                                        *)

\* The receiver has to submit a job for m.
Submits(m) == receiver.pc = "submit" /\ Least(receiver.maps) = m

Queued(m) == \E i \in DOMAIN jobs : jobs[i] = m

Served(m) == \E w \in Worker : MapOf(w) = m

\* Servers in predicates: every map marked as served has one and no map has two.
ServeInv ==
  /\ \A m \in Map : active[m] <=> Submits(m) \/ Queued(m) \/ Served(m)
  /\ \A i \in DOMAIN jobs : ~Submits(jobs[i])
  /\ \A w \in Worker : MapOf(w) \in Map => ~Submits(MapOf(w))
  /\ \A i, j \in DOMAIN jobs : jobs[i] = jobs[j] => i = j
  /\ \A i \in DOMAIN jobs : \A w \in Worker : jobs[i] # MapOf(w)
  /\ \A v, w \in Worker : MapOf(v) \in Map /\ MapOf(v) = MapOf(w) => v = w

\* A busy flag belongs to a worker that has set it.
BusyInv ==
  \A m \in Map : busy[m] =>
    \E w \in Worker : MapOf(w) = m /\ worker[w].pc \in {"busy", "called", "locked", "finish"}

IInv == TypeOK /\ ServeInv /\ BusyInv

\* Workers that rest take no part in serving.
LEMMA RestServes ==
  ASSUME IInv, RestersMove, UNCHANGED <<jobs, active, busy>>, \A m : Submits(m)' = Submits(m)
  PROVE  ServeInv' /\ BusyInv'
<1>1. \A v \in Worker : MapOf(v)' = MapOf(v)
  BY DEF RestersMove
<1>2. ServeInv'
  BY <1>1 DEF IInv, ServeInv, Queued, Served
<1>3. BusyInv'
  BY <1>1 DEF IInv, BusyInv, RestersMove, Serving
<1> QED BY <1>2, <1>3

\* A part put into a mailbox brings a server to a map that has none, and only then.
LEMMA PutServes ==
  ASSUME IInv, Put
  PROVE  ServeInv' /\ BusyInv'
<1>1. CurrentMap = Least(receiver.maps) /\ CurrentMap \in Map
  BY AtLeast DEF IInv, TypeOK, Receiver, Put
<1>2. BusyInv'
  BY DEF IInv, BusyInv, Put, MapOf
<1>3. UNCHANGED <<jobs, worker>> /\ \A m \in Map : ~Submits(m)
  BY DEF Put, Submits
<1>4. \A m \in Map : active'[m] <=> active[m] \/ m = CurrentMap
  BY <1>1 DEF Put, IInv, TypeOK
<1>5. CASE active[CurrentMap]
  <2>1. receiver'.pc # "submit"
    <3>1. CASE latest[CurrentMap] = NoRequest
      BY <1>5, <3>1, NextMapLeaves DEF Put, IInv
    <3>2. CASE latest[CurrentMap] # NoRequest
      BY <1>5, <3>2 DEF Put, IInv, TypeOK, Receiver
    <3> QED BY <3>1, <3>2
  <2> QED BY <1>1, <1>2, <1>3, <1>4, <1>5, <2>1 DEF IInv, ServeInv, Submits, Queued, Served, MapOf
<1>6. CASE ~active[CurrentMap]
  <2>1. receiver'.pc = "submit" /\ receiver'.maps = receiver.maps
    BY <1>6 DEF Put, IInv, TypeOK, Receiver
  <2>2. \A m \in Map : Submits(m)' <=> m = CurrentMap
    BY <1>1, <2>1 DEF Submits
  <2>3. ~Queued(CurrentMap) /\ ~Served(CurrentMap)
    BY <1>1, <1>6 DEF IInv, ServeInv
  <2>5. \A m \in Map : Queued(m)' = Queued(m) /\ Served(m)' = Served(m)
    BY <1>3 DEF Queued, Served, MapOf
  <2>6. \A i \in DOMAIN jobs : jobs[i] \in Map
    BY DEF IInv, TypeOK
  <2>7. \A m \in Map : active'[m] <=> Submits(m)' \/ Queued(m)' \/ Served(m)'
    BY <1>3, <1>4, <2>2, <2>5 DEF IInv, ServeInv
  <2>8. \A i \in DOMAIN jobs : ~Submits(jobs[i])'
    BY <1>3, <2>2, <2>3, <2>6 DEF Queued
  <2>9. \A w \in Worker : MapOf(w)' \in Map => ~Submits(MapOf(w))'
    BY <1>3, <2>2, <2>3 DEF Served, MapOf
  <2> QED BY <1>2, <1>3, <2>7, <2>8, <2>9 DEF IInv, ServeInv, MapOf
<1> QED BY <1>5, <1>6

\* The other steps of the receiver hand the map over to the queue, or leave servers alone.
LEMMA ReceiverServes ==
  ASSUME IInv, PutBusy \/ Submit \/ Refuse
  PROVE  ServeInv' /\ BusyInv'
<1>1. CurrentMap = Least(receiver.maps) /\ CurrentMap \in Map
  BY AtLeast DEF IInv, TypeOK, Receiver, PutBusy, Submit, Refuse
<1>2. BusyInv'
  BY DEF IInv, BusyInv, PutBusy, Submit, Refuse, MapOf
<1>3. receiver'.pc # "submit"
  <2>1. CASE PutBusy
    BY <2>1 DEF PutBusy, IInv, TypeOK, Receiver
  <2>2. CASE Submit
    BY <2>2 DEF Submit, IInv, TypeOK, Receiver
  <2>3. CASE Refuse
    BY <2>3, NextMapLeaves DEF Refuse, IInv
  <2> QED BY <2>1, <2>2, <2>3
<1>4. \A m : ~Submits(m)'
  BY <1>3 DEF Submits
<1>5. CASE PutBusy \/ Refuse
  <2>1. UNCHANGED <<jobs, worker, active>> /\ \A m : ~Submits(m)
    BY <1>5 DEF PutBusy, Refuse, Submits
  <2> QED BY <1>2, <1>4, <2>1 DEF IInv, ServeInv, Queued, Served, MapOf
<1>6. CASE Submit
  <2>1. Submits(CurrentMap) /\ \A m \in Map : Submits(m) => m = CurrentMap
    BY <1>1, <1>6 DEF Submit, Submits
  <2>2. UNCHANGED <<worker, active>> /\ jobs' = Append(jobs, CurrentMap) /\ jobs \in Seq(Map)
    BY <1>6 DEF Submit, IInv, TypeOK
  <2>3. /\ Len(jobs) \in Nat
        /\ DOMAIN jobs = 1 .. Len(jobs)
        /\ DOMAIN jobs' = 1 .. Len(jobs) + 1
        /\ jobs'[Len(jobs) + 1] = CurrentMap
        /\ \A i \in DOMAIN jobs : jobs'[i] = jobs[i] /\ i \in DOMAIN jobs' /\ i # Len(jobs) + 1
        /\ \A i \in DOMAIN jobs' : i \in DOMAIN jobs \/ i = Len(jobs) + 1
    BY <1>1, <2>2
  <2>4. \A i \in DOMAIN jobs : jobs[i] # CurrentMap
    BY <2>1 DEF IInv, ServeInv
  <2>5. \A w \in Worker : MapOf(w) # CurrentMap
    BY <1>1, <2>1 DEF IInv, ServeInv
  <2>6. \A m \in Map : Queued(m)' <=> Queued(m) \/ m = CurrentMap
    BY <2>3 DEF Queued
  <2>7. \A m \in Map : active'[m] <=> Submits(m)' \/ Queued(m)' \/ Served(m)'
    BY <1>4, <2>1, <2>2, <2>6 DEF IInv, ServeInv, Served, MapOf
  <2>8. \A i, j \in DOMAIN jobs' : jobs'[i] = jobs'[j] => i = j
    BY <2>3, <2>4 DEF IInv, ServeInv
  <2>9. \A i \in DOMAIN jobs' : \A w \in Worker : jobs'[i] # MapOf(w)
    BY <2>3, <2>5 DEF IInv, ServeInv
  <2> QED BY <1>2, <1>4, <2>2, <2>7, <2>8, <2>9 DEF IInv, ServeInv, MapOf
<1> QED BY <1>5, <1>6

\* A notification wakes a worker and goes on: nobody's map changes hands.
LEMMA NotifyServes ==
  ASSUME IInv, Notify
  PROVE  ServeInv' /\ BusyInv'
<1>1. receiver.pc # "submit" /\ receiver'.pc # "submit" /\ UNCHANGED <<jobs, active, busy>>
  BY NextMapLeaves DEF Notify, IInv, TypeOK, Receiver
<1>2. \A m : Submits(m)' = Submits(m)
  BY <1>1 DEF Submits
<1> QED BY <1>1, <1>2, RestServes, NotifyMoves DEF IInv

\* A worker that takes a job serves the map in the job's place.
LEMMA TakeJobServes ==
  ASSUME IInv, NEW w \in Worker, TakeJob(w)
  PROVE  ServeInv' /\ BusyInv'
<1>1. /\ UNCHANGED <<receiver, active, busy>> /\ jobs' = Tail(jobs) /\ jobs # <<>>
      /\ jobs \in Seq(Map) /\ Head(jobs) = jobs[1] /\ MapOf(w) \notin Map
  BY DEF TakeJob, IInv, TypeOK, Serving, At
<1>2. /\ MapOf(w)' = jobs[1] /\ worker'[w].pc = "loop"
      /\ \A v \in Worker : v # w => worker'[v] = worker[v]
  BY <1>1 DEF TakeJob, IInv, TypeOK, MapOf, IdleWorker
<1>3. /\ 1 \in DOMAIN jobs /\ jobs[1] \in Map
      /\ \A i \in DOMAIN jobs' : i + 1 \in DOMAIN jobs /\ jobs'[i] = jobs[i + 1] /\ i + 1 # 1
      /\ \A i \in DOMAIN jobs : i = 1 \/ \E j \in DOMAIN jobs' : i = j + 1
  <2>1. Len(jobs) \in Nat \ {0} /\ DOMAIN jobs = 1 .. Len(jobs)
    BY <1>1
  <2>2. DOMAIN jobs' = 1 .. Len(jobs) - 1 /\ \A i \in 1 .. Len(jobs) - 1 : jobs'[i] = jobs[i + 1]
    BY <1>1
  <2>3. \A i \in DOMAIN jobs : i = 1 \/ (i - 1 \in DOMAIN jobs' /\ i = (i - 1) + 1)
    BY <2>1, <2>2
  <2> QED BY <1>1, <2>1, <2>2, <2>3
<1>4. \A i, j \in DOMAIN jobs' : i + 1 = j + 1 => i = j
  <2>1. DOMAIN jobs' \subseteq Nat
    BY <1>1
  <2> QED BY <2>1
<1>5. \A m : Submits(m)' <=> Submits(m)
  BY <1>1 DEF Submits
<1>6. \A m \in Map : Queued(m) <=> Queued(m)' \/ m = jobs[1]
  BY <1>3 DEF Queued
<1>7. \A m \in Map : Served(m)' <=> Served(m) \/ m = jobs[1]
  BY <1>1, <1>2, <1>3 DEF Served, MapOf
<1>8. \A i \in DOMAIN jobs' : ~Submits(jobs[i])'
  BY <1>3, <1>5 DEF IInv, ServeInv
<1>9. \A v \in Worker : MapOf(v)' \in Map => ~Submits(MapOf(v))'
  BY <1>2, <1>3, <1>5 DEF IInv, ServeInv, MapOf
<1>10. \A i, j \in DOMAIN jobs' : jobs'[i] = jobs'[j] => i = j
  BY <1>3, <1>4 DEF IInv, ServeInv
<1>11. \A i \in DOMAIN jobs' : jobs'[i] # jobs[1]
  BY <1>3 DEF IInv, ServeInv
<1>12. \A i \in DOMAIN jobs' : \A v \in Worker : jobs'[i] # MapOf(v)'
  BY <1>2, <1>3, <1>11 DEF IInv, ServeInv, MapOf
<1>13. \A u, v \in Worker : MapOf(u)' \in Map /\ MapOf(u)' = MapOf(v)' => u = v
  BY <1>1, <1>2, <1>3 DEF IInv, ServeInv, MapOf
<1>14. BusyInv'
  BY <1>1, <1>2 DEF IInv, BusyInv, MapOf
<1>15. \A m \in Map : active'[m] <=> Submits(m)' \/ Queued(m)' \/ Served(m)'
  <2>1. \A m \in Map : active[m] <=> Submits(m) \/ Queued(m) \/ Served(m)
    BY DEF IInv, ServeInv
  <2> QED BY <1>1, <1>5, <1>6, <1>7, <2>1
<1>16. ServeInv'
  BY <1>8, <1>9, <1>10, <1>12, <1>13, <1>15 DEF ServeInv
<1> QED BY <1>14, <1>16

\* A worker that ends its job was the map's only server and takes the mark away.
LEMMA EndJobServes ==
  ASSUME IInv, NEW w \in Worker, EndJob(w)
  PROVE  ServeInv' /\ BusyInv'
<1>1. /\ UNCHANGED <<receiver, jobs, busy>> /\ MapOf(w) \in Map /\ worker[w].pc = "loop"
      /\ \A m \in Map : active'[m] <=> active[m] /\ m # MapOf(w)
  BY DEF EndJob, IInv, TypeOK, Serving, At
<1>2. /\ MapOf(w)' = NoMap /\ NoMap \notin Map
      /\ \A v \in Worker : v # w => worker'[v] = worker[v]
  BY DispatchAssumption DEF EndJob, IInv, TypeOK, MapOf, IdleWorker, NoMap
<1>3. ~Submits(MapOf(w)) /\ ~Queued(MapOf(w)) /\ \A v \in Worker : MapOf(v) = MapOf(w) => v = w
  BY <1>1 DEF IInv, ServeInv, Queued
<1>4. \A m : (Submits(m)' <=> Submits(m)) /\ (Queued(m)' <=> Queued(m))
  BY <1>1 DEF Submits, Queued
<1>5. \A m \in Map : Served(m)' <=> Served(m) /\ m # MapOf(w)
  BY <1>1, <1>2, <1>3 DEF Served, MapOf
<1>6. BusyInv'
  BY <1>1, <1>2, <1>3 DEF IInv, BusyInv, MapOf
<1>7. \A i \in DOMAIN jobs : \A v \in Worker : jobs[i] # MapOf(v)'
  <2>1. \A i \in DOMAIN jobs : jobs[i] \in Map
    BY DEF IInv, TypeOK
  <2> QED BY <1>2, <2>1 DEF IInv, ServeInv, MapOf
<1>8. \A v \in Worker : MapOf(v)' \in Map => ~Submits(MapOf(v))'
  BY <1>2, <1>4 DEF IInv, ServeInv, MapOf
<1>9. \A u, v \in Worker : MapOf(u)' \in Map /\ MapOf(u)' = MapOf(v)' => u = v
  BY <1>2 DEF IInv, ServeInv, MapOf
<1> QED BY <1>1, <1>3, <1>4, <1>5, <1>6, <1>7, <1>8, <1>9 DEF IInv, ServeInv

\* The other steps of a worker change its place in the program, not the map it serves.
LEMMA WorkKeepsMap ==
  ASSUME TypeOK, NEW w \in Worker, WorkerStep(w), ~TakeJob(w), ~EndJob(w), ~Doze(w), ~Sleep(w)
  PROVE  /\ UNCHANGED <<receiver, jobs, active>> /\ MapOf(w) \in Map
         /\ \A v \in Worker : MapOf(v)' = MapOf(v) /\ (v # w => worker'[v] = worker[v])
<1>1. UNCHANGED <<receiver, jobs, active>> /\ MapOf(w) \in Map
  <2>1. UNCHANGED <<receiver, jobs, active>>
    BY DEF WorkerStep, TakePart, SetBusy, Call, Distrust, LockMap, GiveUp, Publish, ClearBusy
  <2>2. Serving(w)
    BY DEF WorkerStep, TakePart, SetBusy, Call, Distrust, LockMap, GiveUp, Publish, ClearBusy,
           Serving, At
  <2> QED BY <2>1, <2>2 DEF TypeOK
<1>2. worker[w] \in WorkerState /\ worker \in [Worker -> WorkerState]
  BY DEF TypeOK
<1>3. CASE TakePart(w)
  BY <1>1, <1>2, <1>3 DEF TakePart, WorkerState, MapOf
<1>4. CASE \E label : Goto(w, label)
  BY <1>1, <1>2, <1>4 DEF Goto, WorkerState, MapOf
<1>5. CASE Call(w)
  BY <1>1, <1>2, <1>5 DEF Call, WorkerState, MapOf
<1>6. CASE ClearBusy(w)
  <2>1. worker'[w].map = MapOf(w)
    BY <1>2, <1>6 DEF ClearBusy, IdleWorker, MapOf
  <2>2. \A v \in Worker : v # w => worker'[v] = worker[v]
    BY <1>2, <1>6 DEF ClearBusy
  <2> QED BY <1>1, <2>1, <2>2 DEF MapOf
<1>7. SetBusy(w) \/ Distrust(w) \/ LockMap(w) \/ GiveUp(w) \/ Publish(w) => \E label : Goto(w, label)
  BY DEF SetBusy, Distrust, LockMap, GiveUp, Publish
<1> QED BY <1>3, <1>4, <1>5, <1>6, <1>7 DEF WorkerStep

\* The other steps of a worker leave jobs and servers alone.
LEMMA WorkServes ==
  ASSUME IInv, NEW w \in Worker, WorkerStep(w), ~TakeJob(w), ~EndJob(w), ~Doze(w), ~Sleep(w)
  PROVE  ServeInv' /\ BusyInv'
<1>1. /\ UNCHANGED <<receiver, jobs, active>> /\ MapOf(w) \in Map
      /\ \A v \in Worker : MapOf(v)' = MapOf(v) /\ (v # w => worker'[v] = worker[v])
  BY WorkKeepsMap DEF IInv
<1>2. worker[w] \in WorkerState /\ worker \in [Worker -> WorkerState] /\ busy \in [Map -> BOOLEAN]
  BY DEF IInv, TypeOK
<1>3. BusyInv
  BY DEF IInv
<1>4. ServeInv'
  BY <1>1 DEF IInv, ServeInv, Submits, Queued, Served
<1>5. CASE SetBusy(w)
  <2>1. worker'[w].pc = "busy"
    BY <1>2, <1>5 DEF SetBusy, Goto, WorkerState
  <2>2. \A m \in Map : busy'[m] => m = MapOf(w) \/ busy[m]
    BY <1>2, <1>5 DEF SetBusy
  <2>3. BusyInv'
    BY <1>1, <1>3, <2>1, <2>2 DEF BusyInv
  <2> QED BY <1>4, <2>3
<1>6. CASE ClearBusy(w)
  <2>1. \A m \in Map : busy'[m] => m # MapOf(w) /\ busy[m]
    BY <1>2, <1>6 DEF ClearBusy
  <2>2. BusyInv'
    BY <1>1, <1>3, <2>1 DEF BusyInv
  <2> QED BY <1>4, <2>2
<1>7. CASE TakePart(w)
  <2>1. busy' = busy /\ worker[w].pc = "loop"
    BY <1>7 DEF TakePart, At
  <2>2. BusyInv'
    BY <1>1, <1>3, <2>1 DEF BusyInv
  <2> QED BY <1>4, <2>2
<1>8. CASE Call(w) \/ Distrust(w) \/ LockMap(w) \/ GiveUp(w) \/ Publish(w)
  <2>1. busy' = busy /\ worker'[w].pc \in {"called", "locked", "finish"}
    BY <1>2, <1>8 DEF Call, Distrust, LockMap, GiveUp, Publish, Goto, WorkerState
  <2>2. BusyInv'
    BY <1>1, <1>3, <2>1 DEF BusyInv
  <2> QED BY <1>4, <2>2
<1> QED BY <1>5, <1>6, <1>7, <1>8 DEF WorkerStep

\* Arriving messages, loaded maps and resting workers leave the servers alone.
LEMMA OtherServes ==
  ASSUME IInv
  PROVE  /\ \A r \in Request, maps \in SUBSET Map : Receive(r, maps) => ServeInv' /\ BusyInv'
         /\ \A r \in Request : RefuseUnresolved(r) => ServeInv' /\ BusyInv'
         /\ \A m \in Map : LoadMap(m) => ServeInv' /\ BusyInv'
         /\ \A w \in Worker : Doze(w) \/ Sleep(w) \/ WakeUp(w) => ServeInv' /\ BusyInv'
<1>1. ASSUME UNCHANGED <<receiver, jobs, active, worker, busy>>
      PROVE  ServeInv' /\ BusyInv'
  BY <1>1 DEF IInv, ServeInv, BusyInv, Submits, Queued, Served, MapOf
<1>2. ASSUME NEW r \in Request, NEW maps \in SUBSET Map, Receive(r, maps)
      PROVE  ServeInv' /\ BusyInv'
  <2>1. receiver.pc # "submit" /\ receiver'.pc # "submit" /\ UNCHANGED <<jobs, active, worker, busy>>
    BY <1>2 DEF Receive, IdleReceiver
  <2> QED BY <2>1 DEF IInv, ServeInv, BusyInv, Submits, Queued, Served, MapOf
<1>3. ASSUME NEW w \in Worker, Doze(w) \/ Sleep(w) \/ WakeUp(w)
      PROVE  ServeInv' /\ BusyInv'
  <2>1. RestersMove
    BY <1>3, RestMoves DEF Doze, Sleep, WakeUp, At, IInv
  <2>2. UNCHANGED <<receiver, jobs, active, busy>>
    BY <1>3 DEF Doze, Sleep, WakeUp
  <2>3. \A m : Submits(m)' = Submits(m)
    BY <2>2 DEF Submits
  <2> QED BY <2>1, <2>2, <2>3, RestServes
<1> QED BY <1>1, <1>2, <1>3 DEF RefuseUnresolved, LoadMap

-----------------------------------------------------------------------------

\* At the start nothing waits, nobody serves and no map is marked.
THEOREM Initially == Init => IInv
<1> SUFFICES ASSUME Init PROVE IInv
  OBVIOUS
<1>1. IdleReceiver \in Receiver /\ IdleWorker \in WorkerState
  BY DispatchAssumption DEF IdleReceiver, Receiver, IdleWorker, WorkerState
<1>2. NoMap \notin Map
  BY DispatchAssumption DEF NoMap
<1>3. loads \in [Map -> 0 .. MaxLoads]
  BY DispatchAssumption DEF Init
<1>4. TypeReceiver
  BY <1>1 DEF Init, TypeReceiver, IdleReceiver
<1>5. TypeWorkers
  BY <1>1, <1>2, DispatchAssumption DEF Init, TypeWorkers, IdleWorker, Serving, Working, MapOf, At
<1>6. TypeOK
  BY <1>3, <1>4, <1>5 DEF Init, TypeOK, TypeReceiver, TypeWorkers
<1>7. jobs = <<>> /\ receiver.pc = "idle" /\ \A w \in Worker : MapOf(w) = NoMap
  BY DEF Init, IdleReceiver, MapOf, IdleWorker
<1>8. \A m \in Map : active[m] = FALSE /\ busy[m] = FALSE
  BY DEF Init
<1>9. ServeInv
  <2>1. DOMAIN jobs = {}
    BY <1>7
  <2> QED BY <1>2, <1>7, <1>8, <2>1 DEF ServeInv, Submits, Queued, Served
<1>10. BusyInv
  BY <1>8 DEF BusyInv
<1> QED BY <1>6, <1>9, <1>10 DEF IInv

\* Every step of the receiver, of a worker and of the map loader keeps the invariant.
THEOREM Inductive == IInv /\ [Next]_vars => IInv'
<1> SUFFICES ASSUME IInv, [Next]_vars PROVE IInv'
  OBVIOUS
<1>1. ASSUME NEW r \in Request, RefuseUnresolved(r) PROVE IInv'
  BY <1>1, OtherTypes, OtherServes DEF IInv
<1>2. ASSUME NEW r \in Request, NEW maps \in SUBSET Map, Receive(r, maps) PROVE IInv'
  BY <1>2, OtherTypes, OtherServes DEF IInv
<1>3. CASE ReceiverStep
  <2>1. TypeOK'
    BY <1>3, ReceiverTypes DEF IInv
  <2>2. ServeInv' /\ BusyInv'
    BY <1>3, PutServes, ReceiverServes, NotifyServes DEF ReceiverStep
  <2> QED BY <2>1, <2>2 DEF IInv
<1>4. ASSUME NEW w \in Worker, WorkerStep(w) PROVE IInv'
  <2>1. TypeOK'
    BY <1>4, WorkerTypes DEF IInv
  <2>2. ServeInv' /\ BusyInv'
    BY <1>4, TakeJobServes, EndJobServes, WorkServes, OtherServes
  <2> QED BY <2>1, <2>2 DEF IInv
<1>5. ASSUME NEW m \in Map, LoadMap(m) PROVE IInv'
  BY <1>5, OtherTypes, OtherServes DEF IInv
<1>6. CASE UNCHANGED vars
  BY <1>6 DEF vars, IInv, TypeOK, Serving, Working, ServeInv, BusyInv, Submits, Queued, Served,
              MapOf, At
<1>7. ASSUME NEW w \in Worker, WakeUp(w) PROVE IInv'
  BY <1>7, OtherTypes, OtherServes DEF IInv
<1> QED BY <1>1, <1>2, <1>3, <1>4, <1>5, <1>6, <1>7 DEF Next

\* The invariant holds of every state of the dispatch.
THEOREM Invariance == Spec => []IInv
BY Initially, Inductive, PTL DEF Spec

\* Mailboxes, receiver, queue and pool keep their types, whatever requests come.
THEOREM TypeCorrect == Spec => []TypeOK
<1>1. IInv => TypeOK
  BY DEF IInv
<1> QED BY <1>1, Invariance, PTL

\* A map marked as served has exactly one server, among receiver, queue and pool, and no
\* other map has one; a busy flag belongs to a worker at work.
THEOREM OneServer == Spec => []OneServerPerMap
<1>1. ASSUME IInv, NEW m \in Map
      PROVE  Cardinality(Servers(m)) = IF active[m] THEN 1 ELSE 0
  <2> DEFINE R == {<<"receiver", r>> : r \in {r \in {receiver.req} : receiver.pc = "submit" /\ CurrentMap = m}}
             J == {<<"job", i>> : i \in {i \in DOMAIN jobs : jobs[i] = m}}
             W == {<<"worker", w>> : w \in {w \in Worker : MapOf(w) = m}}
  <2>1. Servers(m) = R \cup J \cup W
    BY DEF Servers
  <2>2. R # {} <=> Submits(m)
    BY AtLeast DEF Submits
  <2>3. J # {} <=> Queued(m)
    BY DEF Queued
  <2>4. W # {} <=> Served(m)
    BY DEF Served
  <2>5. CASE ~active[m]
    <3>1. Servers(m) = {}
      BY <1>1, <2>1, <2>2, <2>3, <2>4, <2>5 DEF IInv, ServeInv
    <3> QED BY <2>5, <3>1, FS_EmptySet
  <2>6. CASE active[m]
    <3>1. \A x, y \in R : x = y
      OBVIOUS
    <3>2. \A x, y \in J : x = y
      BY <1>1 DEF IInv, ServeInv
    <3>3. \A x, y \in W : x = y
      BY <1>1 DEF IInv, ServeInv
    <3>4. Submits(m) => ~Queued(m) /\ ~Served(m)
      BY <1>1 DEF IInv, ServeInv, Queued, Served
    <3>5. Queued(m) => ~Served(m)
      BY <1>1 DEF IInv, ServeInv, Queued, Served
    <3>6. Submits(m) \/ Queued(m) \/ Served(m)
      BY <1>1, <2>6 DEF IInv, ServeInv
    <3>7. \E x : Servers(m) = {x}
      <4> HIDE DEF R, J, W
      <4> QED BY <2>1, <2>2, <2>3, <2>4, <3>1, <3>2, <3>3, <3>4, <3>5, <3>6
    <3> QED BY <2>6, <3>7, FS_Singleton
  <2> QED BY <2>5, <2>6
<1>2. ASSUME IInv, NEW m \in Map, busy[m]
      PROVE  \E w \in Worker : MapOf(w) = m /\ Working(w)
  BY <1>2 DEF IInv, BusyInv, Working
<1>3. IInv => OneServerPerMap
  BY <1>1, <1>2 DEF OneServerPerMap
<1> QED BY <1>3, Invariance, PTL

-----------------------------------------------------------------------------
(* Where the parts of a request are.                                        *)

\* The receiver still has to look at part p: now, or after the map it is at.
Ahead(p) ==
  /\ receiver.req = p[1]
  /\ \/ receiver.pc = "slot" /\ p[2] \in receiver.maps
     \/ /\ receiver.pc \in {"submit", "notify", "refuse"}
        /\ p[2] \in receiver.maps \ {Least(receiver.maps)}

ToRefuse(p) == receiver.refused = p[1] /\ Least(receiver.maps) = p[2]

Boxed(p) == p[2] \in Map /\ latest[p[2]] = p[1]

HeldBy(w, p) == Working(w) /\ ~At(w, "finish") /\ PartOf(w) = p

Held(p) == \E w \in Worker : HeldBy(w, p)

Replied(p) == replies[p] > 0

Silent(p) == p \in silent

Somewhere(p) == Ahead(p) \/ ToRefuse(p) \/ Boxed(p) \/ Held(p) \/ Replied(p) \/ Silent(p)

NotTwice(p) ==
  /\ Ahead(p) => ~ToRefuse(p) /\ ~Boxed(p) /\ ~Held(p) /\ ~Replied(p) /\ ~Silent(p)
  /\ ToRefuse(p) => ~Boxed(p) /\ ~Held(p) /\ ~Replied(p) /\ ~Silent(p)
  /\ Boxed(p) => ~Held(p) /\ ~Replied(p) /\ ~Silent(p)
  /\ Held(p) => ~Replied(p) /\ ~Silent(p)
  /\ Replied(p) => ~Silent(p)

\* A part is somewhere exactly if it has arrived, and never at two places; what waits in a
\* mailbox waits for a server; only a receiver that refuses holds a part to refuse.
PartInv ==
  /\ \A p \in Part : NotTwice(p) /\ (Somewhere(p) <=> p \in arrived)
  /\ \A p \in Part : \A v, w \in Worker : HeldBy(v, p) /\ HeldBy(w, p) => v = w
  /\ \A p \in Part : replies[p] <= 1
  /\ \A m \in Map : latest[m] # NoRequest => active[m]
  /\ receiver.refused # NoRequest => receiver.pc = "refuse"

\* The maps left when the receiver goes on are those it has not looked at.
LEMMA NextMapAhead ==
  ASSUME TypeOK, receiver.pc # "idle", NextMap
  PROVE  /\ receiver'.refused = NoRequest
         /\ \A p \in Part : Ahead(p)' <=> receiver.req = p[1] /\ p[2] \in receiver.maps \ {CurrentMap}
<1>1. CurrentMap \in receiver.maps
  BY AtLeast DEF TypeOK, Receiver
<1>2. \A p \in Part : p[1] # NoRequest
  BY DispatchAssumption DEF Part
<1>3. CASE receiver.maps = {CurrentMap}
  BY <1>2, <1>3 DEF NextMap, IdleReceiver, Ahead
<1>4. CASE receiver.maps # {CurrentMap}
  <2>1. /\ receiver'.pc = "slot" /\ receiver'.req = receiver.req /\ receiver'.refused = NoRequest
        /\ receiver'.maps = receiver.maps \ {CurrentMap}
    BY <1>4 DEF NextMap, TypeOK, Receiver
  <2> QED BY <2>1 DEF Ahead
<1> QED BY <1>3, <1>4

\* The mailbox takes the part, and the receiver the one that was in it.
LEMMA PutParts ==
  ASSUME IInv, PartInv, Put
  PROVE  PartInv'
<1> DEFINE m == CurrentMap
           c == <<receiver.req, m>>
<1>1. /\ m = Least(receiver.maps) /\ m \in Map /\ m \in receiver.maps /\ receiver.pc = "slot"
      /\ receiver.req \in Request /\ receiver.refused = NoRequest /\ c \in Part
  BY AtLeast DEF IInv, TypeOK, Receiver, Put, PartInv, Part
<1>2. \A p \in Part : p[1] \in Request /\ p[1] # NoRequest /\ p = <<p[1], p[2]>>
  BY DispatchAssumption DEF Part
<1>3. \A p \in Part : Ahead(p) /\ p[2] = m <=> p = c
  BY <1>1, <1>2 DEF Ahead
<1>4. /\ latest' \in [Map -> Request \cup {NoRequest}] /\ latest'[m] = receiver.req
      /\ \A k \in Map : k # m => latest'[k] = latest[k]
      /\ active'[m] /\ \A k \in Map : active[k] => active'[k]
      /\ UNCHANGED <<worker, replies, silent, arrived>>
  BY <1>1 DEF Put, IInv, TypeOK
<1>5. \A p \in Part : Boxed(p)' <=> (Boxed(p) /\ p[2] # m) \/ p = c
  BY <1>1, <1>2, <1>4 DEF Boxed
<1>6. /\ \A p \in Part : Ahead(p)' <=> Ahead(p) /\ p[2] # m
      /\ \A p \in Part : ToRefuse(p)' <=> Boxed(p) /\ p[2] = m
      /\ receiver'.refused # NoRequest => receiver'.pc = "refuse"
  <2>1. CASE active[m] /\ latest[m] = NoRequest
    <3>1. NextMap
      BY <2>1 DEF Put
    <3>2. /\ receiver'.refused = NoRequest
          /\ \A p \in Part : Ahead(p)' <=> receiver.req = p[1] /\ p[2] \in receiver.maps \ {m}
      BY <1>1, <3>1, NextMapAhead DEF IInv
    <3> QED BY <1>1, <1>2, <2>1, <3>2 DEF Ahead, ToRefuse, Boxed
  <2>2. CASE ~(active[m] /\ latest[m] = NoRequest)
    <3>1. /\ receiver'.pc = IF active[m] THEN "refuse" ELSE "submit"
          /\ receiver'.refused = latest[m]
          /\ receiver'.req = receiver.req /\ receiver'.maps = receiver.maps
      BY <2>2 DEF Put, IInv, TypeOK, Receiver
    <3>2. latest[m] # NoRequest => active[m]
      BY <1>1 DEF PartInv
    <3> QED BY <1>1, <1>2, <3>1, <3>2 DEF Ahead, ToRefuse, Boxed
  <2> QED BY <2>1, <2>2
<1>7. \A p \in Part : ~ToRefuse(p)
  BY <1>1, <1>2 DEF ToRefuse
<1>8. /\ \A p \in Part, w \in Worker : HeldBy(w, p)' = HeldBy(w, p)
      /\ \A p \in Part : Held(p)' = Held(p)
      /\ \A p \in Part : Replied(p)' = Replied(p)
      /\ \A p \in Part : Silent(p)' = Silent(p)
  BY <1>4 DEF HeldBy, Held, Working, At, PartOf, Replied, Silent
<1>9. ASSUME NEW p \in Part
      PROVE  NotTwice(p)' /\ (Somewhere(p)' <=> p \in arrived')
  <2>1. NotTwice(p) /\ (Somewhere(p) <=> p \in arrived)
    BY DEF PartInv
  <2> HIDE DEF m, c
  <2> QED BY <1>3, <1>4, <1>5, <1>6, <1>7, <1>8, <2>1 DEF NotTwice, Somewhere
<1>10. \A k \in Map : latest'[k] # NoRequest => active'[k]
  BY <1>4 DEF PartInv
<1> QED BY <1>4, <1>6, <1>8, <1>9, <1>10 DEF PartInv

\* A part that is refused as busy goes from the list of maps to the receiver's hand.
LEMMA PutBusyParts ==
  ASSUME IInv, PartInv, PutBusy
  PROVE  PartInv'
<1> DEFINE m == CurrentMap
<1>1. /\ m = Least(receiver.maps) /\ m \in receiver.maps /\ receiver.pc = "slot"
      /\ receiver.refused = NoRequest
  BY AtLeast DEF IInv, TypeOK, Receiver, PutBusy, PartInv
<1>2. \A p \in Part : p[1] # NoRequest
  BY DispatchAssumption DEF Part
<1>3. /\ receiver'.pc = "refuse" /\ receiver'.refused = receiver.req
      /\ receiver'.req = receiver.req /\ receiver'.maps = receiver.maps
      /\ UNCHANGED <<latest, active, worker, replies, silent, arrived>>
  BY DEF PutBusy, IInv, TypeOK, Receiver
<1>4. /\ \A p \in Part : Ahead(p)' <=> Ahead(p) /\ p[2] # m
      /\ \A p \in Part : ToRefuse(p)' <=> Ahead(p) /\ p[2] = m
      /\ \A p \in Part : ~ToRefuse(p)
  BY <1>1, <1>2, <1>3 DEF Ahead, ToRefuse
<1>5. /\ \A p \in Part, w \in Worker : HeldBy(w, p)' = HeldBy(w, p)
      /\ \A p \in Part : Held(p)' = Held(p) /\ Boxed(p)' = Boxed(p)
      /\ \A p \in Part : Replied(p)' = Replied(p) /\ Silent(p)' = Silent(p)
  BY <1>3 DEF HeldBy, Held, Boxed, Working, At, PartOf, Replied, Silent
<1>6. ASSUME NEW p \in Part
      PROVE  NotTwice(p)' /\ (Somewhere(p)' <=> p \in arrived')
  <2>1. NotTwice(p) /\ (Somewhere(p) <=> p \in arrived)
    BY DEF PartInv
  <2> HIDE DEF m
  <2> QED BY <1>3, <1>4, <1>5, <2>1 DEF NotTwice, Somewhere
<1> QED BY <1>3, <1>5, <1>6 DEF PartInv

\* Resting workers have no part; a step of theirs, or of the receiver, that leaves the
\* receiver's parts with it moves none.
LEMMA RestParts ==
  ASSUME IInv, PartInv, RestersMove, UNCHANGED <<latest, active, replies, silent, arrived>>,
         receiver'.refused # NoRequest => receiver'.pc = "refuse",
         \A p \in Part : Ahead(p)' = Ahead(p) /\ ToRefuse(p)' = ToRefuse(p)
  PROVE  PartInv'
<1>1. \A p \in Part, w \in Worker : HeldBy(w, p)' = HeldBy(w, p)
  BY DEF RestersMove, HeldBy, Working, Serving, At, PartOf
<1>2. \A p \in Part : Held(p)' = Held(p)
  BY <1>1 DEF Held
<1>3. \A p \in Part : Boxed(p)' = Boxed(p) /\ Replied(p)' = Replied(p) /\ Silent(p)' = Silent(p)
  BY DEF Boxed, Replied, Silent
<1>4. ASSUME NEW p \in Part
      PROVE  NotTwice(p)' /\ (Somewhere(p)' <=> p \in arrived')
  <2>1. NotTwice(p) /\ (Somewhere(p) <=> p \in arrived)
    BY DEF PartInv
  <2> QED BY <1>2, <1>3, <2>1 DEF NotTwice, Somewhere
<1> QED BY <1>1, <1>4 DEF PartInv

\* Submitting a job and waking a worker for it move no part: only a receiver at "refuse"
\* has one to refuse.
LEMMA SubmitParts ==
  ASSUME IInv, PartInv, Submit \/ Notify
  PROVE  PartInv'
<1>1. /\ CurrentMap = Least(receiver.maps) /\ receiver.pc \in {"submit", "notify"}
      /\ receiver.refused = NoRequest
      /\ UNCHANGED <<latest, active, replies, silent, arrived>>
  BY AtLeast DEF IInv, TypeOK, Receiver, Submit, Notify, PartInv
<1>2. \A p \in Part : p[1] # NoRequest
  BY DispatchAssumption DEF Part
<1>3. CASE Submit
  <2>1. /\ receiver'.pc = "notify" /\ receiver'.refused = NoRequest
        /\ receiver'.req = receiver.req /\ receiver'.maps = receiver.maps /\ worker' = worker
    BY <1>1, <1>3 DEF Submit, IInv, TypeOK, Receiver
  <2>2. \A p \in Part : Ahead(p)' = Ahead(p) /\ ToRefuse(p)' = ToRefuse(p)
    BY <1>1, <2>1, <1>3 DEF Submit, Ahead, ToRefuse
  <2>3. RestersMove
    BY <2>1 DEF RestersMove, Serving, MapOf
  <2> QED BY <1>1, <2>1, <2>2, <2>3, RestParts
<1>4. CASE Notify
  <2>1. NextMap
    BY <1>1, <1>4 DEF Notify
  <2>2. /\ receiver'.refused = NoRequest
        /\ \A p \in Part : Ahead(p)' <=> receiver.req = p[1] /\ p[2] \in receiver.maps \ {CurrentMap}
    BY <1>1, <2>1, NextMapAhead DEF IInv
  <2>3. \A p \in Part : Ahead(p)' = Ahead(p) /\ ToRefuse(p)' = ToRefuse(p)
    BY <1>1, <1>2, <2>2, <1>4 DEF Notify, Ahead, ToRefuse
  <2> QED BY <1>1, <1>4, <2>2, <2>3, NotifyMoves, RestParts DEF IInv
<1> QED BY <1>3, <1>4

\* A refusal answers the part in the receiver's hand, for the first time.
LEMMA RefuseParts ==
  ASSUME IInv, PartInv, Refuse
  PROVE  PartInv'
<1> DEFINE c == <<receiver.refused, CurrentMap>>
<1>1. /\ CurrentMap = Least(receiver.maps) /\ receiver.pc = "refuse" /\ NextMap
      /\ UNCHANGED <<latest, active, worker, silent, arrived>> /\ c \in Part
  BY AtLeast DEF IInv, TypeOK, Receiver, Refuse, Part
<1>2. \A p \in Part : p[1] # NoRequest /\ p = <<p[1], p[2]>>
  BY DispatchAssumption DEF Part
<1>3. /\ \A p \in Part : replies[p] \in Nat
      /\ replies'[c] = replies[c] + 1
      /\ \A p \in Part : p # c => replies'[p] = replies[p]
  BY <1>1 DEF Refuse, IInv, TypeOK
<1>4. /\ receiver'.refused = NoRequest
      /\ \A p \in Part : Ahead(p)' <=> Ahead(p)
      /\ \A p \in Part : ToRefuse(p) <=> p = c
      /\ \A p \in Part : ~ToRefuse(p)'
  <2>1. /\ receiver'.refused = NoRequest
        /\ \A p \in Part : Ahead(p)' <=> receiver.req = p[1] /\ p[2] \in receiver.maps \ {CurrentMap}
    BY <1>1, NextMapAhead DEF IInv
  <2> QED BY <1>1, <1>2, <2>1 DEF Ahead, ToRefuse
<1>5. /\ \A p \in Part, w \in Worker : HeldBy(w, p)' = HeldBy(w, p)
      /\ \A p \in Part : Held(p)' = Held(p) /\ Boxed(p)' = Boxed(p) /\ Silent(p)' = Silent(p)
  BY <1>1 DEF HeldBy, Held, Boxed, Working, At, PartOf, Silent
<1>6. \A p \in Part : Replied(p)' <=> Replied(p) \/ p = c
  <2> HIDE DEF c
  <2> QED BY <1>3 DEF Replied
<1>7. ASSUME NEW p \in Part
      PROVE  NotTwice(p)' /\ (Somewhere(p)' <=> p \in arrived')
  <2>1. NotTwice(p) /\ (Somewhere(p) <=> p \in arrived)
    BY DEF PartInv
  <2> HIDE DEF c
  <2> QED BY <1>1, <1>4, <1>5, <1>6, <2>1 DEF NotTwice, Somewhere
<1>8. \A p \in Part : replies'[p] <= 1
  <2>1. ~Replied(c)
    BY <1>1, <1>4 DEF PartInv, NotTwice
  <2> HIDE DEF c
  <2> QED BY <1>1, <1>3, <2>1 DEF PartInv, Replied
<1> QED BY <1>1, <1>4, <1>5, <1>7, <1>8 DEF PartInv

\* The steps of a worker that take no part and settle none leave all parts where they are.
LEMMA ServingParts ==
  ASSUME IInv, PartInv, NEW w \in Worker,
         TakeJob(w) \/ EndJob(w) \/ SetBusy(w) \/ Call(w) \/ LockMap(w) \/ ClearBusy(w)
  PROVE  PartInv'
<1>1. /\ UNCHANGED <<receiver, latest, replies, silent, arrived>>
      /\ worker \in [Worker -> WorkerState]
  BY DEF TakeJob, EndJob, SetBusy, Call, LockMap, ClearBusy, IInv, TypeOK
<1>2. \A v \in Worker : v # w => worker'[v] = worker[v]
  BY <1>1 DEF TakeJob, EndJob, SetBusy, Call, LockMap, ClearBusy, Goto
<1>3. \A p \in Part : HeldBy(w, p)' <=> HeldBy(w, p)
  <2>1. CASE TakeJob(w) \/ EndJob(w) \/ ClearBusy(w)
    <3>1. worker[w].pc \in {"idle", "loop", "finish"}
      BY <2>1 DEF TakeJob, EndJob, ClearBusy, At
    <3>2. worker'[w].pc \in {"idle", "loop"}
      <4>1. CASE TakeJob(w)
        BY <1>1, <4>1 DEF TakeJob, IdleWorker
      <4>2. CASE EndJob(w)
        BY <1>1, <4>2 DEF EndJob, IdleWorker
      <4>3. CASE ClearBusy(w)
        BY <1>1, <4>3 DEF ClearBusy, IdleWorker
      <4> QED BY <2>1, <4>1, <4>2, <4>3
    <3> QED BY <3>1, <3>2 DEF HeldBy, Working, At
  <2>2. CASE SetBusy(w) \/ Call(w) \/ LockMap(w)
    <3>1. /\ worker'[w].map = worker[w].map /\ worker'[w].req = worker[w].req
          /\ worker[w].pc \in {"taken", "busy", "called"}
          /\ worker'[w].pc \in {"busy", "called", "locked"}
      BY <1>1, <2>2 DEF SetBusy, Call, LockMap, Goto, At, WorkerState
    <3> QED BY <3>1 DEF HeldBy, Working, At, PartOf
  <2> QED BY <2>1, <2>2
<1>4. \A p \in Part, v \in Worker : HeldBy(v, p)' <=> HeldBy(v, p)
  BY <1>2, <1>3 DEF HeldBy, Working, At, PartOf
<1>5. \A p \in Part : Held(p)' <=> Held(p)
  BY <1>4 DEF Held
<1>6. \A m \in Map : latest'[m] # NoRequest => active'[m]
  <2>1. CASE EndJob(w)
    BY <1>1, <2>1 DEF EndJob, PartInv, IInv, TypeOK
  <2>2. CASE ~EndJob(w)
    BY <1>1, <2>2 DEF TakeJob, SetBusy, Call, LockMap, ClearBusy, PartInv
  <2> QED BY <2>1, <2>2
<1>7. \A p \in Part : /\ Ahead(p)' = Ahead(p) /\ ToRefuse(p)' = ToRefuse(p)
                      /\ Boxed(p)' = Boxed(p)
                      /\ Replied(p)' = Replied(p) /\ Silent(p)' = Silent(p)
  BY <1>1 DEF Ahead, ToRefuse, Boxed, Replied, Silent
<1>8. ASSUME NEW p \in Part
      PROVE  NotTwice(p)' /\ (Somewhere(p)' <=> p \in arrived')
  <2>1. NotTwice(p) /\ (Somewhere(p) <=> p \in arrived)
    BY DEF PartInv
  <2> QED BY <1>1, <1>5, <1>7, <2>1 DEF NotTwice, Somewhere
<1> QED BY <1>1, <1>4, <1>6, <1>8 DEF PartInv

\* A worker takes the part out of the mailbox, where no other worker has it.
LEMMA TakeParts ==
  ASSUME IInv, PartInv, NEW w \in Worker, TakePart(w)
  PROVE  PartInv'
<1> DEFINE m == MapOf(w)
<1>1. /\ UNCHANGED <<receiver, active, replies, silent, arrived>>
      /\ worker \in [Worker -> WorkerState] /\ m \in Map /\ latest[m] \in Request
      /\ latest' \in [Map -> Request \cup {NoRequest}] /\ latest'[m] = NoRequest
      /\ \A k \in Map : k # m => latest'[k] = latest[k]
  BY DEF TakePart, IInv, TypeOK, Serving, At
<1>2. /\ worker'[w].pc = "taken" /\ worker'[w].map = m /\ worker'[w].req = latest[m]
      /\ worker[w].pc = "loop"
      /\ \A v \in Worker : v # w => worker'[v] = worker[v]
  BY <1>1 DEF TakePart, At, WorkerState, MapOf
<1>3. \A p \in Part : p[1] # NoRequest /\ p = <<p[1], p[2]>>
  BY DispatchAssumption DEF Part
<1>4. \A p \in Part : Boxed(p)' <=> Boxed(p) /\ p[2] # m
  BY <1>1, <1>3 DEF Boxed
<1>5. \A p \in Part : ~HeldBy(w, p) /\ (HeldBy(w, p)' <=> Boxed(p) /\ p[2] = m)
  BY <1>1, <1>2, <1>3 DEF HeldBy, Working, At, PartOf, Boxed
<1>6. \A p \in Part, v \in Worker : v # w => (HeldBy(v, p)' <=> HeldBy(v, p))
  BY <1>2 DEF HeldBy, Working, At, PartOf
<1>7. \A p \in Part : Held(p)' <=> Held(p) \/ (Boxed(p) /\ p[2] = m)
  <2> HIDE DEF m
  <2> QED BY <1>5, <1>6 DEF Held
<1>8. \A p \in Part : /\ Ahead(p)' = Ahead(p) /\ ToRefuse(p)' = ToRefuse(p)
                      /\ Replied(p)' = Replied(p) /\ Silent(p)' = Silent(p)
  BY <1>1 DEF Ahead, ToRefuse, Replied, Silent
<1>9. ASSUME NEW p \in Part
      PROVE  NotTwice(p)' /\ (Somewhere(p)' <=> p \in arrived')
  <2>1. NotTwice(p) /\ (Somewhere(p) <=> p \in arrived)
    BY DEF PartInv
  <2> HIDE DEF m
  <2> QED BY <1>1, <1>4, <1>7, <1>8, <2>1 DEF NotTwice, Somewhere
<1>10. ASSUME NEW p \in Part, NEW u \in Worker, NEW v \in Worker, HeldBy(u, p)', HeldBy(v, p)'
       PROVE  u = v
  <2>1. NotTwice(p) /\ (HeldBy(u, p) /\ HeldBy(v, p) => u = v)
    BY DEF PartInv
  <2>2. Boxed(p) => ~HeldBy(u, p) /\ ~HeldBy(v, p)
    BY <2>1 DEF NotTwice, Held
  <2> HIDE DEF m
  <2> QED BY <1>5, <1>6, <1>10, <2>1, <2>2
<1>11. \A k \in Map : latest'[k] # NoRequest => active'[k]
  <2> HIDE DEF m
  <2> QED BY <1>1 DEF PartInv
<1> QED BY <1>1, <1>9, <1>10, <1>11 DEF PartInv

\* A worker gives its part up, or answers it for the first time.
LEMMA SettleParts ==
  ASSUME IInv, PartInv, NEW w \in Worker, Distrust(w) \/ GiveUp(w) \/ Publish(w)
  PROVE  PartInv'
<1> DEFINE c == PartOf(w)
<1>1. /\ UNCHANGED <<receiver, latest, active, arrived>>
      /\ worker \in [Worker -> WorkerState]
      /\ worker[w].pc \in {"called", "locked"}
      /\ worker' = [worker EXCEPT ![w].pc = "finish"]
  BY DEF Distrust, GiveUp, Publish, Goto, At, IInv, TypeOK
<1>2. /\ worker'[w].pc = "finish" /\ \A v \in Worker : v # w => worker'[v] = worker[v]
  BY <1>1 DEF WorkerState
<1>3. c \in Part
  BY <1>1 DEF IInv, TypeOK, PartOf, Part, Working, Serving, MapOf, At
<1>4. /\ \A p \in Part : HeldBy(w, p) <=> p = c
      /\ \A p \in Part : ~HeldBy(w, p)'
      /\ \A p \in Part, v \in Worker : v # w => (HeldBy(v, p)' <=> HeldBy(v, p))
  BY <1>1, <1>2 DEF HeldBy, Working, At, PartOf
<1>5. \A p \in Part : Held(p)' <=> Held(p) /\ p # c
  <2>1. \A v \in Worker : HeldBy(v, c) => v = w
    BY <1>3, <1>4 DEF PartInv
  <2> HIDE DEF c
  <2> QED BY <1>4, <2>1 DEF Held
<1>6. Held(c)
  BY <1>3, <1>4 DEF Held
<1>7. \A p \in Part : Ahead(p)' = Ahead(p) /\ ToRefuse(p)' = ToRefuse(p) /\ Boxed(p)' = Boxed(p)
  BY <1>1 DEF Ahead, ToRefuse, Boxed
<1>8. ~Replied(c) /\ ~Silent(c)
  BY <1>3, <1>6 DEF PartInv, NotTwice
<1>9. /\ \A p \in Part : replies[p] \in Nat
      /\ \/ /\ \A p \in Part : Replied(p)' = Replied(p)
            /\ \A p \in Part : Silent(p)' <=> Silent(p) \/ p = c
            /\ replies' = replies
         \/ /\ \A p \in Part : Silent(p)' = Silent(p)
            /\ \A p \in Part : Replied(p)' <=> Replied(p) \/ p = c
            /\ \A p \in Part : replies'[p] = IF p = c THEN replies[c] + 1 ELSE replies[p]
  <2>1. replies \in [Part -> Nat]
    BY DEF IInv, TypeOK
  <2>2. CASE Distrust(w) \/ GiveUp(w)
    BY <2>1, <2>2 DEF Distrust, GiveUp, Replied, Silent
  <2>3. CASE Publish(w)
    <3>1. silent' = silent /\ replies' = [replies EXCEPT ![c] = @ + 1]
      BY <2>3 DEF Publish
    <3> HIDE DEF c
    <3> QED BY <1>3, <2>1, <3>1 DEF Replied, Silent
  <2> QED BY <2>2, <2>3
<1> HIDE DEF c
<1>10. ASSUME NEW p \in Part
       PROVE  NotTwice(p)' /\ (Somewhere(p)' <=> p \in arrived')
  <2>1. NotTwice(p) /\ (Somewhere(p) <=> p \in arrived)
    BY DEF PartInv
  <2>2. arrived' = arrived
    BY <1>1
  <2> QED BY <1>5, <1>6, <1>7, <1>9, <2>1, <2>2 DEF NotTwice, Somewhere
<1>11. \A p \in Part : replies'[p] <= 1
  BY <1>3, <1>8, <1>9 DEF PartInv, Replied
<1>12. \A p \in Part, u, v \in Worker : HeldBy(u, p)' /\ HeldBy(v, p)' => u = v
  BY <1>4 DEF PartInv
<1> QED BY <1>1, <1>10, <1>11, <1>12 DEF PartInv

\* A request that arrives brings its parts to the receiver, or is refused at once; no
\* part of it was anywhere before.
LEMMA ArrivalParts ==
  ASSUME IInv, PartInv, NEW r \in Request,
         RefuseUnresolved(r) \/ \E maps \in SUBSET Map : Receive(r, maps)
  PROVE  PartInv'
<1>1. /\ UNCHANGED <<latest, active, worker, silent>>
      /\ receiver.pc = "idle" /\ receiver.refused = NoRequest
  BY DEF RefuseUnresolved, Receive, PartInv
<1>2. \A p \in Part : p[1] # NoRequest /\ p[1] \in Request /\ p = <<p[1], p[2]>>
  BY DispatchAssumption DEF Part
<1>3. /\ \A p \in Part, w \in Worker : HeldBy(w, p)' = HeldBy(w, p)
      /\ \A p \in Part : Held(p)' = Held(p) /\ Boxed(p)' = Boxed(p) /\ Silent(p)' = Silent(p)
  BY <1>1 DEF HeldBy, Held, Boxed, Working, At, PartOf, Silent
<1>4. \A p \in Part : ~Ahead(p) /\ ~ToRefuse(p)
  BY <1>1, <1>2 DEF Ahead, ToRefuse
<1>5. CASE RefuseUnresolved(r)
  <2> DEFINE c == <<r, NoMap>>
  <2>1. /\ receiver' = receiver /\ arrived' = arrived \cup {c} /\ c \in Part /\ c \notin arrived
        /\ replies \in [Part -> Nat] /\ replies' = [replies EXCEPT ![c] = @ + 1]
    BY <1>5 DEF RefuseUnresolved, IInv, TypeOK, Part
  <2> HIDE DEF c
  <2>2. \A p \in Part : Replied(p)' <=> Replied(p) \/ p = c
    BY <2>1 DEF Replied
  <2>3. \A p \in Part : ~Ahead(p)' /\ ~ToRefuse(p)'
    BY <1>4, <2>1 DEF Ahead, ToRefuse
  <2>4. ~Somewhere(c)
    BY <2>1 DEF PartInv
  <2>5. ASSUME NEW p \in Part
        PROVE  NotTwice(p)' /\ (Somewhere(p)' <=> p \in arrived')
    <3>1. NotTwice(p) /\ (Somewhere(p) <=> p \in arrived)
      BY DEF PartInv
    <3> QED BY <1>3, <1>4, <2>1, <2>2, <2>3, <2>4, <3>1 DEF NotTwice, Somewhere
  <2>6. \A p \in Part : replies'[p] <= 1
    BY <2>1, <2>4 DEF PartInv, Somewhere, Replied
  <2> QED BY <1>1, <1>3, <2>1, <2>5, <2>6 DEF PartInv
<1>6. ASSUME NEW maps \in SUBSET Map, Receive(r, maps)
      PROVE  PartInv'
  <2> DEFINE New == {<<r, k>> : k \in maps}
  <2>1. /\ replies' = replies /\ arrived' = arrived \cup New
        /\ \A p \in arrived : p[1] # r
        /\ receiver' = [pc |-> "slot", req |-> r, maps |-> maps, refused |-> NoRequest]
    BY <1>6 DEF Receive, IdleReceiver
  <2>2. \A p \in Part : (Ahead(p)' <=> p \in New) /\ ~ToRefuse(p)'
    BY <1>2, <2>1 DEF Ahead, ToRefuse
  <2>3. \A p \in Part : Replied(p)' = Replied(p) /\ (p \in New => p \notin arrived)
    BY <2>1 DEF Replied
  <2> HIDE DEF New
  <2>4. ASSUME NEW p \in Part
        PROVE  NotTwice(p)' /\ (Somewhere(p)' <=> p \in arrived')
    <3>1. NotTwice(p) /\ (Somewhere(p) <=> p \in arrived)
      BY DEF PartInv
    <3> QED BY <1>3, <1>4, <2>1, <2>2, <2>3, <3>1 DEF NotTwice, Somewhere
  <2> QED BY <1>1, <1>3, <2>1, <2>4 DEF PartInv
<1> QED BY <1>5, <1>6

\* Every step keeps parts at one place each.
LEMMA NextParts == IInv /\ PartInv /\ [Next]_vars => PartInv'
<1> SUFFICES ASSUME IInv, PartInv, [Next]_vars PROVE PartInv'
  OBVIOUS
<1>1. CASE \E r \in Request : RefuseUnresolved(r) \/ \E maps \in SUBSET Map : Receive(r, maps)
  BY <1>1, ArrivalParts
<1>2. CASE ReceiverStep
  BY <1>2, PutParts, PutBusyParts, SubmitParts, RefuseParts DEF ReceiverStep
<1>3. ASSUME NEW w \in Worker, Doze(w) \/ Sleep(w) \/ WakeUp(w) PROVE PartInv'
  <2>1. RestersMove
    BY <1>3, RestMoves DEF Doze, Sleep, WakeUp, At, IInv
  <2>2. UNCHANGED <<receiver, latest, active, replies, silent, arrived>>
    BY <1>3 DEF Doze, Sleep, WakeUp
  <2>3. /\ \A p \in Part : Ahead(p)' = Ahead(p) /\ ToRefuse(p)' = ToRefuse(p)
        /\ receiver'.refused # NoRequest => receiver'.pc = "refuse"
    BY <2>2 DEF Ahead, ToRefuse, PartInv
  <2> QED BY <2>1, <2>2, <2>3, RestParts
<1>4. ASSUME NEW w \in Worker, WorkerStep(w) PROVE PartInv'
  BY <1>3, <1>4, ServingParts, TakeParts, SettleParts DEF WorkerStep
<1>5. CASE UNCHANGED vars \/ \E m \in Map : LoadMap(m)
  <2>1. UNCHANGED <<latest, active, receiver, worker, arrived, replies, silent>>
    BY <1>5 DEF vars, LoadMap
  <2>2. \A p : /\ Ahead(p)' = Ahead(p) /\ ToRefuse(p)' = ToRefuse(p) /\ Boxed(p)' = Boxed(p)
               /\ Held(p)' = Held(p) /\ Replied(p)' = Replied(p) /\ Silent(p)' = Silent(p)
               /\ \A w : HeldBy(w, p)' = HeldBy(w, p)
    BY <2>1 DEF Ahead, ToRefuse, Boxed, HeldBy, Held, Working, At, PartOf, Replied, Silent
  <2>3. \A p \in Part : NotTwice(p)' /\ (Somewhere(p)' <=> p \in arrived')
    BY <2>1, <2>2 DEF PartInv, NotTwice, Somewhere
  <2> QED BY <2>1, <2>2, <2>3 DEF PartInv
<1> QED BY <1>1, <1>2, <1>3, <1>4, <1>5 DEF Next

\* At the start no part has arrived and none is anywhere.
LEMMA InitParts == Init => PartInv
<1> SUFFICES ASSUME Init PROVE PartInv
  OBVIOUS
<1>1. \A p \in Part : p[1] # NoRequest
  BY DispatchAssumption DEF Part
<1>2. \A p \in Part : ~Somewhere(p)
  BY <1>1 DEF Init, Somewhere, Ahead, ToRefuse, Boxed, Held, HeldBy, Working, At, Replied, Silent,
              IdleReceiver, IdleWorker
<1>3. \A p \in Part : \A w \in Worker : ~HeldBy(w, p)
  BY DEF Init, HeldBy, Working, IdleWorker
<1> QED BY <1>2, <1>3 DEF Init, PartInv, NotTwice, Somewhere, IdleReceiver

\* Parts are at one place each in every state.
THEOREM PartsInvariance == Spec => []PartInv
<1>1. Init => PartInv
  BY InitParts
<1>2. IInv /\ PartInv /\ [Next]_vars => PartInv'
  BY NextParts
<1> QED BY <1>1, <1>2, Invariance, PTL DEF Spec

\* A part of a request that arrived is always at exactly one place: ahead of the receiver,
\* in its hand, in a mailbox, with a worker, answered, or given up.
THEOREM NothingIsLost == Spec => []NothingLost
<1>1. ASSUME IInv, PartInv, NEW p \in arrived
      PROVE  Cardinality(Places(p)) = 1
  <2> DEFINE A == {x \in {"receiver", "refused", "mailbox", "replied", "silent"} :
                     CASE x = "receiver" -> receiver.pc = "slot" /\ receiver.req = p[1] /\ p[2] \in receiver.maps
                       [] x = "refused"  -> receiver.refused = p[1] /\ CurrentMap = p[2]
                       [] x = "mailbox"  -> p[2] \in Map /\ latest[p[2]] = p[1]
                       [] x = "replied"  -> replies[p] > 0
                       [] x = "silent"   -> p \in silent}
             L == {<<"later", r>> : r \in {r \in {receiver.req} :
                     /\ receiver.pc \in {"submit", "notify", "refuse"}
                     /\ r = p[1] /\ p[2] \in receiver.maps \ {CurrentMap}}}
             W == {<<"worker", w>> : w \in {w \in Worker : Working(w) /\ ~At(w, "finish") /\ PartOf(w) = p}}
             Slot == receiver.pc = "slot" /\ receiver.req = p[1] /\ p[2] \in receiver.maps
             Later == /\ receiver.pc \in {"submit", "notify", "refuse"} /\ receiver.req = p[1]
                      /\ p[2] \in receiver.maps \ {CurrentMap}
  <2>1. Places(p) = A \cup L \cup W
    BY DEF Places
  <2>2. p \in Part /\ NotTwice(p) /\ Somewhere(p)
    BY <1>1 DEF PartInv, IInv, TypeOK
  <2>3. CurrentMap = Least(receiver.maps)
    BY AtLeast
  <2>4. (Ahead(p) <=> Slot \/ Later) /\ (Slot => ~Later)
    BY <2>3 DEF Ahead
  <2>5. \A x : x \in A <=> \/ x = "receiver" /\ Slot
                           \/ x = "refused" /\ ToRefuse(p)
                           \/ x = "mailbox" /\ Boxed(p)
                           \/ x = "replied" /\ Replied(p)
                           \/ x = "silent" /\ Silent(p)
    <3>1. /\ "receiver" \in A <=> Slot
          /\ "refused" \in A <=> ToRefuse(p)
      BY <2>3 DEF ToRefuse
    <3>2. /\ "mailbox" \in A <=> Boxed(p)
          /\ "replied" \in A <=> Replied(p)
          /\ "silent" \in A <=> Silent(p)
      BY DEF Boxed, Replied, Silent
    <3>3. \A x \in A : x \in {"receiver", "refused", "mailbox", "replied", "silent"}
      OBVIOUS
    <3> HIDE DEF A, Slot
    <3> QED BY <3>1, <3>2, <3>3
  <2>6. (L # {} <=> Later) /\ \A x, y \in L : x = y
    <3>1. \A x \in L : x = <<"later", receiver.req>> /\ Later
      OBVIOUS
    <3>2. Later => <<"later", receiver.req>> \in L
      OBVIOUS
    <3> HIDE DEF L, Later
    <3> QED BY <3>1, <3>2
  <2>7. (W # {} <=> Held(p)) /\ \A x, y \in W : x = y
    <3>1. \A x \in W : \E w \in Worker : x = <<"worker", w>> /\ HeldBy(w, p)
      BY DEF HeldBy
    <3>2. \A w \in Worker : HeldBy(w, p) => <<"worker", w>> \in W
      BY DEF HeldBy
    <3>3. \A v, w \in Worker : HeldBy(v, p) /\ HeldBy(w, p) => v = w
      BY <1>1, <2>2 DEF PartInv
    <3> HIDE DEF W
    <3> QED BY <3>1, <3>2, <3>3 DEF Held
  <2> HIDE DEF A, L, W, Slot, Later
  <2>8. CASE Held(p)
    <3>1. A = {} /\ L = {}
      BY <2>2, <2>4, <2>5, <2>6, <2>8 DEF NotTwice
    <3>2. \E x : W = {x}
      BY <2>7, <2>8
    <3> QED BY <2>1, <3>1, <3>2, FS_Singleton
  <2>9. CASE Later
    <3>1. A = {} /\ W = {}
      BY <2>2, <2>4, <2>5, <2>7, <2>9 DEF NotTwice
    <3>2. \E x : L = {x}
      BY <2>6, <2>9
    <3> QED BY <2>1, <3>1, <3>2, FS_Singleton
  <2>10. CASE ~Held(p) /\ ~Later
    <3>1. L = {} /\ W = {}
      BY <2>6, <2>7, <2>10
    <3>2. ~ToRefuse(p) /\ ~Boxed(p) /\ ~Replied(p) /\ ~Silent(p) => A = {"receiver"}
      BY <2>2, <2>4, <2>5, <2>10 DEF Somewhere
    <3>3. ToRefuse(p) => A = {"refused"}
      BY <2>2, <2>4, <2>5 DEF NotTwice
    <3>4. Boxed(p) => A = {"mailbox"}
      BY <2>2, <2>4, <2>5 DEF NotTwice
    <3>5. Replied(p) => A = {"replied"}
      BY <2>2, <2>4, <2>5 DEF NotTwice
    <3>6. Silent(p) => A = {"silent"}
      BY <2>2, <2>4, <2>5 DEF NotTwice
    <3>7. \E x : A = {x}
      BY <3>2, <3>3, <3>4, <3>5, <3>6
    <3> QED BY <2>1, <3>1, <3>7, FS_Singleton
  <2> QED BY <2>8, <2>9, <2>10
<1>2. IInv /\ PartInv => NothingLost
  BY <1>1 DEF NothingLost
<1> QED BY <1>2, Invariance, PartsInvariance, PTL

\* No part is answered twice: a part that a worker has was not refused, and one that the
\* receiver refuses was not taken.
THEOREM NeverAnsweredTwice == Spec => []AnsweredOnce
<1>1. PartInv => AnsweredOnce
  BY DEF PartInv, AnsweredOnce
<1> QED BY <1>1, PartsInvariance, PTL

=============================================================================
