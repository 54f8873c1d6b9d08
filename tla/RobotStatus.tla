----------------------------- MODULE RobotStatus -----------------------------
(***************************************************************************)
(* The status caches of the maps (RobotDataRepository, one per map         *)
(* context) and the register of the map each vehicle is on                 *)
(* (MultiMapManager).                                                      *)
(*                                                                         *)
(* Two threads write the caches.  The receiver takes messages of the       *)
(* status stream: it moves the vehicle to the reported map, stores the     *)
(* status and goes on to steer the vehicle by it.  The scheduling workers  *)
(* store the statuses that came along with a scheduling request, which the *)
(* receiver sorted by map when the request arrived, some time before.      *)
(* Messages come in any order, late, or twice.                             *)
(*                                                                         *)
(* A stream message lists several vehicles; their states are disjoint, and *)
(* each goes through the steps below, so a message is one report here.     *)
(* Position, battery, task and the other fields of a status are left out.  *)
(***************************************************************************)
EXTENDS Integers, FiniteSets

CONSTANTS
  Device,       \* vehicle ids
  Map,          \* map ids
  ReadyMaps,    \* the maps that are loaded
  NoMap,        \* no (positive) map id
  Node,         \* node ids
  NoNode,       \* a node id that does not parse
  NoStatus,     \* no cached status, no offer
  NoTime,       \* history: an offer had no time
  NoReport,     \* the receiver is idle
  Time,         \* the times reports are made at, in seconds; 0: no time stamp
  Unit,         \* Unit[source]: the unit of its time stamps, "s" or "ms"
  MsPerSec,     \* 1000
  MsBoundary,   \* time stamps above it are taken for milliseconds
  MaxSec,       \* the greatest int
  MaxPending    \* bound on the scheduling requests under way

Source == {"stream", "snapshot"}

Report == [device : Device, map : Map \cup {NoMap}, node : Node \cup {NoNode}, time : Time]

\* A report whose map is known: the map is written back into the message.
MappedReport == [device : Device, map : Map, node : Node \cup {NoNode}, time : Time]

Offer == [time : Time \ {0}, source : Source]

Status == [node : Node \cup {NoNode}, stamp : Nat, source : Source]

\* A stamp in either unit can be told from the other, and fits an int.
ASSUME StatusAssumption ==
  /\ Time \subseteq Nat
  /\ Unit \in [Source -> {"s", "ms"}]
  /\ MsPerSec \in Nat \ {0} /\ MsBoundary \in Nat /\ MaxSec \in Nat
  /\ \A t \in Time \ {0} :
       t <= MaxSec /\ t <= MsBoundary /\ t * MsPerSec > MsBoundary
  /\ ReadyMaps \subseteq Map
  /\ NoMap \notin Map /\ NoNode \notin Node
  /\ NoStatus \notin Status \cup Offer /\ NoTime \notin Offer \cup {NoStatus}
  /\ NoReport \notin Report
  /\ MaxPending \in Nat

VARIABLES
  deviceMap,   \* deviceToMap_
  status,      \* status[m][d]: statuses_ and statusSources_ of map m
  lastNode,    \* lastStatusNode_
  prevNode,    \* prevStatusNode_
  pc,          \* where the receiver is in the status handler
  report,      \* the report the receiver handles
  leaving,     \* the map whose cache the receiver still has to forget the vehicle from
  pending,     \* the statuses of scheduling requests on their way to a worker, with their map
  freshest     \* history: the best offer made to a cache since it last forgot the vehicle

vars == <<deviceMap, status, lastNode, prevNode, pc, report, leaving, pending, freshest>>

-----------------------------------------------------------------------------
(* Arbitration.                                                             *)

RawStamp(r, source) == IF Unit[source] = "ms" THEN r.time * MsPerSec ELSE r.time

\* Mutant: milliseconds are not recognised.
NormalizeEpochSecondsMutant(raw) == IF raw > MaxSec THEN MaxSec ELSE raw

NormalizeEpochSeconds(raw) ==
  LET sec == IF raw > MsBoundary THEN raw \div MsPerSec ELSE raw
  IN  IF sec > MaxSec THEN MaxSec ELSE sec

Stamp(r, source) == NormalizeEpochSeconds(RawStamp(r, source))

ShouldAcceptStatusUpdate(old, source, stamp) ==
  /\ ~(old.stamp > 0 /\ stamp > 0 /\ stamp < old.stamp)
  /\ old.source = "stream" /\ source = "snapshot" => stamp > old.stamp

Accepts(m, r, source) ==
  status[m][r.device] # NoStatus =>
    ShouldAcceptStatusUpdate(status[m][r.device], source, Stamp(r, source))

-----------------------------------------------------------------------------
(* updateStatus on the cache of map m, one critical section.                *)

\* Mutant: the previous node is recorded for every accepted status.
TrackNodeMutant(m, r) ==
  IF r.node = NoNode
    THEN UNCHANGED <<lastNode, prevNode>>
    ELSE /\ prevNode' = [prevNode EXCEPT ![m][r.device] = lastNode[m][r.device]]
         /\ lastNode' = [lastNode EXCEPT ![m][r.device] = r.node]

\* The node the vehicle is on and the one it was on before.
TrackNode(m, r) ==
  IF r.node = NoNode \/ lastNode[m][r.device] = r.node
    THEN UNCHANGED <<lastNode, prevNode>>
    ELSE /\ prevNode' = [prevNode EXCEPT ![m][r.device] = lastNode[m][r.device]]
         /\ lastNode' = [lastNode EXCEPT ![m][r.device] = r.node]

Store(m, r, source) ==
  /\ status' = [status EXCEPT ![m][r.device] =
                  [node |-> r.node, stamp |-> Stamp(r, source), source |-> source]]
  /\ TrackNode(m, r)

\* Of two offers the later one is better, and of one second the stream's.  An offer
\* without a time compares with none: NoTime from then on.
Better(e, f) ==
  \/ e.time < f.time
  \/ e.time = f.time /\ f.source = "stream"

Offered(m, r, source) ==
  LET f == [time |-> r.time, source |-> source]
      e == freshest[m][r.device]
  IN  freshest' = [freshest EXCEPT ![m][r.device] =
                     IF e = NoTime \/ r.time = 0 THEN NoTime
                     ELSE IF e = NoStatus \/ Better(e, f) THEN f ELSE e]

UpdateStatus(m, r, source) ==
  /\ Offered(m, r, source)
  /\ IF Accepts(m, r, source)
       THEN Store(m, r, source)
       ELSE UNCHANGED <<status, lastNode, prevNode>>

-----------------------------------------------------------------------------
(* The receiver: one stream report.                                         *)

SingleReadyMap == IF Cardinality(ReadyMaps) = 1 THEN CHOOSE m \in ReadyMaps : TRUE ELSE NoMap

\* infer_status_map_id: the reported map, else the one the vehicle is on, else the only one.
InferMap(r) ==
  IF r.map # NoMap THEN r.map
  ELSE IF deviceMap[r.device] # NoMap THEN deviceMap[r.device]
  ELSE SingleReadyMap

\* Mutant: a vehicle without a map is taken for one that leaves a map.
MoveMutant(r) ==
  /\ pc = "idle"
  /\ InferMap(r) # NoMap
  /\ report' = [r EXCEPT !.map = InferMap(r)]
  /\ deviceMap' = [deviceMap EXCEPT ![r.device] = InferMap(r)]
  /\ IF deviceMap[r.device] = InferMap(r)
       THEN pc' = "update" /\ UNCHANGED leaving
       ELSE pc' = "forget" /\ leaving' = deviceMap[r.device]
  /\ UNCHANGED <<status, lastNode, prevNode, pending, freshest>>

\* moveDeviceToContext, under the register's lock; a report without a map is skipped.
Move(r) ==
  /\ pc = "idle"
  /\ InferMap(r) # NoMap
  /\ report' = [r EXCEPT !.map = InferMap(r)]
  /\ deviceMap' = [deviceMap EXCEPT ![r.device] = InferMap(r)]
  /\ IF deviceMap[r.device] \in {NoMap, InferMap(r)}
       THEN pc' = "update" /\ UNCHANGED leaving
       ELSE pc' = "forget" /\ leaving' = deviceMap[r.device]
  /\ UNCHANGED <<status, lastNode, prevNode, pending, freshest>>

\* Mutant: only the vehicle's node history is erased.
ForgetMutant ==
  /\ pc = "forget"
  /\ pc' = "update"
  /\ leaving' = NoMap
  /\ lastNode' = [lastNode EXCEPT ![leaving][report.device] = NoNode]
  /\ prevNode' = [prevNode EXCEPT ![leaving][report.device] = NoNode]
  /\ UNCHANGED <<deviceMap, report, status, pending, freshest>>

\* removeDevice on the cache of the map the vehicle has left, after the lock.
Forget ==
  /\ pc = "forget"
  /\ pc' = "update"
  /\ leaving' = NoMap
  /\ status' = [status EXCEPT ![leaving][report.device] = NoStatus]
  /\ lastNode' = [lastNode EXCEPT ![leaving][report.device] = NoNode]
  /\ prevNode' = [prevNode EXCEPT ![leaving][report.device] = NoNode]
  /\ freshest' = [freshest EXCEPT ![leaving][report.device] = NoStatus]
  /\ UNCHANGED <<deviceMap, report, pending>>

StreamUpdate ==
  /\ pc = "update"
  /\ pc' = "steer"
  /\ UpdateStatus(report.map, report, "stream")
  /\ UNCHANGED <<deviceMap, report, leaving, pending>>

\* The rest of the handler works with the report, stored or refused: targets reached
\* and the reserved window are brought to the reported node.
Steer ==
  /\ pc = "steer"
  /\ pc' = "idle"
  /\ report' = NoReport
  /\ UNCHANGED <<deviceMap, status, lastNode, prevNode, leaving, pending, freshest>>

-----------------------------------------------------------------------------
(* Statuses that come along with a scheduling request.                      *)

\* filter_agv_status_list_for_map, by the receiver, when the request arrives.
SplitSnapshot(r) ==
  /\ pc = "idle"
  /\ InferMap(r) # NoMap
  /\ Cardinality(pending) < MaxPending
  /\ pending' = pending \cup {[r EXCEPT !.map = InferMap(r)]}
  /\ UNCHANGED <<deviceMap, status, lastNode, prevNode, pc, report, leaving, freshest>>

\* cache_agv_status_list, by the worker, when it comes to the request.
CacheSnapshot(p) ==
  /\ p \in pending
  /\ pending' = pending \ {p}
  /\ UpdateStatus(p.map, p, "snapshot")
  /\ UNCHANGED <<deviceMap, pc, report, leaving>>

\* The request was replaced by a newer one, refused or dropped.
DropSnapshot(p) ==
  /\ p \in pending
  /\ pending' = pending \ {p}
  /\ UNCHANGED <<deviceMap, status, lastNode, prevNode, pc, report, leaving, freshest>>

-----------------------------------------------------------------------------

Init ==
  /\ deviceMap = [d \in Device |-> NoMap]
  /\ status = [m \in Map |-> [d \in Device |-> NoStatus]]
  /\ lastNode = [m \in Map |-> [d \in Device |-> NoNode]]
  /\ prevNode = [m \in Map |-> [d \in Device |-> NoNode]]
  /\ pc = "idle"
  /\ report = NoReport
  /\ leaving = NoMap
  /\ pending = {}
  /\ freshest = [m \in Map |-> [d \in Device |-> NoStatus]]

Next ==
  \/ \E r \in Report : Move(r) \/ SplitSnapshot(r)
  \/ Forget \/ StreamUpdate \/ Steer
  \/ \E p \in pending : CacheSnapshot(p) \/ DropSnapshot(p)

Spec == Init /\ [][Next]_vars

-----------------------------------------------------------------------------
(* Properties.                                                              *)

\* Type invariant of the caches, the register and the two threads.
TypeOK ==
  /\ deviceMap \in [Device -> Map \cup {NoMap}]
  /\ status \in [Map -> [Device -> Status \cup {NoStatus}]]
  /\ lastNode \in [Map -> [Device -> Node \cup {NoNode}]]
  /\ prevNode \in [Map -> [Device -> Node \cup {NoNode}]]
  /\ pc \in {"idle", "forget", "update", "steer"}
  /\ IF pc = "idle" THEN report = NoReport ELSE report \in MappedReport
  /\ IF pc = "forget" THEN leaving \in Map ELSE leaving = NoMap
  /\ pending \in SUBSET MappedReport
  /\ freshest \in [Map -> [Device -> Offer \cup {NoStatus, NoTime}]]

\* The arbitration makes the cache independent of the order in which reports come: as
\* long as all of them carry a time, in whichever unit, the cache holds one of the
\* newest offered to it, and one of the stream if there is any among the newest.
CacheIsFreshest ==
  \A m \in Map, d \in Device :
    freshest[m][d] \in Offer =>
      /\ status[m][d] # NoStatus
      /\ status[m][d].stamp = freshest[m][d].time
      /\ status[m][d].source = freshest[m][d].source

\* A status of the stream is only ever cached for the map its vehicle is registered on
\* or is being moved away from: what a move can leave behind are snapshots of requests
\* sorted before it.
StreamLivesAtHome ==
  \A m \in Map, d \in Device :
    status[m][d] # NoStatus /\ status[m][d].source = "stream" =>
      \/ deviceMap[d] = m
      \/ pc = "forget" /\ report.device = d /\ leaving = m

\* The node history follows the cached statuses: the last node is the cached one's, and
\* the previous one is a different node, so it tells where the vehicle came from.
NodeHistory ==
  \A m \in Map, d \in Device :
    /\ status[m][d] # NoStatus /\ status[m][d].node # NoNode => lastNode[m][d] = status[m][d].node
    /\ prevNode[m][d] # NoNode => prevNode[m][d] # lastNode[m][d]

=============================================================================
