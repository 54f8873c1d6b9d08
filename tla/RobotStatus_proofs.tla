-------------------------- MODULE RobotStatus_proofs --------------------------
(***************************************************************************)
(* Proofs about RobotStatus for any vehicles, maps, nodes, times and       *)
(* number of requests under way.                                           *)
(***************************************************************************)
EXTENDS RobotStatus, FiniteSetTheorems, TLAPS

\* A vehicle has made an offer to a cache exactly when the cache has its status.
OfferedInv ==
  \A m \in Map, d \in Device : freshest[m][d] = NoStatus <=> status[m][d] = NoStatus

\* While the receiver handles a report, its vehicle is registered on the report's map.
HandlingInv ==
  pc # "idle" => deviceMap[report.device] = report.map /\ leaving # report.map

\* The previous node is known only when the last one is.
HistoryInv ==
  \A m \in Map, d \in Device : lastNode[m][d] = NoNode => prevNode[m][d] = NoNode

\* The inductive invariant.
IInv ==
  /\ TypeOK /\ OfferedInv /\ HandlingInv /\ HistoryInv
  /\ CacheIsFreshest /\ StreamLivesAtHome /\ NodeHistory

-----------------------------------------------------------------------------
(* Time stamps.                                                             *)

\* A stamp in the small unit divides back to its time.
LEMMA DivideBack ==
  ASSUME NEW t \in Nat, NEW k \in Nat \ {0}
  PROVE  (t * k) \div k = t
  OBVIOUS

\* Whatever the unit of its source, a time is stored as the second it stands for.
LEMMA StampIsTime ==
  ASSUME NEW r, r.time \in Time, NEW source \in Source
  PROVE  Stamp(r, source) = r.time
<1> DEFINE t == r.time
<1> USE StatusAssumption
<1>1. CASE t = 0
  <2>1. RawStamp(r, source) = 0
    BY <1>1 DEF RawStamp
  <2> QED BY <2>1, <1>1 DEF Stamp, NormalizeEpochSeconds
<1>2. CASE t # 0
  <2>1. t \in Nat /\ t <= MaxSec /\ t <= MsBoundary /\ t * MsPerSec > MsBoundary
    BY <1>2
  <2>2. CASE Unit[source] = "ms"
    <3>1. RawStamp(r, source) = t * MsPerSec
      BY <2>2 DEF RawStamp
    <3>2. (t * MsPerSec) \div MsPerSec = t
      BY <2>1, DivideBack
    <3> QED BY <2>1, <3>1, <3>2 DEF Stamp, NormalizeEpochSeconds
  <2>3. CASE Unit[source] # "ms"
    <3>1. RawStamp(r, source) = t
      BY <2>3 DEF RawStamp
    <3> QED BY <2>1, <3>1 DEF Stamp, NormalizeEpochSeconds
  <2> QED BY <2>2, <2>3
<1> QED BY <1>1, <1>2

-----------------------------------------------------------------------------
(* One update of a cache, from either thread.                               *)

\* What an update may assume of the cache, and keeps.
CacheInv == OfferedInv /\ HistoryInv /\ CacheIsFreshest /\ NodeHistory

\* updateStatus keeps the types of the caches.
LEMMA UpdateTypes ==
  ASSUME TypeOK, NEW m \in Map, NEW r \in MappedReport, NEW source \in Source,
         UpdateStatus(m, r, source)
  PROVE  /\ status' \in [Map -> [Device -> Status \cup {NoStatus}]]
         /\ lastNode' \in [Map -> [Device -> Node \cup {NoNode}]]
         /\ prevNode' \in [Map -> [Device -> Node \cup {NoNode}]]
         /\ freshest' \in [Map -> [Device -> Offer \cup {NoStatus, NoTime}]]
<1> USE StatusAssumption DEF TypeOK, MappedReport
<1>1. Stamp(r, source) = r.time /\ r.time \in Nat
  BY StampIsTime
<1>2. r.time # 0 => [time |-> r.time, source |-> source] \in Offer
  BY DEF Offer
<1>3. freshest' \in [Map -> [Device -> Offer \cup {NoStatus, NoTime}]]
  BY <1>2 DEF UpdateStatus, Offered
<1>4. CASE Accepts(m, r, source)
  <2>1. Store(m, r, source)
    BY <1>4 DEF UpdateStatus
  <2>2. [node |-> r.node, stamp |-> Stamp(r, source), source |-> source] \in Status
    BY <1>1 DEF Status
  <2>3. status' \in [Map -> [Device -> Status \cup {NoStatus}]]
    BY <2>1, <2>2 DEF Store
  <2>4. /\ lastNode' \in [Map -> [Device -> Node \cup {NoNode}]]
        /\ prevNode' \in [Map -> [Device -> Node \cup {NoNode}]]
    <3>1. TrackNode(m, r)
      BY <2>1 DEF Store
    <3>2. CASE r.node = NoNode \/ lastNode[m][r.device] = r.node
      BY <3>1, <3>2 DEF TrackNode
    <3>3. CASE ~(r.node = NoNode \/ lastNode[m][r.device] = r.node)
      <4>1. /\ prevNode' = [prevNode EXCEPT ![m][r.device] = lastNode[m][r.device]]
            /\ lastNode' = [lastNode EXCEPT ![m][r.device] = r.node]
        BY <3>1, <3>3 DEF TrackNode
      <4>2. r.device \in Device /\ r.node \in Node
        BY <3>3
      <4>3. lastNode[m][r.device] \in Node \cup {NoNode}
        BY <4>2
      <4> QED BY <4>1, <4>2, <4>3
    <3> QED BY <3>2, <3>3
  <2> QED BY <1>3, <2>3, <2>4
<1>5. CASE ~Accepts(m, r, source)
  BY <1>3, <1>5 DEF UpdateStatus
<1> QED BY <1>4, <1>5

\* An update leaves the other vehicles and the other maps alone.
LEMMA UpdateElsewhere ==
  ASSUME TypeOK, NEW m \in Map, NEW r \in MappedReport, NEW source \in Source,
         UpdateStatus(m, r, source),
         NEW k \in Map, NEW d \in Device, k # m \/ d # r.device
  PROVE  /\ status'[k][d] = status[k][d]
         /\ lastNode'[k][d] = lastNode[k][d]
         /\ prevNode'[k][d] = prevNode[k][d]
         /\ freshest'[k][d] = freshest[k][d]
  BY DEF TypeOK, MappedReport, UpdateStatus, Offered, Store, TrackNode

\* What an update does to the offers and the status of its own vehicle.
LEMMA UpdateFreshest ==
  ASSUME IInv, NEW m \in Map, NEW r \in MappedReport, NEW source \in Source,
         UpdateStatus(m, r, source)
  PROVE  LET d == r.device IN
         /\ freshest'[m][d] # NoStatus
         /\ status'[m][d] # NoStatus
         /\ freshest'[m][d] \in Offer =>
              /\ status'[m][d].stamp = freshest'[m][d].time
              /\ status'[m][d].source = freshest'[m][d].source
<1> DEFINE d == r.device
           f == [time |-> r.time, source |-> source]
           e == freshest[m][d]
           old == status[m][d]
           new == [node |-> r.node, stamp |-> Stamp(r, source), source |-> source]
<1> USE StatusAssumption
<1>1. d \in Device /\ r.time \in Nat /\ Stamp(r, source) = r.time
  BY StampIsTime DEF MappedReport
<1>2. /\ old \in Status \cup {NoStatus}
      /\ e \in Offer \cup {NoStatus, NoTime}
      /\ e = NoStatus <=> old = NoStatus
      /\ e \in Offer => old.stamp = e.time /\ old.source = e.source
  BY <1>1 DEF IInv, TypeOK, OfferedInv, CacheIsFreshest
<1>3. freshest'[m][d] = IF e = NoTime \/ r.time = 0 THEN NoTime
                        ELSE IF e = NoStatus \/ Better(e, f) THEN f ELSE e
  BY <1>1 DEF UpdateStatus, Offered, IInv, TypeOK
<1>4. status'[m][d] = IF Accepts(m, r, source) THEN new ELSE old
  BY <1>1 DEF UpdateStatus, Store, IInv, TypeOK
<1>5. r.time # 0 => f \in Offer
  BY DEF Offer, MappedReport
<1>6. new \in Status /\ new # NoStatus
  BY <1>1 DEF Status, MappedReport
<1>7. old = NoStatus => Accepts(m, r, source)
  BY DEF Accepts
<1>8. freshest'[m][d] # NoStatus
  BY <1>2, <1>3, <1>5
<1>9. status'[m][d] # NoStatus
  BY <1>4, <1>6, <1>7
<1>10. ASSUME freshest'[m][d] \in Offer
       PROVE  /\ status'[m][d].stamp = freshest'[m][d].time
              /\ status'[m][d].source = freshest'[m][d].source
  <2>1. e # NoTime /\ r.time # 0
    BY <1>3, <1>10
  <2>2. CASE e = NoStatus
    BY <1>1, <1>2, <1>3, <1>4, <1>7, <2>1, <2>2
  <2>3. CASE e # NoStatus
    <3>1. /\ e \in Offer /\ old # NoStatus
          /\ e.time \in Nat \ {0} /\ e.source \in {"stream", "snapshot"}
          /\ old.stamp = e.time /\ old.source = e.source
      BY <1>2, <2>1, <2>3 DEF Offer, Source
    <3>2. Accepts(m, r, source) <=>
            /\ ~(r.time < e.time)
            /\ e.source = "stream" /\ source = "snapshot" => r.time > e.time
      BY <1>1, <2>1, <3>1 DEF Accepts, ShouldAcceptStatusUpdate
    <3>3. Better(e, f) <=> e.time < r.time \/ (e.time = r.time /\ source = "stream")
      BY DEF Better
    <3>4. CASE Better(e, f)
      <4>1. freshest'[m][d] = f /\ Accepts(m, r, source)
        BY <1>1, <1>3, <2>1, <3>1, <3>2, <3>3, <3>4
      <4> QED BY <4>1, <1>1, <1>4
    <3>5. CASE ~Better(e, f) /\ ~Accepts(m, r, source)
      BY <1>3, <1>4, <2>1, <2>3, <3>1, <3>5
    <3>6. CASE ~Better(e, f) /\ Accepts(m, r, source)
      <4>1. e.time = r.time /\ source = e.source
        BY <1>1, <3>1, <3>2, <3>3, <3>6 DEF Source
      <4> QED BY <1>1, <1>3, <1>4, <2>1, <2>3, <3>6, <4>1
    <3> QED BY <3>4, <3>5, <3>6
  <2> QED BY <2>2, <2>3
<1> QED BY <1>8, <1>9, <1>10

\* What an update does to the node history of its own vehicle.
LEMMA UpdateHistory ==
  ASSUME IInv, NEW m \in Map, NEW r \in MappedReport, NEW source \in Source,
         UpdateStatus(m, r, source)
  PROVE  LET d == r.device IN
         /\ status'[m][d] # NoStatus /\ status'[m][d].node # NoNode =>
              lastNode'[m][d] = status'[m][d].node
         /\ prevNode'[m][d] # NoNode => prevNode'[m][d] # lastNode'[m][d]
         /\ lastNode'[m][d] = NoNode => prevNode'[m][d] = NoNode
<1> DEFINE d == r.device
<1> USE StatusAssumption
<1>1. d \in Device
  BY DEF MappedReport
<1>2. /\ status[m][d] # NoStatus /\ status[m][d].node # NoNode =>
           lastNode[m][d] = status[m][d].node
      /\ prevNode[m][d] # NoNode => prevNode[m][d] # lastNode[m][d]
      /\ lastNode[m][d] = NoNode => prevNode[m][d] = NoNode
  BY <1>1 DEF IInv, NodeHistory, HistoryInv
<1>3. CASE ~Accepts(m, r, source)
  BY <1>2, <1>3 DEF UpdateStatus
<1>4. CASE Accepts(m, r, source)
  <2>1. status'[m][d].node = r.node
    BY <1>1, <1>4 DEF UpdateStatus, Store, IInv, TypeOK
  <2>2. TrackNode(m, r)
    BY <1>4 DEF UpdateStatus, Store
  <2>3. CASE r.node = NoNode \/ lastNode[m][d] = r.node
    BY <1>2, <2>1, <2>2, <2>3 DEF TrackNode
  <2>4. CASE ~(r.node = NoNode \/ lastNode[m][d] = r.node)
    <3>1. lastNode'[m][d] = r.node /\ prevNode'[m][d] = lastNode[m][d]
      BY <1>1, <2>2, <2>4 DEF TrackNode, IInv, TypeOK
    <3> QED BY <2>1, <2>4, <3>1
  <2> QED BY <2>3, <2>4
<1> QED BY <1>3, <1>4

\* An update keeps what it may assume of the caches.
LEMMA UpdateKeepsCaches ==
  ASSUME IInv, NEW m \in Map, NEW r \in MappedReport, NEW source \in Source,
         UpdateStatus(m, r, source)
  PROVE  CacheInv'
<1> USE StatusAssumption
<1>1. r.device \in Device /\ TypeOK
  BY DEF MappedReport, IInv
<1>2. ASSUME NEW k \in Map, NEW d \in Device
      PROVE  /\ freshest'[k][d] = NoStatus <=> status'[k][d] = NoStatus
             /\ lastNode'[k][d] = NoNode => prevNode'[k][d] = NoNode
             /\ freshest'[k][d] \in Offer =>
                  /\ status'[k][d] # NoStatus
                  /\ status'[k][d].stamp = freshest'[k][d].time
                  /\ status'[k][d].source = freshest'[k][d].source
             /\ status'[k][d] # NoStatus /\ status'[k][d].node # NoNode =>
                  lastNode'[k][d] = status'[k][d].node
             /\ prevNode'[k][d] # NoNode => prevNode'[k][d] # lastNode'[k][d]
  <2>1. CASE k = m /\ d = r.device
    BY <2>1, UpdateFreshest, UpdateHistory
  <2>2. CASE k # m \/ d # r.device
    <3>1. /\ status'[k][d] = status[k][d] /\ lastNode'[k][d] = lastNode[k][d]
          /\ prevNode'[k][d] = prevNode[k][d] /\ freshest'[k][d] = freshest[k][d]
      BY <1>1, <2>2, UpdateElsewhere
    <3> QED BY <3>1 DEF IInv, OfferedInv, HistoryInv, CacheIsFreshest, NodeHistory
  <2> QED BY <2>1, <2>2
<1> QED BY <1>2 DEF CacheInv, OfferedInv, HistoryInv, CacheIsFreshest, NodeHistory

\* A status of the stream stays where its vehicle is registered.
LEMMA UpdateAtHome ==
  ASSUME IInv, NEW m \in Map, NEW r \in MappedReport, NEW source \in Source,
         UpdateStatus(m, r, source), source = "stream" => deviceMap[r.device] = m,
         pc # "forget", UNCHANGED deviceMap, pc' # "forget"
  PROVE  StreamLivesAtHome'
<1> USE StatusAssumption
<1>1. SUFFICES ASSUME NEW k \in Map, NEW d \in Device,
                      status'[k][d] # NoStatus, status'[k][d].source = "stream"
               PROVE  deviceMap[d] = k
  BY DEF StreamLivesAtHome
<1>2. CASE status'[k][d] = status[k][d]
  BY <1>1, <1>2 DEF IInv, StreamLivesAtHome
<1>3. CASE status'[k][d] # status[k][d]
  <2>1. k = m /\ d = r.device
    BY <1>3, UpdateElsewhere DEF IInv
  <2>2. Accepts(m, r, source)
    BY <1>3 DEF UpdateStatus
  <2>3. status'[k][d].source = source
    BY <2>1, <2>2 DEF UpdateStatus, Store, IInv, TypeOK
  <2> QED BY <1>1, <2>1, <2>3
<1> QED BY <1>2, <1>3

-----------------------------------------------------------------------------

\* The inductive invariant holds at first.
LEMMA InitIInv == Init => IInv
<1> SUFFICES ASSUME Init PROVE IInv
  OBVIOUS
<1> USE StatusAssumption DEF Init
<1>1. TypeOK
  BY DEF TypeOK
<1>2. OfferedInv /\ HandlingInv /\ HistoryInv /\ StreamLivesAtHome /\ NodeHistory
  BY DEF OfferedInv, HandlingInv, HistoryInv, StreamLivesAtHome, NodeHistory
<1>3. CacheIsFreshest
  BY DEF CacheIsFreshest
<1> QED BY <1>1, <1>2, <1>3 DEF IInv

\* The map a report is taken for is a map, unless there is none.
LEMMA InferMapType ==
  ASSUME TypeOK, NEW r \in Report, InferMap(r) # NoMap
  PROVE  /\ InferMap(r) \in Map
         /\ [r EXCEPT !.map = InferMap(r)] \in MappedReport
         /\ [r EXCEPT !.map = InferMap(r)].device = r.device
         /\ [r EXCEPT !.map = InferMap(r)].map = InferMap(r)
<1>1. SingleReadyMap \in ReadyMaps \cup {NoMap}
  <2>1. CASE ReadyMaps = {}
    <3>1. Cardinality(ReadyMaps) = 0
      BY <2>1, FS_EmptySet
    <3> QED BY <3>1 DEF SingleReadyMap
  <2>2. CASE ReadyMaps # {}
    BY <2>2 DEF SingleReadyMap
  <2> QED BY <2>1, <2>2
<1>2. InferMap(r) \in Map
  BY <1>1, StatusAssumption DEF InferMap, Report, TypeOK
<1> QED BY <1>2 DEF Report, MappedReport

\* Moving a vehicle to the map of its report keeps the invariant.
LEMMA MoveKeeps == ASSUME IInv, NEW r \in Report, Move(r) PROVE IInv'
<1> DEFINE q == [r EXCEPT !.map = InferMap(r)]
<1> USE StatusAssumption DEF IInv
<1>1. /\ InferMap(r) \in Map /\ q \in MappedReport
      /\ q.device = r.device /\ q.map = InferMap(r) /\ r.device \in Device
  BY InferMapType DEF Move, Report
<1>2. TypeOK'
  BY <1>1 DEF Move, TypeOK
<1>3. HandlingInv'
  BY <1>1 DEF Move, TypeOK, HandlingInv
<1>4. StreamLivesAtHome'
  <2>1. SUFFICES ASSUME NEW m \in Map, NEW d \in Device,
                        status[m][d] # NoStatus, status[m][d].source = "stream"
                 PROVE  \/ deviceMap'[d] = m
                        \/ pc' = "forget" /\ report'.device = d /\ leaving' = m
    BY DEF Move, StreamLivesAtHome
  <2>2. deviceMap[d] = m
    BY <2>1 DEF Move, StreamLivesAtHome
  <2>3. CASE d # r.device
    BY <2>2, <2>3 DEF Move, TypeOK
  <2>4. CASE d = r.device
    BY <1>1, <2>2, <2>4 DEF Move, TypeOK
  <2> QED BY <2>3, <2>4
<1>5. OfferedInv' /\ HistoryInv' /\ CacheIsFreshest' /\ NodeHistory'
  BY DEF Move, OfferedInv, HistoryInv, CacheIsFreshest, NodeHistory
<1> QED BY <1>2, <1>3, <1>4, <1>5

\* removeDevice on the map that was left keeps the invariant.
LEMMA ForgetKeeps == ASSUME IInv, Forget PROVE IInv'
<1> USE StatusAssumption DEF IInv
<1>1. /\ leaving \in Map /\ report \in MappedReport /\ report.device \in Device
      /\ leaving # report.map /\ deviceMap[report.device] = report.map
  BY DEF Forget, TypeOK, HandlingInv, MappedReport
<1>2. TypeOK'
  BY <1>1 DEF Forget, TypeOK
<1>3. HandlingInv'
  BY <1>1 DEF Forget, HandlingInv, MappedReport
<1>4. ASSUME NEW m \in Map, NEW d \in Device
      PROVE  IF m = leaving /\ d = report.device
               THEN /\ status'[m][d] = NoStatus /\ freshest'[m][d] = NoStatus
                    /\ lastNode'[m][d] = NoNode /\ prevNode'[m][d] = NoNode
               ELSE /\ status'[m][d] = status[m][d] /\ freshest'[m][d] = freshest[m][d]
                    /\ lastNode'[m][d] = lastNode[m][d] /\ prevNode'[m][d] = prevNode[m][d]
  BY <1>1 DEF Forget, TypeOK
<1>5. StreamLivesAtHome'
  <2>1. SUFFICES ASSUME NEW m \in Map, NEW d \in Device,
                        status'[m][d] # NoStatus, status'[m][d].source = "stream"
                 PROVE  deviceMap'[d] = m
    BY DEF StreamLivesAtHome
  <2>2. ~(m = leaving /\ d = report.device) /\ status'[m][d] = status[m][d]
    BY <1>4, <2>1
  <2> QED BY <2>1, <2>2 DEF Forget, StreamLivesAtHome
<1>6. OfferedInv' /\ HistoryInv' /\ NodeHistory'
  BY <1>4 DEF OfferedInv, HistoryInv, NodeHistory
<1>7. CacheIsFreshest'
  BY <1>4 DEF CacheIsFreshest
<1> QED BY <1>2, <1>3, <1>5, <1>6, <1>7

\* Caching a stream report keeps the invariant.
LEMMA StreamUpdateKeeps == ASSUME IInv, StreamUpdate PROVE IInv'
<1> USE StatusAssumption
<1>1. /\ report \in MappedReport /\ report.map \in Map
      /\ deviceMap[report.device] = report.map
  BY DEF StreamUpdate, IInv, TypeOK, HandlingInv, MappedReport
<1>2. UpdateStatus(report.map, report, "stream") /\ "stream" \in Source
  BY DEF StreamUpdate, Source
<1>3. TypeOK'
  <2>1. /\ status' \in [Map -> [Device -> Status \cup {NoStatus}]]
        /\ lastNode' \in [Map -> [Device -> Node \cup {NoNode}]]
        /\ prevNode' \in [Map -> [Device -> Node \cup {NoNode}]]
        /\ freshest' \in [Map -> [Device -> Offer \cup {NoStatus, NoTime}]]
    BY <1>1, <1>2, UpdateTypes DEF IInv
  <2> QED BY <1>1, <2>1 DEF IInv, TypeOK, StreamUpdate
<1>4. CacheInv'
  BY <1>1, <1>2, UpdateKeepsCaches
<1>5. StreamLivesAtHome'
  BY <1>1, <1>2, UpdateAtHome DEF StreamUpdate
<1>6. HandlingInv'
  BY DEF StreamUpdate, IInv, HandlingInv
<1> QED BY <1>3, <1>4, <1>5, <1>6 DEF IInv, CacheInv

\* Caching the snapshot of a request keeps the invariant.
LEMMA CacheSnapshotKeeps ==
  ASSUME IInv, NEW p \in pending, CacheSnapshot(p)
  PROVE  IInv'
<1> USE StatusAssumption
<1>1. p \in MappedReport /\ p.map \in Map
  BY DEF IInv, TypeOK, MappedReport
<1>2. UpdateStatus(p.map, p, "snapshot") /\ "snapshot" \in Source
  BY DEF CacheSnapshot, Source
<1>3. TypeOK'
  <2>1. /\ status' \in [Map -> [Device -> Status \cup {NoStatus}]]
        /\ lastNode' \in [Map -> [Device -> Node \cup {NoNode}]]
        /\ prevNode' \in [Map -> [Device -> Node \cup {NoNode}]]
        /\ freshest' \in [Map -> [Device -> Offer \cup {NoStatus, NoTime}]]
    BY <1>1, <1>2, UpdateTypes DEF IInv
  <2> QED BY <2>1 DEF IInv, TypeOK, CacheSnapshot
<1>4. CacheInv'
  BY <1>1, <1>2, UpdateKeepsCaches
<1>5. StreamLivesAtHome'
  <2>1. SUFFICES ASSUME NEW k \in Map, NEW d \in Device,
                        status'[k][d] # NoStatus, status'[k][d].source = "stream"
                 PROVE  status'[k][d] = status[k][d]
    BY DEF CacheSnapshot, IInv, StreamLivesAtHome
  <2>2. SUFFICES ASSUME status'[k][d] # status[k][d] PROVE FALSE
    OBVIOUS
  <2>3. k = p.map /\ d = p.device
    BY <1>1, <1>2, <2>2, UpdateElsewhere DEF IInv
  <2>4. Accepts(p.map, p, "snapshot")
    BY <1>2, <2>2 DEF UpdateStatus
  <2>5. status'[k][d].source = "snapshot"
    BY <1>2, <2>3, <2>4 DEF UpdateStatus, Store, IInv, TypeOK
  <2> QED BY <2>1, <2>5
<1>6. HandlingInv'
  BY DEF CacheSnapshot, IInv, HandlingInv
<1> QED BY <1>3, <1>4, <1>5, <1>6 DEF IInv, CacheInv

\* The steps that touch no cache.
LEMMA QuietKeeps ==
  ASSUME IInv,
         \/ Steer
         \/ \E r \in Report : SplitSnapshot(r)
         \/ \E p \in pending : DropSnapshot(p)
         \/ UNCHANGED vars
  PROVE  IInv'
<1> USE StatusAssumption DEF IInv
<1>1. TypeOK'
  <2>1. CASE Steer
    BY <2>1 DEF Steer, TypeOK
  <2>2. ASSUME NEW r \in Report, SplitSnapshot(r) PROVE TypeOK'
    <3>1. [r EXCEPT !.map = InferMap(r)] \in MappedReport
      BY <2>2, InferMapType DEF SplitSnapshot
    <3> QED BY <2>2, <3>1 DEF SplitSnapshot, TypeOK
  <2>3. ASSUME NEW p \in pending, DropSnapshot(p) PROVE TypeOK'
    BY <2>3 DEF DropSnapshot, TypeOK
  <2>4. CASE UNCHANGED vars
    BY <2>4 DEF vars, TypeOK
  <2> QED BY <2>1, <2>2, <2>3, <2>4
<1>2. UNCHANGED <<deviceMap, status, lastNode, prevNode, freshest>>
  BY DEF Steer, SplitSnapshot, DropSnapshot, vars
<1>3. HandlingInv'
  BY DEF Steer, SplitSnapshot, DropSnapshot, vars, HandlingInv
<1>4. StreamLivesAtHome'
  BY <1>2 DEF Steer, SplitSnapshot, DropSnapshot, vars, StreamLivesAtHome
<1>5. OfferedInv' /\ HistoryInv' /\ CacheIsFreshest' /\ NodeHistory'
  BY <1>2 DEF OfferedInv, HistoryInv, CacheIsFreshest, NodeHistory
<1> QED BY <1>1, <1>3, <1>4, <1>5

\* The inductive invariant holds in every reachable state.
LEMMA Invariance == Spec => []IInv
<1>1. IInv /\ [Next]_vars => IInv'
  BY MoveKeeps, ForgetKeeps, StreamUpdateKeeps, CacheSnapshotKeeps, QuietKeeps DEF Next
<1> QED BY InitIInv, <1>1, PTL DEF Spec

\* The caches, the register and the threads have their types in every state.
THEOREM TypeCorrect == Spec => []TypeOK
  BY Invariance, PTL DEF IInv

\* Whatever the order, the delay and the duplication of reports, a cache holds the best
\* of the reports offered to it, as long as they carry time stamps.
THEOREM FreshestIsCached == Spec => []CacheIsFreshest
  BY Invariance, PTL DEF IInv

\* No stream status stays behind on a map its vehicle has left.
THEOREM StreamIsAtHome == Spec => []StreamLivesAtHome
  BY Invariance, PTL DEF IInv

\* The node history agrees with the cached status and never repeats a node.
THEOREM HistoryIsConsistent == Spec => []NodeHistory
  BY Invariance, PTL DEF IInv

=============================================================================
