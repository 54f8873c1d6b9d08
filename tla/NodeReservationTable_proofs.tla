-------------------- MODULE NodeReservationTable_proofs --------------------
(***************************************************************************)
(* Proofs about the conflict groups (they contain their node, they are     *)
(* symmetric, and the grid search finds every node within the threshold)   *)
(* and about NodeReservationTable, for any number of nodes, AGVs, threads, *)
(* shards and maps.                                                        *)
(***************************************************************************)
EXTENDS NodeReservationTable, TLAPS, NumberSets

-----------------------------------------------------------------------------
(* The conflict groups.                                                     *)

\* A square is not negative.
LEMMA SquareNonNegative == \A v \in Int : Square(v) \in Nat
  BY SMT DEF Square

\* The square of a difference has no direction.
LEMMA SquareSymmetric == \A v, w \in Int : Square(v - w) = Square(w - v)
  BY SMT DEF Square

\* A node of a map conflicts with itself, and every conflict is with a node.
LEMMA ConflictIdsType ==
  ASSUME NEW m \in Map, NEW n \in Node
  PROVE  n \in ConflictIds(m, n) /\ ConflictIds(m, n) \subseteq Node
  BY MapAssumption DEF ConflictIds, NearbyNodeIds, MapNodes, MapAssumption

\* Cells have whole coordinates.
LEMMA CellCoordInt == ASSUME Threshold > 0 PROVE \A v \in Int : CellCoord(v) \in Int
  BY MapAssumption, SMT DEF CellCoord, MapAssumption

\* If a's group has b then b's group has a (configureDistanceConflict builds each
\* node's group on its own): a check made from either side sees the same conflict.
THEOREM ConflictSymmetric ==
  ASSUME NEW m \in Map, NEW a \in Node, NEW b \in Node, b \in ConflictIds(m, a)
  PROVE  a \in ConflictIds(m, b)
<1>1. CASE b = a
  BY <1>1
<1>2. CASE b # a
  <2>1. /\ a \in MapNodes(m) /\ b \in MapNodes(m) /\ Threshold > 0
        /\ InNearbyCell(m, a, b) /\ DistSq(m, a, b) <= Square(Threshold)
    BY <1>2 DEF ConflictIds, NearbyNodeIds
  <2> DEFINE ax == Position[m][a].x  ay == Position[m][a].y
             bx == Position[m][b].x  by == Position[m][b].y
  <2>2. ax \in Int /\ ay \in Int /\ bx \in Int /\ by \in Int
    BY <2>1, MapAssumption DEF MapAssumption, MapNodes
  <2>3. DistSq(m, a, b) = DistSq(m, b, a)
    BY <2>2, SquareSymmetric DEF DistSq
  <2>4. InNearbyCell(m, b, a)
    <3>1. /\ CellCoord(ax) \in Int /\ CellCoord(ay) \in Int
          /\ CellCoord(bx) \in Int /\ CellCoord(by) \in Int
      BY <2>1, <2>2, CellCoordInt
    <3>2. \A p, q \in Int : q - p \in -1 .. 1 => p - q \in -1 .. 1
      BY SMT
    <3>3. QED
      BY <2>1, <3>1, <3>2, Zenon DEF InNearbyCell
  <2>5. QED
    BY <2>1, <2>3, <2>4 DEF ConflictIds, NearbyNodeIds
<1>3. QED
  BY <1>1, <1>2

-----------------------------------------------------------------------------
(* The grid.                                                                *)

\* A number whose square is no larger lies no further from zero.
LEMMA SquareOrder ==
  ASSUME NEW v \in Int, NEW w \in Nat, Square(v) <= Square(w)
  PROVE  v <= w /\ -v <= w
<1>1. CASE v > w
  BY <1>1, SMT DEF Square
<1>2. CASE -v > w
  BY <1>2, SMT DEF Square
<1>3. QED
  BY <1>1, <1>2

\* Numbers within the threshold lie in the same or neighbouring cells.
LEMMA CellsAreClose ==
  ASSUME Threshold > 0, NEW x \in Int, NEW y \in Int, y - x <= Threshold, x - y <= Threshold
  PROVE  CellCoord(y) - CellCoord(x) \in -1 .. 1
<1> DEFINE T == Threshold  p == x \div T  q == y \div T
<1>1. T \in Int /\ T > 0
  BY MapAssumption DEF MapAssumption
<1>2. p \in Int /\ q \in Int /\ T * p <= x /\ x < T * p + T /\ T * q <= y /\ y < T * q + T
  BY <1>1, SMT
<1> HIDE DEF T, p, q
<1>3. ~(q >= p + 2)
  <2>1. SUFFICES ASSUME q >= p + 2 PROVE FALSE
    OBVIOUS
  <2>2. T * q >= T * p + T + T
    BY <1>1, <1>2, <2>1, SMT
  <2>3. QED
    BY <1>1, <1>2, <2>2, SMT DEF T
<1>4. ~(p >= q + 2)
  <2>1. SUFFICES ASSUME p >= q + 2 PROVE FALSE
    OBVIOUS
  <2>2. T * p >= T * q + T + T
    BY <1>1, <1>2, <2>1, SMT
  <2>3. QED
    BY <1>1, <1>2, <2>2, SMT DEF T
<1>5. QED
  BY <1>2, <1>3, <1>4, SMT DEF CellCoord, p, q, T

\* The nine cells that configureDistanceConflict searches miss no conflicting node:
\* the group of a node is exactly the nodes within the threshold.
THEOREM GridFindsAll ==
  ASSUME NEW m \in Map, NEW a \in MapNodes(m), Threshold > 0
  PROVE  NearbyNodeIds(m, a) = {a} \cup {b \in MapNodes(m) : DistSq(m, a, b) <= Square(Threshold)}
<1> SUFFICES ASSUME NEW b \in MapNodes(m), DistSq(m, a, b) <= Square(Threshold)
             PROVE  InNearbyCell(m, a, b)
  BY DEF NearbyNodeIds
<1> DEFINE ax == Position[m][a].x  ay == Position[m][a].y
           bx == Position[m][b].x  by == Position[m][b].y
<1>1. /\ ax \in Int /\ ay \in Int /\ bx \in Int /\ by \in Int
      /\ Threshold \in Nat
  BY MapAssumption DEF MapAssumption, MapNodes
<1>2. /\ Square(ax - bx) \in Nat /\ Square(ay - by) \in Nat
      /\ Square(ax - bx) + Square(ay - by) <= Square(Threshold)
      /\ Square(Threshold) \in Nat
  BY <1>1, SquareNonNegative DEF DistSq
<1>3. Square(ax - bx) <= Square(Threshold) /\ Square(ay - by) <= Square(Threshold)
  BY <1>2
<1>4. ax - bx <= Threshold /\ bx - ax <= Threshold /\ ay - by <= Threshold /\ by - ay <= Threshold
  BY <1>1, <1>3, SquareOrder
<1>5. QED
  BY <1>1, <1>4, CellsAreClose DEF InNearbyCell

-----------------------------------------------------------------------------
(* The calls and their locks.                                               *)

Inside == {"group", "lock", "check", "write", "answer"}

\* Where thread t is determines its call, the shards it has and those it still wants.
PcInvOf(t) ==
  /\ pc[t] = "idle" => call[t] = NoCall /\ held[t] = {}
  /\ pc[t] # "idle" => call[t] \in Call
  /\ pc[t] \in Inside => call[t].node \in Node /\ call[t].op \in {"reserve", "find"}
  /\ pc[t] \in Inside /\ call[t].op = "reserve" => call[t].owner \in Owner
  /\ pc[t] \in {"group", "erase", "sweep"} => held[t] = {}
  /\ pc[t] \in {"lock", "check", "write", "answer"} =>
       call[t].rule \in Map /\ ShardsOf(Group(t)) \subseteq held[t] \cup todo[t]
  /\ pc[t] \in {"check", "write"} => call[t].op = "reserve" /\ todo[t] = {}
  /\ pc[t] = "answer" => call[t].op = "find" /\ todo[t] = {}
  /\ pc[t] \in {"erase", "sweep"} => call[t].op \in {"release", "sweep"}
  /\ pc[t] \in Inside \cup {"erase"} => call[t].keep = {}
  /\ pc[t] = "erase" => /\ call[t].node \in Node /\ call[t].owner \in Owner
                        /\ todo[t] = {ShardOf[call[t].node]}

PcInv == \A t \in Thread : PcInvOf(t)

\* A shard that a reservation has locked is nobody else's.
LockInv ==
  \A t, u \in Thread : t # u => \A s \in held[t] : s \in held[u] => Shared(t) /\ Shared(u)

\* What the check found still holds when the hold is written.
CheckedInv ==
  \A t \in Thread : pc[t] = "write" => \A n \in Group(t) : ~HeldByOther(n, call[t].owner)

\* The time a call works with is not ahead of the clock.
BeganInv == \A t \in Thread : call[t] # NoCall => call[t].began <= clock

\* The inductive invariant.
IInv == TypeOK /\ PcInv /\ LockInv /\ CheckedInv /\ BeganInv /\ AnswerIsCurrent /\ GrantsExclusive

-----------------------------------------------------------------------------
(* Types.                                                                   *)

\* The first state has the types.
LEMMA InitTypeOK == Init => TypeOK
  BY TableAssumption DEF Init, TypeOK, Labels, Time

\* The shards of nodes are shards.
LEMMA ShardsOfType == ASSUME NEW N \in SUBSET Node PROVE ShardsOf(N) \subseteq Shard
  BY DEF ShardsOf, Shard

\* Erasing entries keeps their type.
LEMMA ErasedType ==
  ASSUME TypeOK, NEW N
  PROVE  Erased(N) \in [Node -> Hold \cup {NoHold}]
  BY DEF TypeOK, Erased

\* Starting a call keeps the types.
LEMMA StartTypeOK ==
  ASSUME TypeOK, NEW t \in Thread, Start(t)
  PROVE  TypeOK'
<1> USE TableAssumption DEF TypeOK, Enter, Labels, AllOps, Call, Shard, Time
<1>1. ASSUME NEW n \in Node, NEW o \in Owner, NEW ttl \in Ttl, TryReserve(t, n, o, ttl)
      PROVE  TypeOK'
  BY <1>1 DEF TryReserve
<1>2. ASSUME NEW n \in Node, NEW o \in Owner, Release(t, n, o)
      PROVE  TypeOK'
  BY <1>2 DEF Release
<1>3. ASSUME NEW n \in Node, NEW o \in Owner \cup {NoOwner}, FindBlockingHold(t, n, o)
      PROVE  TypeOK'
  BY <1>3 DEF FindBlockingHold
<1>4. ASSUME NEW o \in Owner \cup {NoOwner}, NEW keep \in KeepSets, ReleaseAll(t, o, keep)
      PROVE  TypeOK'
  BY <1>4 DEF ReleaseAll
<1>5. QED
  BY <1>1, <1>2, <1>3, <1>4 DEF Start

\* Going on with a call keeps the types.
LEMMA StepTypeOK ==
  ASSUME TypeOK, PcInv, NEW t \in Thread, Step(t)
  PROVE  TypeOK'
<1> USE DEF TypeOK, Return, Labels
<1>1. CASE ReadGroup(t)
  <2>1. call[t] \in Call /\ call[t].node \in Node
    BY <1>1 DEF PcInv, PcInvOf, ReadGroup, Inside
  <2>2. [call[t] EXCEPT !.rule = index] \in Call
    BY <2>1 DEF Call
  <2>3. ShardsOf(ConflictIds(index, call[t].node)) \subseteq Shard
    BY <2>1, ConflictIdsType, ShardsOfType
  <2>4. QED
    BY <1>1, <2>2, <2>3 DEF ReadGroup
<1>2. ASSUME NEW s \in Shard, LockShard(t, s) PROVE TypeOK'
  BY <1>2 DEF LockShard
<1>3. ASSUME NEW s \in Shard, EraseNode(t, s) PROVE TypeOK'
  BY <1>3, ErasedType DEF EraseNode, Visit
<1>4. ASSUME NEW s \in Shard, SweepShard(t, s) PROVE TypeOK'
  BY <1>4, ErasedType DEF SweepShard, Visit
<1>5. CASE Purge(t)
  BY <1>5, ErasedType DEF Purge
<1>6. CASE Refuse(t)
  BY <1>6 DEF Refuse
<1>7. CASE Pass(t)
  BY <1>7 DEF Pass
<1>8. CASE Write(t)
  <2>1. /\ call[t] \in Call /\ call[t].node \in Node /\ call[t].owner \in Owner
        /\ call[t].rule \in Map
    BY <1>8 DEF PcInv, PcInvOf, Write, Inside
  <2>2. entries'[call[t].node] \in Hold /\ entries' \in [Node -> Hold \cup {NoHold}]
    BY <1>8, <2>1, SMT DEF Write, Hold, Call
  <2>3. QED
    BY <1>8, <2>2 DEF Write
<1>9. CASE Look(t)
  <2>1. call[t].node \in Node /\ call[t].rule \in Map
    BY <1>9 DEF PcInv, PcInvOf, Look, Inside
  <2>2. Blocking(t) \subseteq Node
    BY <2>1, ConflictIdsType DEF Blocking, Group
  <2>3. QED
    BY <1>9, <2>2 DEF Look
<1>10. CASE Answer(t)
  BY <1>10 DEF Answer
<1>11. CASE Swept(t)
  BY <1>11 DEF Swept
<1>12. QED
  BY <1>1, <1>2, <1>3, <1>4, <1>5, <1>6, <1>7, <1>8, <1>9, <1>10, <1>11 DEF Step

\* Every step keeps the types.
LEMMA NextTypeOK == TypeOK /\ PcInv /\ [Next]_vars => TypeOK'
<1> SUFFICES ASSUME TypeOK, PcInv, [Next]_vars PROVE TypeOK'
  OBVIOUS
<1>1. ASSUME NEW m \in Map, ConfigureDistanceConflict(m) PROVE TypeOK'
  BY <1>1 DEF TypeOK, ConfigureDistanceConflict
<1>2. CASE Tick
  BY <1>2, TableAssumption DEF TypeOK, Tick, Time
<1>3. CASE UNCHANGED vars
  BY <1>3 DEF TypeOK, vars
<1>4. QED
  BY <1>1, <1>2, <1>3, StartTypeOK, StepTypeOK DEF Next

-----------------------------------------------------------------------------
(* Where threads are.                                                       *)

\* A thread's step leaves the locals of the others alone.
OthersKeep(t) ==
  \A u \in Thread \ {t} :
    /\ pc'[u] = pc[u] /\ call'[u] = call[u]
    /\ todo'[u] = todo[u] /\ held'[u] = held[u]

\* A call that begins leaves the other threads' locals alone.
LEMMA StartOthersKeep == ASSUME TypeOK, NEW t \in Thread, Start(t) PROVE OthersKeep(t)
  BY DEF TypeOK, OthersKeep, Start, TryReserve, Release, FindBlockingHold, ReleaseAll, Enter

\* A call that goes on leaves the other threads' locals alone.
LEMMA StepOthersKeep == ASSUME TypeOK, NEW t \in Thread, Step(t) PROVE OthersKeep(t)
<1> USE DEF TypeOK, OthersKeep, Return, Visit
<1>1. CASE ReadGroup(t)  BY <1>1 DEF ReadGroup
<1>2. ASSUME NEW s \in Shard, LockShard(t, s) PROVE OthersKeep(t)  BY <1>2 DEF LockShard
<1>3. ASSUME NEW s \in Shard, EraseNode(t, s) PROVE OthersKeep(t)  BY <1>3 DEF EraseNode
<1>4. ASSUME NEW s \in Shard, SweepShard(t, s) PROVE OthersKeep(t)  BY <1>4 DEF SweepShard
<1>5. CASE Purge(t)  BY <1>5 DEF Purge
<1>6. CASE Refuse(t)  BY <1>6 DEF Refuse
<1>7. CASE Pass(t)  BY <1>7 DEF Pass
<1>8. CASE Write(t)  BY <1>8 DEF Write
<1>9. CASE Look(t)  BY <1>9 DEF Look
<1>10. CASE Answer(t)  BY <1>10 DEF Answer
<1>11. CASE Swept(t)  BY <1>11 DEF Swept
<1>12. QED
  BY <1>1, <1>2, <1>3, <1>4, <1>5, <1>6, <1>7, <1>8, <1>9, <1>10, <1>11 DEF Step

\* A call that begins satisfies what its place requires.
LEMMA StartPcInv == ASSUME TypeOK, PcInv, NEW t \in Thread, Start(t) PROVE PcInvOf(t)'
<1> USE TableAssumption DEF TypeOK, PcInv, PcInvOf, Enter, Inside, Call, AllOps, Time
<1>1. ASSUME NEW n \in Node, NEW o \in Owner, NEW ttl \in Ttl, TryReserve(t, n, o, ttl)
      PROVE  PcInvOf(t)'
  BY <1>1 DEF TryReserve
<1>2. ASSUME NEW n \in Node, NEW o \in Owner, Release(t, n, o)
      PROVE  PcInvOf(t)'
  BY <1>2 DEF Release
<1>3. ASSUME NEW n \in Node, NEW o \in Owner \cup {NoOwner}, FindBlockingHold(t, n, o)
      PROVE  PcInvOf(t)'
  BY <1>3 DEF FindBlockingHold
<1>4. ASSUME NEW o \in Owner \cup {NoOwner}, NEW keep \in KeepSets, ReleaseAll(t, o, keep)
      PROVE  PcInvOf(t)'
  BY <1>4 DEF ReleaseAll
<1>5. QED
  BY <1>1, <1>2, <1>3, <1>4 DEF Start

\* A call that goes on satisfies what its next place requires.
LEMMA StepPcInv == ASSUME TypeOK, PcInv, NEW t \in Thread, Step(t) PROVE PcInvOf(t)'
<1> USE DEF TypeOK, PcInv, PcInvOf, Inside, Return, Visit
<1>1. CASE ReadGroup(t)
  <2>1. call[t] \in Call /\ call[t].node \in Node /\ held[t] = {}
    BY <1>1 DEF ReadGroup
  <2>2. /\ call'[t] = [call[t] EXCEPT !.rule = index]
        /\ todo'[t] = ShardsOf(ConflictIds(index, call[t].node))
        /\ pc'[t] = "lock" /\ held'[t] = {}
    BY <1>1, <2>1 DEF ReadGroup
  <2>3. /\ call'[t] \in Call /\ call'[t].rule = index /\ call'[t].node = call[t].node
        /\ call'[t].op = call[t].op /\ call'[t].owner = call[t].owner
    BY <2>1, <2>2 DEF Call
  <2>4. ShardsOf(Group(t))' = todo'[t]
    BY <2>2, <2>3 DEF Group, ShardsOf
  <2>5. QED
    BY <1>1, <2>1, <2>2, <2>3, <2>4 DEF ReadGroup
<1>2. ASSUME NEW s \in Shard, LockShard(t, s) PROVE PcInvOf(t)'
  <2>1. Group(t)' = Group(t) /\ ShardsOf(Group(t))' = ShardsOf(Group(t))
    BY <1>2 DEF LockShard, Group, ShardsOf
  <2>2. QED
    BY <1>2, <2>1 DEF LockShard
<1>3. ASSUME NEW s \in Shard, EraseNode(t, s) PROVE PcInvOf(t)'
  BY <1>3 DEF EraseNode
<1>4. ASSUME NEW s \in Shard, SweepShard(t, s) PROVE PcInvOf(t)'
  BY <1>4 DEF SweepShard
<1>5. CASE Purge(t)
  BY <1>5 DEF Purge, Group, ShardsOf
<1>6. CASE Refuse(t)
  BY <1>6 DEF Refuse
<1>7. CASE Pass(t)
  BY <1>7 DEF Pass, Group, ShardsOf
<1>8. CASE Write(t)
  BY <1>8 DEF Write
<1>9. CASE Look(t)
  BY <1>9 DEF Look, Group, ShardsOf
<1>10. CASE Answer(t)
  BY <1>10 DEF Answer
<1>11. CASE Swept(t)
  BY <1>11 DEF Swept
<1>12. QED
  BY <1>1, <1>2, <1>3, <1>4, <1>5, <1>6, <1>7, <1>8, <1>9, <1>10, <1>11 DEF Step

\* Every step keeps what the places of the calls require.
LEMMA NextPcInv == TypeOK /\ PcInv /\ [Next]_vars => PcInv'
<1> SUFFICES ASSUME TypeOK, PcInv, [Next]_vars PROVE PcInv'
  OBVIOUS
<1>2. ASSUME NEW u \in Thread, pc'[u] = pc[u], call'[u] = call[u], todo'[u] = todo[u],
             held'[u] = held[u]
      PROVE  PcInvOf(u)'
  BY <1>2 DEF PcInv, PcInvOf, Group, ShardsOf
<1>3. ASSUME NEW t \in Thread, Start(t) \/ Step(t) PROVE PcInv'
  <2>1. PcInvOf(t)'
    BY <1>3, StartPcInv, StepPcInv
  <2>2. \A u \in Thread \ {t} : PcInvOf(u)'
    BY <1>2, <1>3, StartOthersKeep, StepOthersKeep DEF OthersKeep
  <2>3. QED
    BY <2>1, <2>2 DEF PcInv, PcInvOf
<1>4. ASSUME UNCHANGED <<pc, call, todo, held>> PROVE PcInv'
  BY <1>4, <1>2 DEF PcInv, PcInvOf
<1>5. QED
  BY <1>3, <1>4 DEF Next, vars, ConfigureDistanceConflict, Tick

-----------------------------------------------------------------------------
(* Locks.                                                                   *)

\* A step of t keeps its call's kind and its locks, drops its locks, or takes one
\* shard that it may take.
LEMMA StepLocks ==
  ASSUME TypeOK, PcInv, NEW t \in Thread, Start(t) \/ Step(t)
  PROVE  \/ held'[t] = {}
         \/ held'[t] = held[t] /\ call'[t].op = call[t].op
         \/ \E s \in Shard : CanLock(t, s) /\ held'[t] = held[t] \cup {s} /\ call'[t] = call[t]
<1> USE DEF TypeOK, Return, Visit
<1>1. CASE Start(t)
  BY <1>1 DEF Start, TryReserve, Release, FindBlockingHold, ReleaseAll, Enter, PcInv, PcInvOf
<1>2. CASE ReadGroup(t)
  BY <1>2 DEF ReadGroup, PcInv, PcInvOf
<1>3. ASSUME NEW s \in Shard, LockShard(t, s)
      PROVE  CanLock(t, s) /\ held'[t] = held[t] \cup {s} /\ call'[t] = call[t]
  BY <1>3 DEF LockShard
<1>4. ASSUME NEW s \in Shard, EraseNode(t, s) PROVE held'[t] = {}
  BY <1>4 DEF EraseNode
<1>5. ASSUME NEW s \in Shard, SweepShard(t, s) PROVE held'[t] = held[t] /\ call'[t] = call[t]
  BY <1>5 DEF SweepShard
<1>6. CASE Purge(t) \/ Pass(t) \/ Look(t)
  BY <1>6 DEF Purge, Pass, Look
<1>7. CASE Refuse(t) \/ Write(t) \/ Answer(t) \/ Swept(t)
  BY <1>7 DEF Refuse, Write, Answer, Swept
<1>8. QED
  BY <1>1, <1>2, <1>3, <1>4, <1>5, <1>6, <1>7 DEF Step

\* Every step keeps the shard locks apart: the guard of LockShard.
LEMMA NextLockInv == TypeOK /\ PcInv /\ LockInv /\ [Next]_vars => LockInv'
<1> SUFFICES ASSUME TypeOK, PcInv, LockInv, [Next]_vars PROVE LockInv'
  OBVIOUS
<1>1. ASSUME NEW t \in Thread, Start(t) \/ Step(t) PROVE LockInv'
  <2>1. \A u \in Thread \ {t} : held'[u] = held[u] /\ call'[u] = call[u]
    BY <1>1, StartOthersKeep, StepOthersKeep DEF OthersKeep
  <2>2. CASE held'[t] = {}
    BY <2>1, <2>2 DEF LockInv, Shared
  <2>3. CASE held'[t] = held[t] /\ call'[t].op = call[t].op
    BY <2>1, <2>3 DEF LockInv, Shared
  <2>4. ASSUME NEW s \in Shard, CanLock(t, s), held'[t] = held[t] \cup {s}, call'[t] = call[t]
        PROVE  LockInv'
    BY <2>1, <2>4 DEF LockInv, Shared, CanLock
  <2>5. QED
    BY <1>1, <2>2, <2>3, <2>4, StepLocks
<1>2. ASSUME UNCHANGED <<call, held>> PROVE LockInv'
  BY <1>2 DEF LockInv, Shared
<1>3. QED
  BY <1>1, <1>2 DEF Next, vars, ConfigureDistanceConflict, Tick

\* The node a thread changes is in a shard that no other thread has locked, not
\* even for reading.
LEMMA ChangeIsAlone ==
  ASSUME TypeOK, PcInv, LockInv, NEW t \in Thread, Step(t),
         NEW n \in Node, entries'[n] # entries[n],
         NEW u \in Thread \ {t}
  PROVE  ShardOf[n] \notin held[u]
<1> USE DEF TypeOK
<1>1. CASE EraseNode(t, ShardOf[n])
  <2>1. CanLock(t, ShardOf[n]) /\ ~Shared(t)
    BY <1>1 DEF EraseNode, Visit, PcInv, PcInvOf, Shared
  <2>2. QED
    BY <2>1 DEF CanLock
<1>2. CASE SweepShard(t, ShardOf[n])
  <2>1. CanLock(t, ShardOf[n]) /\ ~Shared(t)
    BY <1>2 DEF SweepShard, Visit, PcInv, PcInvOf, Shared
  <2>2. QED
    BY <2>1 DEF CanLock
<1>3. CASE Purge(t) \/ Write(t)
  <2>1. /\ call[t].node \in Node /\ call[t].rule \in Map
        /\ call[t].op = "reserve" /\ todo[t] = {}
        /\ ShardsOf(Group(t)) \subseteq held[t]
    BY <1>3 DEF Purge, Write, PcInv, PcInvOf, Inside
  <2>2. n \in Group(t)
    BY <1>3, <2>1, ConflictIdsType DEF Purge, Write, Erased, Group
  <2>3. ShardOf[n] \in held[t] /\ ~Shared(t)
    BY <2>1, <2>2 DEF ShardsOf, Shared
  <2>4. QED
    BY <2>3 DEF LockInv
<1>4. ASSUME NEW s \in Shard, EraseNode(t, s) PROVE s = ShardOf[n]
  BY <1>4 DEF EraseNode, Visit, IsNext, Erased, PcInv, PcInvOf
<1>5. ASSUME NEW s \in Shard, SweepShard(t, s) PROVE s = ShardOf[n]
  BY <1>5 DEF SweepShard, Erased, NodesIn
<1>6. CASE entries' = entries
  BY <1>6
<1>7. QED
  BY <1>1, <1>2, <1>3, <1>4, <1>5, <1>6
     DEF Step, ReadGroup, LockShard, Refuse, Pass, Look, Answer, Swept

-----------------------------------------------------------------------------
(* Time.                                                                    *)

\* Every step of t keeps the start of its call, ends the call, or starts one now.
LEMMA StepBegan ==
  ASSUME TypeOK, PcInv, NEW t \in Thread, Start(t) \/ Step(t)
  PROVE  /\ clock' = clock
         /\ \/ call'[t] = NoCall
            \/ call'[t].began = clock
            \/ call[t] # NoCall /\ call'[t].began = call[t].began
<1> USE TableAssumption DEF TypeOK, Return, Visit
<1>1. CASE Start(t)
  BY <1>1 DEF Start, TryReserve, Release, FindBlockingHold, ReleaseAll, Enter
<1>2. CASE ReadGroup(t)
  BY <1>2 DEF ReadGroup, PcInv, PcInvOf
<1>3. ASSUME NEW s \in Shard, LockShard(t, s) \/ EraseNode(t, s) \/ SweepShard(t, s)
      PROVE  clock' = clock /\ (call'[t] = NoCall \/ call'[t] = call[t])
  BY <1>3 DEF LockShard, EraseNode, SweepShard
<1>4. CASE Purge(t) \/ Pass(t) \/ Look(t)
  BY <1>4 DEF Purge, Pass, Look
<1>5. CASE Refuse(t) \/ Write(t) \/ Answer(t) \/ Swept(t)
  BY <1>5 DEF Refuse, Write, Answer, Swept
<1>6. QED
  BY <1>1, <1>2, <1>3, <1>4, <1>5 DEF Step

\* Every step keeps the calls begun in the past: the clock never goes back.
LEMMA NextBeganInv == TypeOK /\ PcInv /\ BeganInv /\ [Next]_vars => BeganInv'
<1> SUFFICES ASSUME TypeOK, PcInv, BeganInv, [Next]_vars PROVE BeganInv'
  OBVIOUS
<1>1. ASSUME NEW t \in Thread, Start(t) \/ Step(t) PROVE BeganInv'
  <2>1. \A u \in Thread \ {t} : call'[u] = call[u]
    BY <1>1, StartOthersKeep, StepOthersKeep DEF OthersKeep
  <2>2. clock \in Nat /\ clock' = clock
    BY <1>1, StepBegan DEF TypeOK, Time
  <2>3. call'[t] # NoCall => call'[t].began <= clock
    BY <1>1, <2>2, StepBegan DEF BeganInv
  <2>4. QED
    BY <2>1, <2>2, <2>3 DEF BeganInv
<1>2. CASE Tick
  <2>1. \A u \in Thread : call[u] # NoCall => call[u].began \in Nat
    BY DEF TypeOK, Call
  <2>2. QED
    BY <1>2, <2>1 DEF BeganInv, Tick, TypeOK, Time
<1>3. ASSUME UNCHANGED <<call, clock>> PROVE BeganInv'
  BY <1>3 DEF BeganInv
<1>4. QED
  BY <1>1, <1>2, <1>3 DEF Next, vars, ConfigureDistanceConflict

-----------------------------------------------------------------------------
(* What the locks protect.                                                  *)

\* While u holds all shards of its group nobody else changes the group's holds.
LEMMA GroupIsProtected ==
  ASSUME TypeOK, PcInv, LockInv, NEW t \in Thread, Start(t) \/ Step(t),
         NEW u \in Thread \ {t}, pc[u] \in {"check", "write", "answer"}
  PROVE  /\ Group(u)' = Group(u) /\ call'[u] = call[u] /\ pc'[u] = pc[u]
         /\ \A n \in Group(u) : n \in Node /\ entries'[n] = entries[n]
<1>1. /\ call'[u] = call[u] /\ pc'[u] = pc[u]
  BY StartOthersKeep, StepOthersKeep DEF OthersKeep
<1>2. call[u].node \in Node /\ call[u].rule \in Map /\ ShardsOf(Group(u)) \subseteq held[u]
  BY DEF PcInv, PcInvOf, Inside
<1>3. \A n \in Group(u) : n \in Node /\ ShardOf[n] \in held[u]
  BY <1>2, ConflictIdsType DEF Group, ShardsOf
<1>4. CASE Start(t)
  BY <1>1, <1>3, <1>4 DEF Start, TryReserve, Release, FindBlockingHold, ReleaseAll, Enter, Group
<1>5. CASE Step(t)
  BY <1>1, <1>3, <1>5, ChangeIsAlone DEF Group
<1>6. QED
  BY <1>4, <1>5

\* What a call has checked stays true until it writes: whoever could change it waits for its locks.
LEMMA NextCheckedInv == TypeOK /\ PcInv /\ LockInv /\ CheckedInv /\ [Next]_vars => CheckedInv'
<1> SUFFICES ASSUME TypeOK, PcInv, LockInv, CheckedInv, [Next]_vars PROVE CheckedInv'
  OBVIOUS
<1>1. ASSUME NEW t \in Thread, Start(t) \/ Step(t), NEW u \in Thread, pc'[u] = "write"
      PROVE  \A n \in Group(u)' : ~HeldByOther(n, call[u].owner)'
  <2>1. CASE u # t
    <3>1. pc[u] = "write"
      BY <1>1, <2>1, StartOthersKeep, StepOthersKeep DEF OthersKeep
    <3>2. /\ Group(u)' = Group(u) /\ call'[u] = call[u]
          /\ \A n \in Group(u) : entries'[n] = entries[n]
      BY <1>1, <2>1, <3>1, GroupIsProtected
    <3>3. QED
      BY <3>1, <3>2 DEF CheckedInv, HeldByOther
  <2>2. CASE u = t
    <3>1. Pass(t)
      BY <1>1, <2>2 DEF TypeOK, Start, TryReserve, Release, FindBlockingHold, ReleaseAll, Enter,
        Step, ReadGroup, LockShard, EraseNode, SweepShard, Purge, Refuse, Write, Look, Answer,
        Swept, Return
    <3>2. QED
      BY <2>2, <3>1 DEF Pass, Group, HeldByOther
  <2>3. QED
    BY <2>1, <2>2
<1>2. ASSUME UNCHANGED <<pc, call, entries>> PROVE CheckedInv'
  BY <1>2 DEF CheckedInv, Group, HeldByOther
<1>3. QED
  BY <1>1, <1>2 DEF CheckedInv, Next, vars, ConfigureDistanceConflict, Tick

\* The answer of findBlockingHold stays current while the call holds its shards.
LEMMA NextAnswer ==
  TypeOK /\ PcInv /\ LockInv /\ AnswerIsCurrent /\ [Next]_vars => AnswerIsCurrent'
<1> SUFFICES ASSUME TypeOK, PcInv, LockInv, AnswerIsCurrent, [Next]_vars PROVE AnswerIsCurrent'
  OBVIOUS
<1>1. ASSUME NEW t \in Thread, Start(t) \/ Step(t), NEW u \in Thread,
             pc'[u] = "answer"
      PROVE  found'[u] = Blocking(u)'
  <2>1. CASE u # t
    <3>1. pc[u] = "answer" /\ call[u].op = "find"
      BY <1>1, <2>1, StartOthersKeep, StepOthersKeep DEF OthersKeep, PcInv, PcInvOf
    <3>2. /\ Group(u)' = Group(u) /\ call'[u] = call[u]
          /\ \A n \in Group(u) : entries'[n] = entries[n]
      BY <1>1, <2>1, <3>1, GroupIsProtected
    <3>3. found'[u] = found[u]
      BY <1>1, <2>1 DEF TypeOK, Start, TryReserve, Release, FindBlockingHold, ReleaseAll, Enter,
        Step, ReadGroup, LockShard, EraseNode, SweepShard, Purge, Refuse, Pass, Write, Look,
        Answer, Swept, Return
    <3>4. Blocking(u)' = Blocking(u)
      BY <3>2 DEF Blocking, HeldByOther, Expired
    <3>5. QED
      BY <3>1, <3>3, <3>4 DEF AnswerIsCurrent
  <2>2. CASE u = t
    <3>1. Look(t)
      BY <1>1, <2>2 DEF TypeOK, Start, TryReserve, Release, FindBlockingHold, ReleaseAll, Enter,
        Step, ReadGroup, LockShard, EraseNode, SweepShard, Purge, Refuse, Pass, Write, Answer,
        Swept, Return
    <3>2. Blocking(t)' = Blocking(t)
      BY <3>1 DEF Look, Blocking, Group, HeldByOther, Expired
    <3>3. QED
      BY <2>2, <3>1, <3>2 DEF Look, TypeOK
  <2>3. QED
    BY <2>1, <2>2
<1>2. ASSUME UNCHANGED <<pc, call, entries, found>> PROVE AnswerIsCurrent'
  BY <1>2 DEF AnswerIsCurrent, Blocking, Group, HeldByOther, Expired
<1>3. QED
  BY <1>1, <1>2 DEF AnswerIsCurrent, Next, vars, ConfigureDistanceConflict, Tick

-----------------------------------------------------------------------------
(* Exclusion.                                                               *)

\* Dropping holds cannot make two of them conflict.
LEMMA DroppingKeepsExclusive ==
  ASSUME GrantsExclusive, \A n \in Node : entries'[n] = entries[n] \/ entries'[n] = NoHold
  PROVE  GrantsExclusive'
  BY DEF GrantsExclusive

\* A hold is written only where the whole group is free or the writer's own.
LEMMA WriteKeepsExclusive ==
  ASSUME TypeOK, PcInv, CheckedInv, GrantsExclusive, NEW t \in Thread, Write(t)
  PROVE  GrantsExclusive'
<1> DEFINE w == call[t].node  o == call[t].owner  m == call[t].rule
<1>1. w \in Node /\ o \in Owner /\ m \in Map
  BY DEF Write, PcInv, PcInvOf, Inside
<1>2. /\ entries'[w] # NoHold /\ entries'[w].owner = o /\ entries'[w].rule = m
      /\ \A n \in Node \ {w} : entries'[n] = entries[n]
  <2>1. call[t] \in Call
    BY DEF Write, PcInv, PcInvOf
  <2>2. entries'[w] \in Hold
    BY <1>1, <2>1, SMT DEF Write, TypeOK, Hold, Call
  <2>3. QED
    BY <1>1, <2>2, TableAssumption DEF Write, TypeOK
<1>3. \A n \in ConflictIds(m, w) : entries[n] = NoHold \/ entries[n].owner = o
  BY DEF CheckedInv, HeldByOther, Write, Group
<1>4. ASSUME NEW a \in Node, NEW b \in Node,
             entries'[a] # NoHold, entries'[b] # NoHold,
             entries'[a].rule = entries'[b].rule,
             b \in ConflictIds(entries'[a].rule, a)
      PROVE  entries'[a].owner = entries'[b].owner
  <2>1. CASE a # w /\ b # w
    BY <1>2, <1>4, <2>1 DEF GrantsExclusive
  <2>2. CASE a = w /\ b = w
    BY <2>2
  <2>3. CASE a = w /\ b # w
    BY <1>2, <1>3, <1>4, <2>3
  <2>4. CASE a # w /\ b = w
    <3>1. a \in ConflictIds(m, w)
      BY <1>1, <1>2, <1>4, <2>4, ConflictSymmetric
    <3>2. QED
      BY <1>2, <1>3, <1>4, <2>4, <3>1
  <2>5. QED
    BY <2>1, <2>2, <2>3, <2>4
<1>5. QED
  BY <1>4 DEF GrantsExclusive

\* Apart from Write, a thread's step changes the table only by dropping holds.
LEMMA OnlyWriteGrants ==
  ASSUME TypeOK, NEW t \in Thread, Start(t) \/ Step(t), ~Write(t)
  PROVE  \A n \in Node : entries'[n] = entries[n] \/ entries'[n] = NoHold
  BY DEF TypeOK, Start, TryReserve, Release, FindBlockingHold, ReleaseAll, Enter,
    Step, ReadGroup, LockShard, EraseNode, SweepShard, Purge, Refuse, Pass, Look, Answer,
    Swept, Erased

\* Every step keeps the grants of one map free of conflicts.
LEMMA NextExclusive ==
  TypeOK /\ PcInv /\ CheckedInv /\ GrantsExclusive /\ [Next]_vars => GrantsExclusive'
<1> SUFFICES ASSUME TypeOK, PcInv, CheckedInv, GrantsExclusive, [Next]_vars
             PROVE  GrantsExclusive'
  OBVIOUS
<1>1. ASSUME NEW t \in Thread, Start(t) \/ Step(t) PROVE GrantsExclusive'
  BY <1>1, WriteKeepsExclusive, OnlyWriteGrants, DroppingKeepsExclusive
<1>2. ASSUME UNCHANGED entries PROVE GrantsExclusive'
  BY <1>2 DEF GrantsExclusive
<1>3. QED
  BY <1>1, <1>2 DEF Next, vars, ConfigureDistanceConflict, Tick

-----------------------------------------------------------------------------
(* The theorems.                                                            *)

\* The inductive invariant holds at first.
LEMMA InitIInv == Init => IInv
<1>1. Init => TypeOK
  BY InitTypeOK
<1>2. Init => PcInv
  BY DEF Init, PcInv, PcInvOf, Inside
<1>3. Init => LockInv /\ CheckedInv /\ BeganInv
  BY DEF Init, LockInv, CheckedInv, BeganInv
<1>4. Init => AnswerIsCurrent /\ GrantsExclusive
  BY DEF Init, AnswerIsCurrent, GrantsExclusive
<1>5. QED
  BY <1>1, <1>2, <1>3, <1>4 DEF IInv

\* Every step keeps the inductive invariant.
LEMMA NextIInv == IInv /\ [Next]_vars => IInv'
  BY NextTypeOK, NextPcInv, NextLockInv, NextCheckedInv, NextBeganInv, NextAnswer, NextExclusive
     DEF IInv

\* The inductive invariant holds in every reachable state.
LEMMA Invariance == Spec => []IInv
  BY InitIInv, NextIInv, PTL DEF Spec

\* The values of the table and of every call stay in their types (tryReserve,
\* findBlockingHold and the releases, with any number of callers).
THEOREM TypeCorrect == Spec => []TypeOK
  BY Invariance, PTL DEF IInv

\* Grants checked against the same map never conflict: the locks make the check and
\* the write of tryReserve one step, for any shards and any number of callers, and
\* however often the map is reloaded meanwhile.
THEOREM GrantsAreExclusive == Spec => []GrantsExclusive
  BY Invariance, PTL DEF IInv

\* findBlockingHold's answer is true of the whole conflict group at one moment.
THEOREM AnswersAreCurrent == Spec => []AnswerIsCurrent
  BY Invariance, PTL DEF IInv

\* As long as one map is in use, live holds of nodes within the distance threshold
\* belong to one AGV.
THEOREM ExclusionOnOneMap ==
  ASSUME NEW m, Map = {m}
  PROVE  Spec => []MutualExclusion
<1>1. IInv => MutualExclusion
  <2> SUFFICES ASSUME IInv, NEW a \in Node, NEW b \in Node, Live(a), Live(b),
                      b \in ConflictIds(index, a)
               PROVE  entries[a].owner = entries[b].owner
    BY DEF MutualExclusion
  <2>1. entries[a] \in Hold /\ entries[b] \in Hold /\ index = m
    BY DEF IInv, TypeOK, Live
  <2>2. entries[a].rule = index /\ entries[b].rule = index
    BY <2>1 DEF Hold
  <2>3. QED
    BY <2>1, <2>2 DEF IInv, GrantsExclusive, Live
<1>2. QED
  BY <1>1, Invariance, PTL

-----------------------------------------------------------------------------
(* Live holds.                                                              *)

\* What has not expired now had not expired when a call began.
LEMMA LiveSinceBegan ==
  ASSUME IInv, NEW t \in Thread, call[t] # NoCall, NEW n \in Node, Live(n)
  PROVE  ~Expired(n, call[t].began)
<1>1. call[t].began \in Nat /\ clock \in Nat /\ call[t].began <= clock
  BY TableAssumption DEF IInv, TypeOK, BeganInv, Call, Time
<1>2. entries[n] \in Hold
  BY DEF IInv, TypeOK, Live
<1>3. QED
  BY <1>1, <1>2 DEF Live, Expired, Hold

\* The thread whose step changes a live hold acts for the hold's owner.
LEMMA ChangedByItsOwner ==
  ASSUME IInv, NEW t \in Thread, Step(t), NEW n \in Node, Live(n), entries'[n] # entries[n]
  PROVE  /\ Moves(t)
         /\ call[t] # NoCall
         /\ call[t].owner = entries[n].owner
         /\ call[t].op \in {"reserve", "release", "sweep"}
         /\ n \notin call[t].keep
<1> USE DEF IInv, TypeOK
<1>1. entries[n] # NoHold
  BY DEF Live
<1>2. ASSUME pc[t] # "idle"
      PROVE  call[t] \in Call /\ call[t] # NoCall /\ ~Expired(n, call[t].began)
  BY <1>2, TableAssumption, LiveSinceBegan DEF PcInv, PcInvOf
<1>3. ASSUME NEW s \in Shard, EraseNode(t, s) PROVE Moves(t) /\ n \notin call[t].keep
      /\ call[t].owner = entries[n].owner /\ call[t].op \in {"release", "sweep"}
      /\ pc[t] # "idle"
  BY <1>1, <1>2, <1>3 DEF EraseNode, Visit, IsNext, Return, Erased, HeldByOther, Moves, PcInv,
    PcInvOf
<1>4. ASSUME NEW s \in Shard, SweepShard(t, s) PROVE Moves(t) /\ n \notin call[t].keep
      /\ call[t].owner = entries[n].owner /\ call[t].op \in {"release", "sweep"}
      /\ pc[t] # "idle"
  BY <1>1, <1>2, <1>4 DEF SweepShard, Visit, IsNext, Erased, HeldByOther, Moves, PcInv, PcInvOf
<1>5. ~Purge(t)
  <2>1. SUFFICES ASSUME Purge(t) PROVE FALSE
    OBVIOUS
  <2>2. entries' = Erased({c \in Group(t) : Expired(c, call[t].began)}) /\ pc[t] # "idle"
    BY <2>1 DEF Purge
  <2>3. Expired(n, call[t].began)
    BY <2>2 DEF Erased
  <2>4. QED
    BY <1>2, <2>2, <2>3
<1>6. CASE Write(t)
  <2>1. /\ pc[t] = "write" /\ call[t].node \in Node /\ call[t].rule \in Map
        /\ call[t].op = "reserve" /\ call[t].keep = {}
    BY <1>6 DEF Write, PcInv, PcInvOf, Inside
  <2>2. n = call[t].node
    BY <1>6, <2>1 DEF Write
  <2>3. n \in Group(t)
    BY <2>1, <2>2, ConflictIdsType DEF Group
  <2>4. call[t].owner = entries[n].owner
    BY <1>1, <2>1, <2>3 DEF CheckedInv, HeldByOther
  <2>5. Moves(t)
    BY <1>6, <2>1 DEF Write, Return, Moves
  <2>6. QED
    BY <1>2, <2>1, <2>4, <2>5
<1>7. QED
  BY <1>2, <1>3, <1>4, <1>5, <1>6 DEF Step, ReadGroup, LockShard, Refuse, Pass, Look, Answer, Swept

\* A live hold is changed or dropped only by a call made for its owner: neither a
\* purge or cleanup working with an old time nor another AGV's calls take it.
THEOREM LiveHoldsAreKept == Spec => LiveHoldsKept
<1> DEFINE Kept == \A n \in Node :
                     Live(n) /\ entries'[n] # entries[n] =>
                       \E t \in Thread :
                         /\ Moves(t)
                         /\ call[t] # NoCall
                         /\ call[t].owner = entries[n].owner
                         /\ call[t].op \in {"reserve", "release", "sweep"}
                         /\ n \notin call[t].keep
<1>1. IInv /\ [Next]_vars => [Kept]_vars
  <2> SUFFICES ASSUME IInv, Next PROVE Kept
    OBVIOUS
  <2>1. ASSUME NEW t \in Thread, Start(t) PROVE entries' = entries
    BY <2>1 DEF Start, TryReserve, Release, FindBlockingHold, ReleaseAll, Enter
  <2>2. ASSUME NEW t \in Thread, Step(t) PROVE Kept
    BY <2>2, ChangedByItsOwner
  <2>3. QED
    BY <2>1, <2>2 DEF Next, ConfigureDistanceConflict, Tick
<1>2. QED
  BY <1>1, Invariance, PTL DEF Spec, LiveHoldsKept

-----------------------------------------------------------------------------
(* Refinement.                                                              *)

\* What a step other than Write changes, it drops: holds that are over, or holds of
\* the owner the call is for.
LEMMA DropsOwnOrOver ==
  ASSUME IInv, NEW t \in Thread, Step(t), ~Write(t), NEW n \in Node, entries'[n] # entries[n]
  PROVE  /\ entries'[n] = NoHold /\ entries[n] \in Hold
         /\ Registry!Over(n) \/ entries[n].owner = call[t].owner
<1>1. entries'[n] = NoHold /\ entries[n] \in Hold /\ entries[n] # NoHold
  BY OnlyWriteGrants, TableAssumption DEF IInv, TypeOK
<1>2. CASE Registry!Over(n)
  BY <1>1, <1>2
<1>3. CASE ~Registry!Over(n)
  <2>1. Live(n)
    BY <1>1, <1>3 DEF Live, Expired, Registry!Over
  <2>2. QED
    BY <1>1, <2>1, ChangedByItsOwner
<1>4. QED
  BY <1>2, <1>3

\* A step of a call other than its write, when it changes the entries, drops some hold of the registry.
LEMMA StepIsDrop ==
  ASSUME IInv, NEW t \in Thread, Step(t), ~Write(t), entries' # entries
  PROVE  \E o \in Owner, N \in SUBSET Node : Registry!Drop(o, N)
<1> DEFINE N == {n \in Node : entries'[n] # entries[n]}
<1>1. entries \in [Node -> Hold \cup {NoHold}] /\ entries' \in [Node -> Hold \cup {NoHold}]
  BY NextTypeOK DEF IInv, TypeOK, Next
<1>2. PICK n0 \in Node : entries'[n0] # entries[n0]
  BY <1>1
<1>3. \A n \in N : /\ entries'[n] = NoHold /\ entries[n] \in Hold
                   /\ Registry!Over(n) \/ entries[n].owner = call[t].owner
  BY DropsOwnOrOver
<1>4. entries[n0].owner \in Owner
  BY <1>2, <1>3 DEF Hold
<1>5. PICK o \in Owner : call[t].owner \in Owner => o = call[t].owner
  BY <1>4
<1>6. \A n \in N : Registry!Over(n) \/ Registry!LeasedTo(n, o)
  BY <1>3, <1>5, TableAssumption DEF Registry!LeasedTo, Hold
<1>7. entries' = [n \in Node |-> IF n \in N THEN NoHold ELSE entries[n]]
  BY <1>1, <1>3
<1>8. clock' = clock
  BY StepBegan DEF IInv
<1>9. QED
  BY <1>5, <1>6, <1>7, <1>8 DEF Registry!Drop

\* The abstract module uses the same conflict groups.
LEMMA SameGroups == \A m, n : Registry!ConflictIds(m, n) = ConflictIds(m, n)
  BY DEF ConflictIds, NearbyNodeIds, MapNodes, InNearbyCell, CellCoord, DistSq, Square,
    Registry!ConflictIds, Registry!NearbyNodeIds, Registry!MapNodes, Registry!InNearbyCell,
    Registry!CellCoord, Registry!DistSq, Registry!Square

\* The write of tryReserve is a grant of the registry.
LEMMA WriteIsGrant ==
  ASSUME IInv, NEW t \in Thread, Write(t)
  PROVE  Registry!Grant(call[t].node)
<1> DEFINE w == call[t].node
<1>1. /\ w \in Node /\ call[t].owner \in Owner /\ call[t].rule \in Map /\ call[t] \in Call
  BY DEF IInv, Write, PcInv, PcInvOf, Inside
<1>2. /\ entries'[w] \in Hold /\ entries'[w].owner = call[t].owner
      /\ entries'[w].rule = call[t].rule
      /\ entries' = [entries EXCEPT ![w] = entries'[w]]
  BY <1>1, SMT DEF IInv, Write, TypeOK, Hold, Call
<1>3. \A c \in ConflictIds(entries'[w].rule, w) :
        entries[c] = NoHold \/ Registry!LeasedTo(c, entries'[w].owner)
  BY <1>2 DEF IInv, CheckedInv, Write, Group, HeldByOther, Registry!LeasedTo
<1>4. QED
  BY <1>2, <1>3, SameGroups DEF Registry!Grant, Registry!Hold, Hold, Write

\* A step of a call under its locks grants, drops, or changes no lease.
LEMMA StepIsRegistryStep ==
  ASSUME IInv, NEW t \in Thread, Step(t)
  PROVE  [Registry!Next]_<<entries, clock>>
<1>1. CASE Write(t)
  <2>1. call[t].node \in Node
    BY <1>1 DEF IInv, Write, PcInv, PcInvOf, Inside
  <2> QED BY <1>1, <2>1, WriteIsGrant DEF Registry!Next
<1>2. CASE ~Write(t) /\ entries' # entries
  BY <1>2, StepIsDrop DEF Registry!Next
<1>3. CASE entries' = entries
  BY <1>3, StepBegan DEF IInv
<1> QED BY <1>1, <1>2, <1>3

\* What the registry does not see: a call begins, new groups move in, nothing happens.
LEMMA UnseenByRegistry ==
  ASSUME (\E t \in Thread : Start(t)) \/ (\E m \in Map : ConfigureDistanceConflict(m)) \/ vars' = vars
  PROVE  UNCHANGED <<entries, clock>>
BY DEF Start, TryReserve, Release, FindBlockingHold, ReleaseAll, Enter, ConfigureDistanceConflict, vars

\* The table implements LeaseRegistry: a call of many steps under shard locks shows
\* its callers one grant or one drop at a time, and never more than that.
THEOREM TableImplementsRegistry == Spec => ImplementsRegistry
<1>1. Init => Registry!Init
  BY DEF Init, Registry!Init
<1>2. ASSUME IInv, Next \/ vars' = vars PROVE [Registry!Next]_<<entries, clock>>
  <2>1. CASE Tick
    BY <2>1 DEF Tick, Registry!Next, Registry!Tick
  <2>2. CASE \E t \in Thread : Step(t)
    BY <1>2, <2>2, StepIsRegistryStep
  <2> QED BY <1>2, <2>1, <2>2, UnseenByRegistry DEF Next
<1>3. IInv /\ [Next]_vars => [Registry!Next]_<<entries, clock>>
  BY <1>2
<1> QED BY <1>1, <1>3, Invariance, PTL DEF Spec, ImplementsRegistry, Registry!Spec

-----------------------------------------------------------------------------
(* Threads do not wait for one another in a circle.                         *)

\* Shards are taken in ascending order: what a thread still wants is above all it has.
OrderInv == \A t \in Thread : \A r \in held[t], s \in todo[t] : r < s

\* Every step keeps the order of locking: LockShard takes the lowest shard left.
LEMMA NextOrderInv == TypeOK /\ PcInv /\ OrderInv /\ [Next]_vars => OrderInv'
<1> SUFFICES ASSUME TypeOK, PcInv, OrderInv, [Next]_vars PROVE OrderInv'
  OBVIOUS
<1> USE DEF TypeOK
<1>1. ASSUME NEW t \in Thread, Start(t) \/ Step(t),
             \A r \in held'[t], s \in todo'[t] : r < s
      PROVE  OrderInv'
  <2>1. \A u \in Thread \ {t} : held'[u] = held[u] /\ todo'[u] = todo[u]
    BY <1>1, StartOthersKeep, StepOthersKeep DEF OthersKeep
  <2> QED BY <1>1, <2>1 DEF OrderInv
<1>2. ASSUME NEW t \in Thread, Start(t) PROVE OrderInv'
  <2>1. held'[t] = {}
    BY <1>2 DEF Start, TryReserve, Release, FindBlockingHold, ReleaseAll, Enter, PcInv, PcInvOf
  <2> QED BY <1>1, <1>2, <2>1
<1>3. ASSUME NEW t \in Thread, Step(t) PROVE OrderInv'
  <2>1. CASE held'[t] = {}
    BY <1>1, <1>3, <2>1
  <2>2. CASE held'[t] = held[t] /\ todo'[t] \subseteq todo[t]
    BY <1>1, <1>3, <2>2 DEF OrderInv
  <2>3. ASSUME NEW s \in Shard, LockShard(t, s) PROVE OrderInv'
    <3>1. /\ held'[t] = held[t] \cup {s} /\ todo'[t] = todo[t] \ {s}
          /\ s \in todo[t] /\ \A r \in todo[t] : s <= r
      BY <2>3 DEF LockShard, IsNext
    <3>2. todo[t] \subseteq Nat
      BY TableAssumption DEF Shard
    <3>3. \A r \in held'[t], q \in todo'[t] : r < q
      BY <3>1, <3>2 DEF OrderInv
    <3> QED BY <1>1, <1>3, <3>3
  <2>4. CASE ReadGroup(t)
    <3>1. held'[t] = {}
      BY <2>4 DEF ReadGroup, PcInv, PcInvOf
    <3> QED BY <2>1, <3>1
  <2>5. CASE Purge(t) \/ Pass(t) \/ Look(t)
    BY <2>2, <2>5 DEF Purge, Pass, Look
  <2>6. CASE Refuse(t) \/ Write(t) \/ Answer(t) \/ Swept(t)
    BY <2>1, <2>6 DEF Refuse, Write, Answer, Swept, Return
  <2>7. ASSUME NEW s \in Shard, EraseNode(t, s) PROVE OrderInv'
    BY <2>1, <2>7 DEF EraseNode, Return
  <2>8. ASSUME NEW s \in Shard, SweepShard(t, s) PROVE OrderInv'
    BY <2>2, <2>8 DEF SweepShard, Visit
  <2> QED BY <1>3, <2>3, <2>4, <2>5, <2>6, <2>7, <2>8 DEF Step
<1>4. ASSUME UNCHANGED <<held, todo>> PROVE OrderInv'
  BY <1>4 DEF OrderInv
<1> QED BY <1>2, <1>3, <1>4 DEF Next, vars, ConfigureDistanceConflict, Tick

\* If all were waiting, the one that waits for the greatest shard would wait for a thread
\* that has it and waits for a greater one.
LEMMA OrderGoesOn == TypeOK /\ PcInv /\ OrderInv => NoCircularWait
<1> SUFFICES ASSUME TypeOK, PcInv, OrderInv,
                    NEW t0 \in Thread, pc[t0] # "idle",
                    \A t \in Thread : pc[t] # "idle" => Waiting(t)
             PROVE  FALSE
  BY DEF NoCircularWait
<1> DEFINE Wanted == {s \in Shard : \E t \in Thread : /\ pc[t] # "idle" /\ IsNext(t, s)
                                                      /\ ~CanLock(t, s)}
<1>1. Wanted \in SUBSET Nat /\ IsFiniteSet(Wanted)
  <2>1. Shard \in SUBSET Nat /\ IsFiniteSet(Shard)
    BY TableAssumption DEF Shard
  <2> QED BY <2>1, FS_Subset
<1>2. \A t \in Thread : pc[t] # "idle" => \E s \in Wanted : IsNext(t, s)
  BY DEF Waiting, TypeOK
<1>3. Wanted # {}
  BY <1>2
<1>4. PICK s \in Wanted : \A r \in Wanted : r <= s
  <2> HIDE DEF Wanted
  <2> QED BY <1>1, <1>3, GreatestExists
<1>5. PICK u \in Thread : s \in held[u]
  BY DEF CanLock
<1>6. pc[u] # "idle"
  BY <1>5 DEF PcInv, PcInvOf
<1>7. PICK r \in Wanted : IsNext(u, r)
  BY <1>2, <1>6
<1>8. s < r
  BY <1>5, <1>7 DEF OrderInv, IsNext
<1> QED BY <1>1, <1>4, <1>7, <1>8

\* Some call can always go on: no thread waits for a shard whose owner waits, over however
\* many others, for one of its own.
THEOREM SomeCallGoesOn == Spec => []NoCircularWait
<1>1. Init => OrderInv
  BY DEF Init, OrderInv
<1>2. IInv /\ OrderInv /\ [Next]_vars => OrderInv'
  BY NextOrderInv DEF IInv
<1>3. Spec => []OrderInv
  BY <1>1, <1>2, Invariance, PTL DEF Spec
<1>4. IInv /\ OrderInv => NoCircularWait
  BY OrderGoesOn DEF IInv
<1> QED BY <1>3, <1>4, Invariance, PTL

=============================================================================
