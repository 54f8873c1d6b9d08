------------------------ MODULE NodeReservationTable ------------------------
(***************************************************************************)
(* NodeReservationTable: the table of map nodes held by AGVs, shared by    *)
(* the status handler, the scheduling worker, the replan workers and the   *)
(* publishers of one map.                                                  *)
(*                                                                         *)
(* The table is split into shards, each behind its own lock.  tryReserve   *)
(* reads the node's conflict group, locks the group's shards in ascending  *)
(* order, drops expired holds, looks for another owner and writes the      *)
(* hold; every one of these is a step here, and the locks alone keep other *)
(* threads out.  The releases visit one shard after the other and never    *)
(* hold two.  The time a call works with is read once, when it starts.     *)
(*                                                                         *)
(* reason, detail and updatedAt of a hold are left out: no decision reads  *)
(* them.  A call with a negative node id or an empty owner returns at once *)
(* and changes nothing.  snapshotHeldNodes, snapshotBlockedNodes and get    *)
(* only read, shard by shard, and are not modelled.                        *)
(***************************************************************************)
EXTENDS DistanceConflict, FiniteSets

CONSTANTS
  Owner,       \* AGV ids
  NoOwner,     \* the empty owner: cleanupExpired, and a query that excludes nobody
  Thread,      \* callers of the table
  ShardOf,     \* ShardOf[n]: the shard of node n
  Ttl,         \* time-to-live arguments; 0 never expires
  KeepSets,    \* the keepNodeIds arguments callers pass
  Ops,         \* the operations callers use
  NoHold,      \* no entry for the node
  NoCall,      \* the thread is outside the table
  NoNode,      \* a call that names no node
  NoMap,       \* a call that has not read a conflict group
  MaxTime      \* bound on the clock

AllOps == {"reserve", "release", "sweep", "find"}

\* expiresAt 0 is the default time_point: never expires.  rule is the map whose
\* groups the grant was checked against; the code does not store it, the
\* properties below are stated with it.
Hold == [owner : Owner, expiresAt : Nat, rule : Map]

Call == [op : AllOps, node : Node \cup {NoNode}, owner : Owner \cup {NoOwner},
         ttl : Nat, keep : SUBSET Node, began : Nat, rule : Map \cup {NoMap}]

ASSUME TableAssumption ==
  /\ NoOwner \notin Owner
  /\ NoNode \notin Node
  /\ NoMap \notin Map
  /\ NoHold \notin Hold
  /\ NoCall \notin Call
  /\ ShardOf \in [Node -> Nat]
  /\ IsFiniteSet({ShardOf[n] : n \in Node})
  /\ Ttl \subseteq Nat
  /\ KeepSets \subseteq SUBSET Node
  /\ Ops \subseteq AllOps
  /\ MaxTime \in Nat

VARIABLES
  entries,     \* entries[n]: the hold on node n
  index,       \* the map distanceConflictIndex_ was built from
  clock,       \* steady_clock
  pc,          \* pc[t]: where thread t is in the table's code
  call,        \* call[t]: the arguments and the start time of t's call
  todo,        \* todo[t]: the shards t has still to lock or to visit
  held,        \* held[t]: the shards t has locked across steps
  found        \* found[t]: the nodes t's query has collected

vars == <<entries, index, clock, pc, call, todo, held, found>>

Time == 0 .. MaxTime

Shard == {ShardOf[n] : n \in Node}

ShardsOf(N) == {ShardOf[n] : n \in N}

NodesIn(s) == {n \in Node : ShardOf[n] = s}

Expired(n, now) ==
  /\ entries[n] # NoHold
  /\ entries[n].expiresAt # 0
  /\ now >= entries[n].expiresAt

HeldByOther(n, o) == entries[n] # NoHold /\ entries[n].owner # o

\* The conflict group t works with: read once, under the index lock.
Group(t) == ConflictIds(call[t].rule, call[t].node)

Erased(N) == [n \in Node |-> IF n \in N THEN NoHold ELSE entries[n]]

-----------------------------------------------------------------------------
(* Locks.  findBlockingHold takes its shards shared, everything else that   *)
(* keeps a shard across steps takes it exclusively.                         *)

Shared(t) == call[t].op = "find"

\* Mutant: a writer does not wait for shared locks.
CanLockMutant(t, s) == \A u \in Thread \ {t} : s \in held[u] => Shared(t) \/ Shared(u)

CanLock(t, s) == \A u \in Thread \ {t} : s \in held[u] => Shared(t) /\ Shared(u)

\* Mutant: shards locked in the order of the conflict list, without the sort.
IsNextMutant(t, s) == s \in todo[t]

\* The order in which shards are locked or visited: ascending.
IsNext(t, s) == s \in todo[t] /\ \A r \in todo[t] : s <= r

-----------------------------------------------------------------------------
(* Calls: the arguments, and the time read at the start.                    *)

Enter(t, op, n, o, ttl, keep, label) ==
  /\ pc[t] = "idle"
  /\ op \in Ops
  /\ pc' = [pc EXCEPT ![t] = label]
  /\ call' = [call EXCEPT ![t] = [op |-> op, node |-> n, owner |-> o, ttl |-> ttl,
                                  keep |-> keep, began |-> clock, rule |-> NoMap]]
  /\ UNCHANGED <<entries, index, clock, held, found>>

TryReserve(t, n, o, ttl) ==
  Enter(t, "reserve", n, o, ttl, {}, "group") /\ UNCHANGED todo

FindBlockingHold(t, n, o) ==
  Enter(t, "find", n, o, 0, {}, "group") /\ UNCHANGED todo

Release(t, n, o) ==
  /\ Enter(t, "release", n, o, 0, {}, "erase")
  /\ todo' = [todo EXCEPT ![t] = {ShardOf[n]}]

\* releaseAllByOwner keeps nothing, releaseAllByOwnerExcept one node,
\* releaseAllByOwnerExceptSet several; cleanupExpired is the sweep of nobody's holds.
ReleaseAll(t, o, keep) ==
  /\ Enter(t, "sweep", NoNode, o, 0, keep, "sweep")
  /\ todo' = [todo EXCEPT ![t] = Shard]

\* Locks are released by their destructors, the call's locals disappear.
Return(t) ==
  /\ pc' = [pc EXCEPT ![t] = "idle"]
  /\ call' = [call EXCEPT ![t] = NoCall]
  /\ held' = [held EXCEPT ![t] = {}]
  /\ found' = [found EXCEPT ![t] = {}]

-----------------------------------------------------------------------------
(* tryReserve and findBlockingHold.                                         *)

\* Mutant: only the shard of the node itself is locked.
ReadGroupMutant(t) ==
  /\ pc[t] = "group"
  /\ pc' = [pc EXCEPT ![t] = "lock"]
  /\ call' = [call EXCEPT ![t].rule = index]
  /\ todo' = [todo EXCEPT ![t] = {ShardOf[call[t].node]}]
  /\ UNCHANGED <<entries, index, clock, held, found>>

ReadGroup(t) ==
  /\ pc[t] = "group"
  /\ pc' = [pc EXCEPT ![t] = "lock"]
  /\ call' = [call EXCEPT ![t].rule = index]
  /\ todo' = [todo EXCEPT ![t] = ShardsOf(ConflictIds(index, call[t].node))]
  /\ UNCHANGED <<entries, index, clock, held, found>>

LockShard(t, s) ==
  /\ pc[t] = "lock"
  /\ IsNext(t, s)
  /\ CanLock(t, s)
  /\ held' = [held EXCEPT ![t] = @ \cup {s}]
  /\ todo' = [todo EXCEPT ![t] = @ \ {s}]
  /\ UNCHANGED <<entries, index, clock, pc, call, found>>

\* Mutant: the whole group is cleared for the caller, expired or not.
PurgeMutant(t) ==
  /\ pc[t] = "lock" /\ todo[t] = {} /\ call[t].op = "reserve"
  /\ entries' = Erased({n \in Group(t) : HeldByOther(n, call[t].owner)})
  /\ pc' = [pc EXCEPT ![t] = "check"]
  /\ UNCHANGED <<index, clock, call, todo, held, found>>

\* tryReserve drops the group's holds that had expired when it started.
Purge(t) ==
  /\ pc[t] = "lock" /\ todo[t] = {} /\ call[t].op = "reserve"
  /\ entries' = Erased({n \in Group(t) : Expired(n, call[t].began)})
  /\ pc' = [pc EXCEPT ![t] = "check"]
  /\ UNCHANGED <<index, clock, call, todo, held, found>>

\* tryReserve returns false: a node of the group has another owner.
Refuse(t) ==
  /\ pc[t] = "check"
  /\ \E n \in Group(t) : HeldByOther(n, call[t].owner)
  /\ Return(t)
  /\ UNCHANGED <<entries, index, clock, todo>>

\* Mutant: only the node itself is checked, not its group.
PassMutant(t) ==
  /\ pc[t] = "check"
  /\ ~HeldByOther(call[t].node, call[t].owner)
  /\ pc' = [pc EXCEPT ![t] = "write"]
  /\ UNCHANGED <<entries, index, clock, call, todo, held, found>>

Pass(t) ==
  /\ pc[t] = "check"
  /\ \A n \in Group(t) : ~HeldByOther(n, call[t].owner)
  /\ pc' = [pc EXCEPT ![t] = "write"]
  /\ UNCHANGED <<entries, index, clock, call, todo, held, found>>

\* Mutant: the expiry of a hold that has none is computed all the same, as the time left.
WriteMutant(t) ==
  /\ pc[t] = "write"
  /\ entries' = [entries EXCEPT ![call[t].node] =
                   [owner |-> call[t].owner,
                    expiresAt |-> call[t].ttl - call[t].began,
                    rule |-> call[t].rule]]
  /\ Return(t)
  /\ UNCHANGED <<index, clock, todo>>

\* A new hold or a refreshed one; tryReserve returns true.
Write(t) ==
  /\ pc[t] = "write"
  /\ entries' = [entries EXCEPT ![call[t].node] =
                   [owner |-> call[t].owner,
                    expiresAt |-> IF call[t].ttl > 0 THEN call[t].began + call[t].ttl ELSE 0,
                    rule |-> call[t].rule]]
  /\ Return(t)
  /\ UNCHANGED <<index, clock, todo>>

\* The group's live holds of others; the code returns the first it meets.
Blocking(t) == {n \in Group(t) : HeldByOther(n, call[t].owner) /\ ~Expired(n, call[t].began)}

Look(t) ==
  /\ pc[t] = "lock" /\ todo[t] = {} /\ call[t].op = "find"
  /\ pc' = [pc EXCEPT ![t] = "answer"]
  /\ found' = [found EXCEPT ![t] = Blocking(t)]
  /\ UNCHANGED <<entries, index, clock, call, todo, held>>

\* A query's result reaches its caller; findBlockingHold keeps its locks until then.
Answer(t) ==
  /\ pc[t] = "answer"
  /\ Return(t)
  /\ UNCHANGED <<entries, index, clock, todo>>

-----------------------------------------------------------------------------
(* The calls that visit shards one at a time.  A visit locks one shard,     *)
(* changes it and unlocks it: one step, possible when nobody holds it.      *)

Visit(t, s) == IsNext(t, s) /\ CanLock(t, s) /\ todo' = [todo EXCEPT ![t] = @ \ {s}]

\* release: an expired hold goes whoever owns it, a live one only for its owner.
EraseNode(t, s) ==
  /\ pc[t] = "erase"
  /\ Visit(t, s)
  /\ entries' = Erased({n \in {call[t].node} :
                          Expired(n, call[t].began) \/ ~HeldByOther(n, call[t].owner)})
  /\ Return(t)
  /\ UNCHANGED <<index, clock>>

\* releaseAllByOwnerExceptSet and cleanupExpired, one shard.
SweepShard(t, s) ==
  /\ pc[t] = "sweep"
  /\ Visit(t, s)
  /\ entries' = Erased({n \in NodesIn(s) :
                          \/ Expired(n, call[t].began)
                          \/ ~HeldByOther(n, call[t].owner) /\ n \notin call[t].keep})
  /\ UNCHANGED <<index, clock, pc, call, held, found>>

\* The sweep has visited every shard.
Swept(t) ==
  /\ pc[t] = "sweep" /\ todo[t] = {}
  /\ Return(t)
  /\ UNCHANGED <<entries, index, clock, todo>>

-----------------------------------------------------------------------------

\* configureDistanceConflict: the next map's groups are built aside and moved in
\* under the index lock.  The entries and the calls in progress are not touched.
ConfigureDistanceConflict(m) ==
  /\ index' = m
  /\ UNCHANGED <<entries, clock, pc, call, todo, held, found>>

Tick ==
  /\ clock < MaxTime
  /\ clock' = clock + 1
  /\ UNCHANGED <<entries, index, pc, call, todo, held, found>>

Start(t) ==
  \/ \E n \in Node, o \in Owner :
       \/ \E ttl \in Ttl : TryReserve(t, n, o, ttl)
       \/ Release(t, n, o)
  \/ \E n \in Node, o \in Owner \cup {NoOwner} : FindBlockingHold(t, n, o)
  \/ \E o \in Owner \cup {NoOwner}, keep \in KeepSets : ReleaseAll(t, o, keep)

Step(t) ==
  \/ ReadGroup(t)
  \/ \E s \in Shard : LockShard(t, s) \/ EraseNode(t, s) \/ SweepShard(t, s)
  \/ Purge(t) \/ Refuse(t) \/ Pass(t) \/ Write(t)
  \/ Look(t) \/ Answer(t) \/ Swept(t)

Init ==
  /\ entries = [n \in Node |-> NoHold]
  /\ index \in Map
  /\ clock = 0
  /\ pc = [t \in Thread |-> "idle"]
  /\ call = [t \in Thread |-> NoCall]
  /\ todo = [t \in Thread |-> {}]
  /\ held = [t \in Thread |-> {}]
  /\ found = [t \in Thread |-> {}]

Next ==
  \/ \E t \in Thread : Start(t) \/ Step(t)
  \/ \E m \in Map : ConfigureDistanceConflict(m)
  \/ Tick

Spec == Init /\ [][Next]_vars

-----------------------------------------------------------------------------
(* Properties.                                                              *)

Labels == {"idle", "group", "lock", "check", "write", "erase", "sweep", "answer"}

\* Type invariant of the table and of the calls in progress.
TypeOK ==
  /\ entries \in [Node -> Hold \cup {NoHold}]
  /\ index \in Map
  /\ clock \in Time
  /\ pc \in [Thread -> Labels]
  /\ call \in [Thread -> Call \cup {NoCall}]
  /\ todo \in [Thread -> SUBSET Shard]
  /\ held \in [Thread -> SUBSET Shard]
  /\ found \in [Thread -> SUBSET Node]

Live(n) == entries[n] # NoHold /\ ~Expired(n, clock)

\* What tryReserve is for: two live holds of nodes within the distance threshold
\* of each other belong to one AGV.  True while the map stays the same.
MutualExclusion ==
  \A a, b \in Node :
    Live(a) /\ Live(b) /\ b \in ConflictIds(index, a) => entries[a].owner = entries[b].owner

\* Whatever map is loaded in the meantime, two holds granted under the same map's
\* groups never conflict with each other, expired ones that are still stored included:
\* the check and the write of tryReserve act as one step although they are several.
GrantsExclusive ==
  \A a, b \in Node :
    /\ entries[a] # NoHold /\ entries[b] # NoHold
    /\ entries[a].rule = entries[b].rule
    /\ b \in ConflictIds(entries[a].rule, a)
    => entries[a].owner = entries[b].owner

Moves(t) == pc'[t] # pc[t] \/ todo'[t] # todo[t]

\* A hold that has not expired is changed or dropped only by a call for its owner,
\* and never by a release that was told to keep its node: no purge, cleanup or
\* reservation of another AGV takes a live hold, though the time they compare with
\* is older than the clock.
LiveHoldsKept ==
  [][\A n \in Node :
       Live(n) /\ entries'[n] # entries[n] =>
         \E t \in Thread :
           /\ Moves(t)
           /\ call[t] # NoCall
           /\ call[t].owner = entries[n].owner
           /\ call[t].op \in {"reserve", "release", "sweep"}
           /\ n \notin call[t].keep]_vars

Waiting(t) == \E s \in todo[t] : IsNext(t, s) /\ ~CanLock(t, s)

\* Threads never wait for one another in a circle: some call can always go on.
NoCircularWait ==
  (\E t \in Thread : pc[t] # "idle") =>
    \E t \in Thread : pc[t] # "idle" /\ ~Waiting(t)

\* findBlockingHold answers with what the table holds at that moment for the whole
\* group, though it reads node after node: writers wait for its shared locks.
AnswerIsCurrent ==
  \A t \in Thread :
    pc[t] = "answer" /\ call[t].op = "find" => found[t] = Blocking(t)

-----------------------------------------------------------------------------
(* The table implements the registry: what other threads see of a call is   *)
(* one grant or one drop at a time.                                         *)

Registry == INSTANCE LeaseRegistry WITH lease <- entries

\* Every step of a call grants at most one lease, under the abstract module's
\* condition on the whole conflict group, drops only leases that are over or the
\* calling owner's, or changes nothing a caller can see.
ImplementsRegistry == Registry!Spec

=============================================================================
