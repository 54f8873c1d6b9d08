--------------------------- MODULE ReservedWindow ---------------------------
(***************************************************************************)
(* The window of one vehicle on one map: the nodes it has reserved, the    *)
(* route last sent to it, its targets, and the trail it drives on.         *)
(*                                                                         *)
(* Three threads change them: the receiver (status messages, trail and     *)
(* around-path requests), the replan ticker, and the scheduling worker     *)
(* that commits new plans.  Each reads a copy from the repository, works,  *)
(* and writes back.  Every access to the repository or to the reservation  *)
(* table is a step of its own, but releases that follow one another, and   *)
(* a release followed at once by a reservation of the current node, are    *)
(* one.  The planner is an oracle: it may return any route of the map to   *)
(* the goal, or none.                                                      *)
(*                                                                         *)
(* Nothing in the code keeps the threads from overlapping; Serial lets a   *)
(* configuration study what they do one at a time.                         *)
(*                                                                         *)
(* The vehicle drives along the trail it was sent and cannot take back a   *)
(* point of it.  Other vehicles take and leave nodes; what they keep from  *)
(* this one is blocked.                                                    *)
(***************************************************************************)
EXTENDS Integers, Sequences, SequencesExt, FiniteSets

CONSTANTS
  Node,        \* nodes of the map, positive numbers
  Edge,        \* edges of the map: pairs of nodes
  Home,        \* the node the vehicle starts from
  Goals,       \* target sequences a plan may have
  Thread,      \* the threads
  Duty,        \* Duty[t]: what thread t does
  Serial,      \* whether a thread begins only when the others are idle
  Budget,      \* TRAIL_MAX_POINTS: longest window, unless more is committed
  MaxPlans     \* bound on how many plans are committed

NoNode == 0

ASSUME WindowAssumption ==
  /\ Node \subseteq Nat \ {NoNode}
  /\ IsFiniteSet(Node)
  /\ Edge \subseteq Node \X Node
  /\ Home \in Node
  /\ Goals \subseteq Seq(Node) \ {<<>>}
  /\ Duty \in [Thread -> SUBSET {"status", "trail", "around", "replan", "super", "commit"}]
  /\ Serial \in BOOLEAN
  /\ Budget \in Nat \ {0, 1}
  /\ MaxPlans \in Nat

VARIABLES
  plan,        \* plans_: id (0: none yet) and targets of the current plan
  rt,          \* runtime_: id of its plan (0: no entry), targets, reservedNodes, statusMismatchNodeId
  lastSent,    \* lastSentRoute of trailProgress_
  holds,       \* holds[n]: the vehicle's hold on n: none, one that expires, one that stays
  blocked,     \* nodes that the holds of other vehicles keep from this one
  seen,        \* the node of the cached status
  trail,       \* the vehicle: its node, followed by the points sent to it and still ahead
  thread,      \* thread[t]: pc and local variables
  upset        \* history: the code has let go of the window or of the route last sent,
               \* knowingly, or a window has come back to a node it holds already

vars == <<plan, rt, lastSent, holds, blocked, seen, trail, thread, upset>>

NoRuntime == [id |-> 0, targets |-> <<>>, reserved |-> <<>>, mismatch |-> NoNode]

Local == [pc |-> "idle", start |-> NoNode, id |-> 0, rt |-> NoRuntime, sent |-> <<>>,
          route |-> <<>>, got |-> 0]

Held == {n \in Node : holds[n] # "none"}

-----------------------------------------------------------------------------
(* Routes.                                                                  *)

\* The simple paths of the map.
Path == {p \in UNION {[1 .. k -> Node] : k \in 1 .. Cardinality(Node)} :
           /\ IsInjective(p)
           /\ \A i \in 1 .. Len(p) - 1 : <<p[i], p[i + 1]>> \in Edge}

PathsTo(a, b) == {p \in Path : p[1] = a /\ Last(p) = b}

\* s from the first n on, as std::find and erase leave it.
From(s, n) == SubSeq(s, SelectInSeq(s, LAMBDA m : m = n), Len(s))

\* s from some n on: which one depends on how far the trail had come.
FromSome(s, n) == {SubSeq(s, i, Len(s)) : i \in {j \in 1 .. Len(s) : s[j] = n}}

\* Whether s has anything left after n.
GoesOn(s, n) == s # <<>> /\ Last(s) # n

\* Targets without those at the front that are at n.
Reached(targets, n) ==
  IF \A i \in 1 .. Len(targets) : targets[i] = n THEN <<>>
  ELSE SubSeq(targets, SelectInSeq(targets, LAMBDA m : m # n), Len(targets))

-----------------------------------------------------------------------------
(* The reservation table, seen by this vehicle.                             *)

\* tryReserve: refused if another vehicle is in the way.
Grants(n) == n \notin blocked

Reserve(n, kind) == IF Grants(n) THEN [holds EXCEPT ![n] = kind] ELSE holds

\* releaseAllByOwnerExceptSet.
Keeping(nodes) == [n \in Node |-> IF n \in nodes THEN holds[n] ELSE "none"]

\* The same, and then the current node reserved without end.
KeepingOnly(n) == [m \in Node |-> IF m # n THEN "none"
                                  ELSE IF Grants(n) THEN "kept" ELSE holds[n]]

-----------------------------------------------------------------------------
(* Steps that several procedures share.  Each is one call of the table or   *)
(* the repository; the tables say where the caller goes on.                 *)

Become(t, local) == thread' = [thread EXCEPT ![t] = local]

Goto(t, pc) == Become(t, [thread[t] EXCEPT !.pc = pc])

Finish(t) == Become(t, Local)

\* A thread turns to this vehicle.  No lock keeps the others away.
Begin(t) ==
  /\ thread[t].pc = "idle"
  /\ Serial => \A u \in Thread : thread[u].pc = "idle"

\* Give up everything but the current node, points ahead included.
AfterGiveUp == [idle_release |-> "idle_store", reset |-> "reset_store",
                super |-> "super_sent", rest |-> "rest_sent"]

GiveUp(t) ==
  LET self == thread[t] IN
  /\ self.pc \in DOMAIN AfterGiveUp
  /\ holds' = IF self.pc \in {"idle_release", "super"} THEN KeepingOnly(self.start)
              ELSE Keeping({self.start})
  /\ Become(t, [self EXCEPT !.pc = AfterGiveUp[self.pc], !.rt.reserved = <<self.start>>,
                            !.rt.mismatch = IF self.pc \in {"idle_release", "reset"} THEN NoNode
                                              ELSE @])
  /\ upset' = (upset \/ GoesOn(lastSent, self.start) \/ GoesOn(self.rt.reserved, self.start))
  /\ UNCHANGED <<plan, rt, lastSent, blocked, seen, trail>>

\* updateReservedNodesAndMismatchOnly: no matter which plan is current.
AfterStore == [store |-> "read_sent", idle_store |-> "idle_sent", reset_store |-> "reset_sent",
               super_store |-> "plan"]

StoreReserved(t) ==
  LET self == thread[t] IN
  /\ self.pc \in DOMAIN AfterStore
  /\ rt' = IF rt.id = 0 THEN rt
           ELSE [rt EXCEPT !.reserved = self.rt.reserved,
                     !.mismatch = IF self.pc = "super_store" THEN NoNode ELSE self.rt.mismatch]
  /\ Goto(t, AfterStore[self.pc])
  /\ UNCHANGED <<plan, lastSent, holds, blocked, seen, trail, upset>>

\* updateLastSentRoute with the current node alone.
AfterSent == [idle_sent |-> "idle", reset_sent |-> "refresh", realign |-> "plan", realign_super |-> "super",
              super_sent |-> "super_store", rest_sent |-> "rest_write"]

SentOnlyHere(t) ==
  LET self == thread[t] IN
  /\ self.pc \in DOMAIN AfterSent
  /\ lastSent' = <<self.start>>
  /\ IF self.pc = "idle_sent" THEN Finish(t) ELSE Goto(t, AfterSent[self.pc])
  /\ UNCHANGED <<plan, rt, holds, blocked, seen, trail, upset>>

-----------------------------------------------------------------------------
(* The status handler.                                                      *)

\* updateStatus.  A vehicle without a task reports idle; it has nowhere to go then.
StatusArrives(t, idle) ==
  /\ Begin(t)
  /\ "status" \in Duty[t]
  /\ idle => Len(trail) = 1
  /\ seen' = trail[1]
  /\ Become(t, [Local EXCEPT !.pc = IF idle THEN "snapshot_idle" ELSE "snapshot",
                             !.start = trail[1]])
  /\ UNCHANGED <<plan, rt, lastSent, holds, blocked, trail, upset>>

Snapshot(t) ==
  LET self == thread[t] IN
  /\ self.pc \in {"snapshot", "snapshot_idle"}
  /\ Become(t, [self EXCEPT !.pc = IF @ = "snapshot" THEN "advance" ELSE "advance_idle",
                            !.rt = [rt EXCEPT !.id = 0, !.targets = <<>>]])
  /\ UNCHANGED <<plan, rt, lastSent, holds, blocked, seen, trail, upset>>

\* advanceTargets.
Advance(t) ==
  LET self == thread[t] IN
  /\ self.pc \in {"advance", "advance_idle"}
  /\ rt' = [rt EXCEPT !.targets = Reached(@, self.start)]
  /\ Goto(t, IF self.pc = "advance" THEN "decide" ELSE "idle_release")
  /\ UNCHANGED <<plan, lastSent, holds, blocked, seen, trail, upset>>

\* peekTarget: nothing left to do is as good as idle.
DecideIdle(t) ==
  /\ thread[t].pc = "decide"
  /\ rt.targets = <<>>
  /\ Goto(t, "idle_release")
  /\ UNCHANGED <<plan, rt, lastSent, holds, blocked, seen, trail, upset>>

\* Nodes of the copied window that the vehicle has passed are released.
DecideTrim(t) ==
  LET self == thread[t]
      window == self.rt.reserved IN
  /\ self.pc = "decide"
  /\ rt.targets # <<>>
  /\ self.start \in Range(window)
  /\ LET ahead == From(window, self.start)
         passed == Range(SubSeq(window, 1, Len(window) - Len(ahead))) IN
     /\ holds' = [n \in Node |-> IF n \in passed THEN "none" ELSE holds[n]]
     /\ Become(t, [self EXCEPT !.pc = "store", !.rt.reserved = ahead, !.rt.mismatch = NoNode])
  /\ UNCHANGED <<plan, rt, lastSent, blocked, seen, trail, upset>>

\* The vehicle is outside its window: wait and see ...
DecideKeep(t) ==
  LET self == thread[t] IN
  /\ self.pc = "decide"
  /\ rt.targets # <<>>
  /\ self.start \notin Range(self.rt.reserved)
  /\ IF self.rt.reserved = <<>> THEN Goto(t, "refresh")
     ELSE Become(t, [self EXCEPT !.pc = IF self.rt.mismatch = self.start THEN "read_sent" ELSE "store",
                                 !.rt.mismatch = self.start])
  /\ UNCHANGED <<plan, rt, lastSent, holds, blocked, seen, trail, upset>>

\* ... or, when it has been for STATUS_MISMATCH_RESET_MS, start a new window.
DecideReset(t) ==
  LET self == thread[t] IN
  /\ self.pc = "decide"
  /\ rt.targets # <<>>
  /\ self.start \notin Range(self.rt.reserved)
  /\ self.rt.reserved # <<>>
  /\ self.rt.mismatch # NoNode
  /\ Goto(t, "reset")
  /\ UNCHANGED <<plan, rt, lastSent, holds, blocked, seen, trail, upset>>

\* The last sent route is read ...
ReadSent(t) ==
  LET self == thread[t] IN
  /\ self.pc = "read_sent"
  /\ IF self.start \in Range(lastSent) /\ lastSent[1] # self.start
     THEN Become(t, [self EXCEPT !.pc = "write_sent", !.rt = NoRuntime, !.sent = lastSent])
     ELSE Goto(t, "refresh")
  /\ UNCHANGED <<plan, rt, lastSent, holds, blocked, seen, trail, upset>>

\* ... and written back without the nodes passed: what was appended meanwhile is lost.
WriteSent(t) ==
  LET self == thread[t] IN
  /\ self.pc = "write_sent"
  /\ lastSent' = From(self.sent, self.start)
  /\ Goto(t, "refresh")
  /\ UNCHANGED <<plan, rt, holds, blocked, seen, trail, upset>>

\* The holds of the window are renewed, and the current node is held.
Refresh(t) ==
  LET self == thread[t] IN
  /\ self.pc = "refresh"
  /\ Become(t, [Local EXCEPT !.pc = "renew", !.start = self.start, !.sent = lastSent,
                  !.route = IF self.start \in Range(rt.reserved) THEN rt.reserved
                            ELSE Append(rt.reserved, self.start)])
  /\ UNCHANGED <<plan, rt, lastSent, holds, blocked, seen, trail, upset>>

\* A refused node is logged and stays in the window.
Renew(t) ==
  LET self == thread[t]
      n == self.route[1] IN
  /\ self.pc = "renew"
  /\ holds' = Reserve(n, IF n = self.start \/ n \in Range(self.sent) THEN "kept" ELSE "expires")
  /\ IF Len(self.route) = 1 THEN Finish(t)
     ELSE Become(t, [self EXCEPT !.route = Tail(@)])
  /\ UNCHANGED <<plan, rt, lastSent, blocked, seen, trail, upset>>

-----------------------------------------------------------------------------
(* The planner, compute_dynamic_plan_to_next_target.                        *)

\* The ticker takes the plan from a snapshot, the start from the cached status.
ReplanBegin(t) ==
  /\ Begin(t)
  /\ Duty[t] \cap {"replan", "super"} # {}
  /\ plan.id # 0
  /\ Become(t, [Local EXCEPT !.pc = "locate", !.id = plan.id])
  /\ UNCHANGED <<plan, rt, lastSent, holds, blocked, seen, trail, upset>>

\* Mutant: a position that cannot be resolved is not noticed.
LocateMutant(t) ==
  /\ thread[t].pc = "locate"
  /\ Become(t, [thread[t] EXCEPT !.pc = "copy", !.start = NoNode])
  /\ UNCHANGED <<plan, rt, lastSent, holds, blocked, seen, trail, upset>>

Locate(t) ==
  LET self == thread[t] IN
  /\ self.pc = "locate"
  /\ Become(t, [self EXCEPT !.pc = "copy", !.start = seen])
  /\ UNCHANGED <<plan, rt, lastSent, holds, blocked, seen, trail, upset>>

\* snapshotRuntimeState.  After long standstill the stage is SUPER.
Copy(t) ==
  LET self == thread[t] IN
  /\ self.pc = "copy"
  /\ \/ "replan" \in Duty[t] /\ Become(t, [self EXCEPT !.pc = "align", !.rt = rt])
     \/ "super" \in Duty[t] /\ Become(t, [self EXCEPT !.pc = "align_super", !.rt = rt])
     \/ Duty[t] \cap {"commit", "around"} # {} /\ Become(t, [self EXCEPT !.pc = "align", !.rt = rt])
  /\ UNCHANGED <<plan, rt, lastSent, holds, blocked, seen, trail, upset>>

\* The window to keep is the route last sent, or else the reserved nodes, from the start
\* on; a start outside of it makes a new window.  SUPER starts anew in any case.
Align(t) ==
  LET self == thread[t]
      window == IF lastSent # <<>> /\ self.pc = "align" THEN lastSent ELSE self.rt.reserved
      inside == self.start \in Range(window)
      lost == window # <<>> /\ ~inside IN
  /\ self.pc \in {"align", "align_super"}
  /\ Become(t, [self EXCEPT
       !.pc = CASE self.pc = "align" -> IF lost THEN "realign" ELSE "plan"
              [] OTHER -> IF lost THEN "realign_super" ELSE "super",
       !.rt.reserved = IF inside THEN From(window, self.start) ELSE <<self.start>>,
       !.rt.targets = Reached(@, self.start)])
  /\ UNCHANGED <<plan, rt, lastSent, holds, blocked, seen, trail, upset>>

\* Mutant: the window to keep does not bind the planner.
RoutesMutant(window, goal) == PathsTo(window[1], goal)

\* The routes the planner may come up with: they begin with the window to keep.
Routes(window, goal) ==
  IF Len(window) = 1 THEN PathsTo(window[1], goal)
  ELSE {window} \cup {window \o Tail(p) : p \in PathsTo(Last(window), goal)}

\* No target left.
PlanNothing(t) ==
  /\ thread[t].pc = "plan"
  /\ thread[t].rt.targets = <<>>
  /\ Goto(t, "rest")
  /\ UNCHANGED <<plan, rt, lastSent, holds, blocked, seen, trail, upset>>

\* The goal cannot be reached: the window stays as it is, and so does a forgotten route.
PlanFails(t) ==
  /\ thread[t].pc = "plan"
  /\ thread[t].rt.targets # <<>>
  /\ Goto(t, "rest_write")
  /\ upset' = (upset \/ lastSent = <<>>)
  /\ UNCHANGED <<plan, rt, lastSent, holds, blocked, seen, trail>>

\* As much of the route is to be reserved as may be sent, and all of the window to keep.
PlanRoute(t) ==
  LET self == thread[t]
      window == self.rt.reserved
      limit == IF Len(window) > Budget THEN Len(window) ELSE Budget IN
  /\ self.pc = "plan"
  /\ self.rt.targets # <<>>
  /\ \E r \in Routes(window, self.rt.targets[1]) :
       Become(t, [self EXCEPT !.pc = "reserve", !.sent = window,
                    !.route = SubSeq(r, 1, IF Len(r) < limit THEN Len(r) ELSE limit)])
  /\ UNCHANGED <<plan, rt, lastSent, holds, blocked, seen, trail, upset>>

\* reserve_route, node after node.
ReserveNode(t) ==
  LET self == thread[t]
      n == self.route[self.got + 1] IN
  /\ self.pc \in {"reserve", "retry"}
  /\ self.got < Len(self.route)
  /\ Grants(n)
  /\ holds' = Reserve(n, IF n = self.start \/ n \in Range(self.sent) THEN "kept" ELSE "expires")
  /\ Become(t, [self EXCEPT !.got = @ + 1])
  /\ UNCHANGED <<plan, rt, lastSent, blocked, seen, trail, upset>>

\* All reserved, or refused after some: what was reserved is the new window.
Reserved(t) ==
  LET self == thread[t] IN
  /\ self.pc \in {"reserve", "retry"}
  /\ self.got < Len(self.route) => ~Grants(self.route[self.got + 1])
  /\ ~(self.pc = "reserve" /\ self.got <= 1 /\ Len(self.sent) > 1)
  /\ LET window == IF self.got = 0 THEN <<self.start>> ELSE SubSeq(self.route, 1, self.got) IN
     /\ Become(t, [self EXCEPT !.pc = "release", !.sent = <<>>, !.route = <<>>, !.got = 0,
                               !.rt.reserved = window])
     /\ upset' = (upset \/ ~IsInjective(window))
  /\ UNCHANGED <<plan, rt, lastSent, holds, blocked, seen, trail>>

\* Refused at once, although there was a window: try to keep that one.
KeepOld(t) ==
  LET self == thread[t] IN
  /\ self.pc = "reserve"
  /\ self.got < Len(self.route) => ~Grants(self.route[self.got + 1])
  /\ self.got <= 1 /\ Len(self.sent) > 1
  /\ Become(t, [self EXCEPT !.pc = "retry", !.route = self.sent, !.got = 0])
  /\ UNCHANGED <<plan, rt, lastSent, holds, blocked, seen, trail, upset>>

\* Holds outside the new window are obsolete.
Release(t) ==
  LET self == thread[t] IN
  /\ self.pc = "release"
  /\ holds' = Keeping(Range(self.rt.reserved))
  /\ Goto(t, "write")
  /\ UNCHANGED <<plan, rt, lastSent, blocked, seen, trail, upset>>

\* Mutant: the plan that was planned for is not compared with the current one.
WriteBackMutant(t) ==
  LET self == thread[t] IN
  /\ self.pc \in {"write", "rest_write"}
  /\ rt' = self.rt
  /\ IF self.pc = "write"
     THEN Become(t, [self EXCEPT !.pc = "commit", !.sent = self.rt.reserved, !.rt = NoRuntime])
     ELSE Finish(t)
  /\ UNCHANGED <<plan, lastSent, holds, blocked, seen, trail, upset>>

\* updateRuntimeState, unless the plan has been replaced.
WriteBack(t) ==
  LET self == thread[t] IN
  /\ self.pc \in {"write", "rest_write"}
  /\ rt' = IF rt.id \in {0, self.id} THEN self.rt ELSE rt
  /\ IF self.pc = "write"
     THEN Become(t, [self EXCEPT !.pc = "commit", !.sent = self.rt.reserved, !.rt = NoRuntime])
     ELSE Finish(t)
  /\ UNCHANGED <<plan, lastSent, holds, blocked, seen, trail, upset>>

\* updateLastSentRoute, in any case.
CommitWindow(t) ==
  LET self == thread[t] IN
  /\ self.pc = "commit"
  /\ lastSent' = self.sent
  /\ Finish(t)
  /\ UNCHANGED <<plan, rt, holds, blocked, seen, trail, upset>>

-----------------------------------------------------------------------------
(* New plans: the commit of a scheduling result, and around-path requests.  *)

CommitBegin(t) ==
  /\ Begin(t)
  /\ "commit" \in Duty[t]
  /\ plan.id < MaxPlans
  /\ Become(t, [Local EXCEPT !.pc = "committed", !.start = seen])
  /\ UNCHANGED <<plan, rt, lastSent, holds, blocked, seen, trail, upset>>

Committed(t) ==
  LET self == thread[t] IN
  /\ self.pc = "committed"
  /\ Become(t, [self EXCEPT !.pc = "clear", !.sent = lastSent])
  /\ UNCHANGED <<plan, rt, lastSent, holds, blocked, seen, trail, upset>>

\* Mutant: the route last sent is not kept.
ClearMutant(t) ==
  LET self == thread[t] IN
  /\ self.pc = "clear"
  /\ holds' = KeepingOnly(self.start)
  /\ Become(t, [self EXCEPT !.pc = "update", !.sent = <<>>])
  /\ UNCHANGED <<plan, rt, lastSent, blocked, seen, trail, upset>>

\* Only the current node and the route last sent are kept.
Clear(t) ==
  LET self == thread[t] IN
  /\ self.pc = "clear"
  /\ holds' = [n \in Node |->
       IF n = self.start THEN IF Grants(n) THEN "kept" ELSE holds[n]
       ELSE IF n \in Range(self.sent) THEN holds[n] ELSE "none"]
  /\ Become(t, [self EXCEPT !.pc = "update", !.sent = <<>>])
  /\ UNCHANGED <<plan, rt, lastSent, blocked, seen, trail, upset>>

\* An obstacle was reported: the rest of the plan is planned anew, from the node nearest
\* to the coordinates given, which may be off the window.
AroundBegin(t, n) ==
  /\ Begin(t)
  /\ "around" \in Duty[t]
  /\ plan.id \in 1 .. MaxPlans - 1
  /\ n = seen \/ <<seen, n>> \in Edge \/ <<n, seen>> \in Edge
  /\ Become(t, [Local EXCEPT !.pc = "update", !.start = n, !.rt.targets = plan.goals])
  /\ upset' = (upset \/ n # seen)
  /\ UNCHANGED <<plan, rt, lastSent, holds, blocked, seen, trail>>

\* updatePlan keeps the reserved nodes and forgets the route last sent; the planning that
\* follows restores it.
UpdatePlan(t, goals) ==
  LET self == thread[t] IN
  /\ self.pc = "update"
  /\ plan.id < MaxPlans
  /\ self.rt.targets # <<>> => IsSuffix(goals, self.rt.targets)
  /\ plan' = [id |-> plan.id + 1, goals |-> goals]
  /\ rt' = [rt EXCEPT !.id = plan.id + 1, !.targets = goals, !.mismatch = NoNode]
  /\ lastSent' = <<>>
  /\ Goto(t, "fetch")
  /\ UNCHANGED <<holds, blocked, seen, trail, upset>>

\* getPlan.
Fetch(t) ==
  /\ thread[t].pc = "fetch"
  /\ Become(t, [thread[t] EXCEPT !.pc = "copy", !.id = plan.id])
  /\ UNCHANGED <<plan, rt, lastSent, holds, blocked, seen, trail, upset>>

-----------------------------------------------------------------------------
(* Trail requests, build_trail_response_for_device.                         *)

TrailBegin(t) ==
  /\ Begin(t)
  /\ "trail" \in Duty[t]
  /\ plan.id # 0
  /\ Become(t, [Local EXCEPT !.pc = "build", !.start = seen])
  /\ UNCHANGED <<plan, rt, lastSent, holds, blocked, seen, trail, upset>>

\* The reserved nodes from the vehicle on; without any, the planned route.
TrailRoutes(n) ==
  IF rt.reserved = <<>>
  THEN {<<n>>} \cup UNION {PathsTo(n, g) : g \in Range(plan.goals)}
  ELSE IF n \in Range(rt.reserved) THEN FromSome(From(rt.reserved, n), n)
  ELSE {<<n>> \o rt.reserved}

\* The points of the answer: to the target of the subtask asked for, if it is on the
\* route, and not too many.  With nothing reserved they may be any way to go.
Build(t) ==
  LET self == thread[t] IN
  /\ self.pc = "build"
  /\ \E r \in TrailRoutes(self.start) : \E k \in 1 .. Len(r) :
       /\ k <= Budget
       /\ k = Len(r) \/ k = Budget \/ r[k] \in Range(plan.goals)
       /\ Become(t, [self EXCEPT !.pc = "check", !.route = SubSeq(r, 1, k)])
  /\ upset' = (upset \/ rt.reserved = <<>>)
  /\ UNCHANGED <<plan, rt, lastSent, holds, blocked, seen, trail>>

\* The answer has to begin with what was sent and not driven yet.  One point is no trail:
\* the vehicle is at most told to wait.
Check(t) ==
  LET self == thread[t] IN
  /\ self.pc = "check"
  /\ \/ /\ lastSent = <<>>
        /\ IF Len(self.route) < 2 THEN Finish(t) ELSE Goto(t, "reserve_trail")
     \/ /\ lastSent # <<>>
        /\ self.start \notin Range(lastSent)
        /\ Finish(t)
     \/ \E remaining \in FromSome(lastSent, self.start) :
          LET answer == IF IsPrefix(remaining, self.route) THEN self.route ELSE remaining IN
          IF Len(answer) < 2 THEN Finish(t)
          ELSE Become(t, [self EXCEPT !.pc = "reserve_trail", !.sent = remaining,
                                      !.route = answer])
  /\ UNCHANGED <<plan, rt, lastSent, holds, blocked, seen, trail, upset>>

\* Each point is reserved without end.
ReserveTrail(t) ==
  LET self == thread[t]
      n == self.route[self.got + 1] IN
  /\ self.pc = "reserve_trail"
  /\ self.got < Len(self.route)
  /\ Grants(n)
  /\ holds' = Reserve(n, "kept")
  /\ Become(t, [self EXCEPT !.got = @ + 1])
  /\ UNCHANGED <<plan, rt, lastSent, blocked, seen, trail, upset>>

\* Not even the points sent before: no answer.
TrailFails(t) ==
  LET self == thread[t] IN
  /\ self.pc = "reserve_trail"
  /\ self.got < Len(self.route)
  /\ ~Grants(self.route[self.got + 1])
  /\ self.got < Len(self.sent)
  /\ Finish(t)
  /\ UNCHANGED <<plan, rt, lastSent, holds, blocked, seen, trail, upset>>

\* updateLastSentRoute with the points that were reserved.
Record(t) ==
  LET self == thread[t] IN
  /\ self.pc = "reserve_trail"
  /\ self.got < Len(self.route) => /\ ~Grants(self.route[self.got + 1])
                                   /\ self.got >= Len(self.sent)
  /\ lastSent' = IF self.got = 0 THEN lastSent ELSE SubSeq(self.route, 1, self.got)
  /\ Goto(t, "publish")
  /\ UNCHANGED <<plan, rt, holds, blocked, seen, trail, upset>>

\* The answer was put together before its points were reserved: all of them are sent, not
\* only those of Record.  The vehicle goes on from its node.
Publish(t) ==
  LET answer == thread[t].route IN
  /\ thread[t].pc = "publish"
  /\ trail' = IF trail[1] \in Range(answer) THEN From(answer, trail[1]) ELSE trail
  /\ Finish(t)
  /\ UNCHANGED <<plan, rt, lastSent, holds, blocked, seen, upset>>

-----------------------------------------------------------------------------
(* The vehicle and the others.                                              *)

Drive ==
  /\ Len(trail) > 1
  /\ trail' = Tail(trail)
  /\ UNCHANGED <<plan, rt, lastSent, holds, blocked, seen, thread, upset>>

\* A hold with a time to live ends.
Expire(n) ==
  /\ holds[n] = "expires"
  /\ holds' = [holds EXCEPT ![n] = "none"]
  /\ UNCHANGED <<plan, rt, lastSent, blocked, seen, trail, thread, upset>>

\* Another vehicle reserves a node that is free, or leaves one.
OtherTakes(n) ==
  /\ n \notin blocked
  /\ holds[n] = "none"
  /\ blocked' = blocked \cup {n}
  /\ UNCHANGED <<plan, rt, lastSent, holds, seen, trail, thread, upset>>

OtherLeaves(n) ==
  /\ n \in blocked
  /\ blocked' = blocked \ {n}
  /\ UNCHANGED <<plan, rt, lastSent, holds, seen, trail, thread, upset>>

-----------------------------------------------------------------------------

\* The vehicle stands at home, without a plan, and its status has been handled.
Init ==
  /\ plan = [id |-> 0, goals |-> <<>>]
  /\ rt = NoRuntime
  /\ lastSent = <<Home>>
  /\ holds = [n \in Node |-> IF n = Home THEN "kept" ELSE "none"]
  /\ blocked = {}
  /\ seen = Home
  /\ trail = <<Home>>
  /\ thread = [t \in Thread |-> Local]
  /\ upset = FALSE

ReceiverStep(t) ==
  \/ \E idle \in BOOLEAN : StatusArrives(t, idle)
  \/ Snapshot(t)
  \/ Advance(t)
  \/ DecideIdle(t)
  \/ DecideTrim(t)
  \/ DecideKeep(t)
  \/ DecideReset(t)
  \/ ReadSent(t)
  \/ WriteSent(t)
  \/ Refresh(t)
  \/ Renew(t)
  \/ TrailBegin(t)
  \/ Build(t)
  \/ Check(t)
  \/ ReserveTrail(t)
  \/ TrailFails(t)
  \/ Record(t)
  \/ Publish(t)

PlannerStep(t) ==
  \/ ReplanBegin(t)
  \/ Locate(t)
  \/ Copy(t)
  \/ Align(t)
  \/ PlanNothing(t)
  \/ PlanFails(t)
  \/ PlanRoute(t)
  \/ ReserveNode(t)
  \/ Reserved(t)
  \/ KeepOld(t)
  \/ Release(t)
  \/ WriteBack(t)
  \/ CommitWindow(t)

PlanStep(t) ==
  \/ CommitBegin(t)
  \/ Committed(t)
  \/ Clear(t)
  \/ \E n \in Node : AroundBegin(t, n)
  \/ \E goals \in Goals : UpdatePlan(t, goals)
  \/ Fetch(t)

SharedStep(t) == GiveUp(t) \/ StoreReserved(t) \/ SentOnlyHere(t)

Environment == Drive \/ \E n \in Node : Expire(n) \/ OtherTakes(n) \/ OtherLeaves(n)

Next ==
  \/ \E t \in Thread : ReceiverStep(t) \/ PlannerStep(t) \/ PlanStep(t) \/ SharedStep(t)
  \/ Environment

Spec == Init /\ [][Next]_vars

-----------------------------------------------------------------------------

\* Nodes are nodes of the map wherever the code keeps them.
TypeOK ==
  /\ plan \in [id : 0 .. MaxPlans, goals : Seq(Node)]
  /\ rt \in [id : 0 .. MaxPlans, targets : Seq(Node), reserved : Seq(Node),
             mismatch : Node \cup {NoNode}]
  /\ lastSent \in Seq(Node)
  /\ holds \in [Node -> {"none", "expires", "kept"}]
  /\ blocked \subseteq Node
  /\ seen \in Node
  /\ trail \in Seq(Node) \ {<<>>}
  /\ upset \in BOOLEAN

\* The node the vehicle is on, and every node ahead that it was sent to, is held for it:
\* the trimming, replanning and committing of windows never frees a point already sent,
\* unless the window was given up, the route last sent forgotten, or a window has come back
\* to a node it holds (upset): that node is released when it is passed, though it lies ahead.
TrailHeld == upset \/ Range(trail) \subseteq Held

\* An answer continues the points sent before and never takes one back, with the same
\* exceptions.  The check against lastSentRoute and the planner's committed prefix are
\* there for this.
NeverRetracted ==
  [][upset' \/ trail' = Tail(trail) \/ IsPrefix(trail, trail')]_vars

\* What is left to do belongs to the current plan, a suffix of its targets: no thread
\* that worked on an older plan writes its targets back over those of the new one.
TargetsOfPlan ==
  rt.id = plan.id /\ IsSuffix(rt.targets, plan.goals)

\* Only points held for the vehicle are sent to it.
OnlyReservedSent ==
  [][Range(trail') \subseteq Range(trail) \cup Held]_vars

=============================================================================
