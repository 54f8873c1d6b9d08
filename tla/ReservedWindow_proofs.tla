------------------------ MODULE ReservedWindow_proofs ------------------------
(***************************************************************************)
(* Proofs about ReservedWindow, for every map, every set of threads with   *)
(* whatever duties, overlapping or one at a time: nodes are nodes of the   *)
(* map wherever the code keeps them, and what is left to do always belongs *)
(* to the current plan.                                                    *)
(*                                                                         *)
(* For threads that take turns, also: the nodes the vehicle was sent to    *)
(* are held for it until it has passed them, and no answer takes one back. *)
(***************************************************************************)
EXTENDS ReservedWindow, NumberSets, FiniteSetTheorems, TLAPS

-----------------------------------------------------------------------------
(* Sequences of nodes.                                                      *)

\* What is left of a sequence from some position on.
LEMMA RestType ==
  ASSUME NEW s \in Seq(Node), NEW i \in 1 .. Len(s)
  PROVE  /\ SubSeq(s, i, Len(s)) \in Seq(Node)
         /\ Len(SubSeq(s, i, Len(s))) = Len(s) - i + 1
         /\ SubSeq(s, i, Len(s)) # <<>>
<1>1. /\ SubSeq(s, i, Len(s)) \in Seq(Node)
      /\ Len(SubSeq(s, i, Len(s))) = Len(s) - i + 1
  OBVIOUS
<1>2. Len(s) - i + 1 # 0
  OBVIOUS
<1>3. SubSeq(s, i, Len(s)) # <<>>
  BY <1>1, <1>2
<1> QED BY <1>1, <1>3

\* What is left of a sequence after its first node.
LEMMA TailType ==
  ASSUME NEW s \in Seq(Node), s # <<>>
  PROVE  Tail(s) \in Seq(Node) /\ (Len(s) # 1 => Tail(s) # <<>>)
<1>1. Len(s) \in Nat \ {0}
  OBVIOUS
<1>2. Tail(s) \in Seq(Node) /\ Len(Tail(s)) = Len(s) - 1
  BY <1>1
<1>3. ASSUME Len(s) # 1 PROVE Tail(s) # <<>>
  <2>1. Len(Tail(s)) # 0
    BY <1>1, <1>2, <1>3
  <2>2. Len(<<>>) = 0
    OBVIOUS
  <2>3. PICK r : r = Tail(s)
    OBVIOUS
  <2> QED BY <2>1, <2>2, <2>3
<1> QED BY <1>2, <1>3

\* The first of some positions.
LEMMA FirstOf ==
  ASSUME NEW I, I \subseteq Nat, I # {}
  PROVE  Min(I) \in I
<1>1. PICK n \in Nat : n \in I
  OBVIOUS
<1>2. \E i \in I : \A j \in I : i <= j
  BY LeastExists
<1> QED BY <1>2 DEF Min

\* A sequence from a node it holds on.
LEMMA FromType ==
  ASSUME NEW s \in Seq(Node), NEW n \in Range(s)
  PROVE  From(s, n) \in Seq(Node) /\ From(s, n) # <<>>
<1>1. PICK I : I = {i \in 1 .. Len(s) : s[i] = n}
  OBVIOUS
<1>2. I # {} /\ I \subseteq Nat /\ I \subseteq 1 .. Len(s)
  BY <1>1 DEF Range
<1>3. From(s, n) = SubSeq(s, IF {i \in 1 .. Len(s) : s[i] = n} # {}
                             THEN Min({i \in 1 .. Len(s) : s[i] = n}) ELSE 0, Len(s))
  BY Zenon DEF From, SelectInSeq
<1>4. From(s, n) = SubSeq(s, Min(I), Len(s)) /\ Min(I) \in 1 .. Len(s)
  BY <1>1, <1>2, <1>3, FirstOf
<1> QED BY <1>4, RestType

\* Targets are left out at the front only.
LEMMA ReachedType ==
  ASSUME NEW s \in Seq(Node), NEW n
  PROVE  /\ Reached(s, n) \in Seq(Node)
         /\ Reached(s, n) = <<>> \/ \E i \in 1 .. Len(s) : Reached(s, n) = SubSeq(s, i, Len(s))
<1>1. CASE \A i \in 1 .. Len(s) : s[i] = n
  <2>1. <<>> \in Seq(Node)
    OBVIOUS
  <2>2. Reached(s, n) = <<>>
    BY <1>1 DEF Reached
  <2> QED BY <2>1, <2>2
<1>2. CASE ~\A i \in 1 .. Len(s) : s[i] = n
  <2>1. PICK I : I = {i \in 1 .. Len(s) : s[i] # n}
    OBVIOUS
  <2>2. I # {} /\ I \subseteq Nat /\ I \subseteq 1 .. Len(s)
    BY <1>2, <2>1
  <2>3. Reached(s, n) = SubSeq(s, IF {i \in 1 .. Len(s) : s[i] # n} # {}
                                  THEN Min({i \in 1 .. Len(s) : s[i] # n}) ELSE 0, Len(s))
    BY <1>2, Zenon DEF Reached, SelectInSeq
  <2>4. Reached(s, n) = SubSeq(s, Min(I), Len(s)) /\ Min(I) \in 1 .. Len(s)
    BY <2>1, <2>2, <2>3, FirstOf
  <2> QED BY <2>4, RestType
<1> QED BY <1>1, <1>2

\* A sequence is a suffix of another if it is what is left of it from some position on.
LEMMA SuffixIs ==
  ASSUME NEW s \in Seq(Node), NEW u \in Seq(Node)
  PROVE  IsSuffix(u, s) <=> /\ Len(u) <= Len(s)
                            /\ \A i \in 1 .. Len(u) : u[i] = s[Len(s) - Len(u) + i]
<1>1. PICK ru, rs : ru = Reverse(u) /\ rs = Reverse(s)
  OBVIOUS
<1>2. /\ ru \in Seq(Node) /\ Len(ru) = Len(u) /\ \A i \in 1 .. Len(u) : ru[i] = u[(Len(u) - i) + 1]
      /\ rs \in Seq(Node) /\ Len(rs) = Len(s) /\ \A i \in 1 .. Len(s) : rs[i] = s[(Len(s) - i) + 1]
  BY <1>1 DEF Reverse
<1>3. IsSuffix(u, s) <=> Len(u) <= Len(s) /\ SubSeq(ru, 1, Len(u)) = SubSeq(rs, 1, Len(u))
  BY <1>1, <1>2 DEF IsSuffix, IsPrefix
<1>4. ASSUME Len(u) <= Len(s)
      PROVE  SubSeq(ru, 1, Len(u)) = SubSeq(rs, 1, Len(u)) <=> \A i \in 1 .. Len(u) : ru[i] = rs[i]
  BY <1>2, <1>4
<1>5. ASSUME Len(u) <= Len(s), \A i \in 1 .. Len(u) : ru[i] = rs[i], NEW i \in 1 .. Len(u)
      PROVE  u[i] = s[Len(s) - Len(u) + i]
  <2>1. PICK j : j = Len(u) - i + 1
    OBVIOUS
  <2>2. j \in 1 .. Len(u) /\ j \in 1 .. Len(s)
    BY <1>5, <2>1
  <2>3. (Len(u) - j) + 1 = i /\ (Len(s) - j) + 1 = Len(s) - Len(u) + i
    BY <2>1
  <2> QED BY <1>2, <1>5, <2>2, <2>3
<1>6. ASSUME Len(u) <= Len(s), \A i \in 1 .. Len(u) : u[i] = s[Len(s) - Len(u) + i],
             NEW i \in 1 .. Len(u)
      PROVE  ru[i] = rs[i]
  <2>1. PICK j : j = Len(u) - i + 1
    OBVIOUS
  <2>2. j \in 1 .. Len(u) /\ i \in 1 .. Len(s)
    BY <1>6, <2>1
  <2>3. (Len(u) - i) + 1 = j /\ (Len(s) - i) + 1 = Len(s) - Len(u) + j
    BY <2>1
  <2> QED BY <1>2, <1>6, <2>2, <2>3
<1> QED BY <1>3, <1>4, <1>5, <1>6

-----------------------------------------------------------------------------
(* What is known of a thread where it is: its locals are of their types,    *)
(* and those that a place uses are set.                                     *)

RuntimeType == [id : 0 .. MaxPlans, targets : Seq(Node), reserved : Seq(Node),
                mismatch : Node \cup {NoNode}]

\* Where a thread may be, by the code it is in.
InStatus == {"snapshot", "snapshot_idle", "advance", "advance_idle", "decide", "store",
             "idle_release", "idle_store", "idle_sent", "reset", "reset_store", "reset_sent",
             "read_sent", "write_sent", "refresh", "renew"}

InPlanner == {"align", "align_super", "realign", "realign_super", "super", "super_sent",
              "super_store", "plan", "rest", "rest_sent", "rest_write", "reserve", "retry",
              "release", "write"}

InTrail == {"build", "check", "reserve_trail", "publish"}

Place == {"idle", "locate", "copy", "commit", "committed", "clear", "update", "fetch"}
           \cup InStatus \cup InPlanner \cup InTrail

LocalType == [pc : Place, start : Node \cup {NoNode}, id : 0 .. MaxPlans, rt : RuntimeType,
              sent : Seq(Node), route : Seq(Node), got : Nat]

\* Where nodes of a route are counted.
Counting == {"reserve", "retry", "reserve_trail"}

LocalOK(l) ==
  /\ l \in LocalType
  /\ l.pc \notin {"idle", "locate"} => l.start \in Node
  /\ l.pc = "renew" => l.route # <<>>
  /\ l.pc = "write_sent" => l.start \in Range(l.sent)
  /\ l.pc \in Counting => l.got <= Len(l.route)
  /\ l.pc \notin Counting \cup {"publish"} => l.got = 0

\* The inductive invariant behind the types.
TypeInv ==
  /\ TypeOK
  /\ thread \in [Thread -> LocalType]
  /\ \A t \in Thread : LocalOK(thread[t])

\* A step that leaves the locals of one thread in order leaves all of them in order.
LEMMA BecomeOK ==
  ASSUME TypeInv, NEW t \in Thread, NEW l, LocalOK(l), Become(t, l)
  PROVE  thread' \in [Thread -> LocalType] /\ \A u \in Thread : LocalOK(thread'[u])
<1>1. l \in LocalType
  BY DEF LocalOK
<1>2. thread' = [thread EXCEPT ![t] = l] /\ thread \in [Thread -> LocalType]
  BY DEF Become, TypeInv
<1>3. thread' \in [Thread -> LocalType]
  BY <1>1, <1>2
<1>4. ASSUME NEW u \in Thread PROVE LocalOK(thread'[u])
  <2>1. CASE u = t
    BY <1>2, <2>1
  <2>2. CASE u # t
    <3>1. thread'[u] = thread[u]
      BY <1>2, <2>2
    <3> QED BY <3>1 DEF TypeInv
  <2> QED BY <2>1, <2>2
<1> QED BY <1>3, <1>4

\* An idle thread knows nothing.
LEMMA IdleOK == LocalOK(Local) /\ Local \in LocalType /\ NoRuntime \in RuntimeType
<1>1. 0 \in 0 .. MaxPlans /\ <<>> \in Seq(Node)
  BY WindowAssumption
<1>2. NoRuntime \in RuntimeType
  BY <1>1 DEF NoRuntime, RuntimeType
<1>3. /\ Local = [pc |-> "idle", start |-> NoNode, id |-> 0, rt |-> NoRuntime, sent |-> <<>>,
                   route |-> <<>>, got |-> 0]
      /\ NoNode \in Node \cup {NoNode}
  BY DEF Local
<1>4. Local \in LocalType
  BY <1>1, <1>2, <1>3 DEF LocalType, Place
<1> QED BY <1>2, <1>4 DEF LocalOK, Local, Counting

\* A thread that is neither counting nor about to use a route is in order if it has a start.
LEMMA PlainOK ==
  ASSUME NEW l \in LocalType, l.start \in Node, l.got = 0, l.pc \notin {"renew", "write_sent"}
  PROVE  LocalOK(l)
<1>1. l.route \in Seq(Node)
  BY DEF LocalType
<1>2. l.got <= Len(l.route)
  BY <1>1
<1> QED BY <1>2 DEF LocalOK

\* The steps that only move on.
LEMMA GotoOK ==
  ASSUME TypeInv, NEW t \in Thread, NEW pc \in Place, thread[t].pc \notin Counting \cup {"publish"},
         pc \notin {"renew", "write_sent"}, thread[t].start \in Node, Goto(t, pc)
  PROVE  thread' \in [Thread -> LocalType] /\ \A u \in Thread : LocalOK(thread'[u])
<1>1. PICK l : l = [thread[t] EXCEPT !.pc = pc]
  OBVIOUS
<1>2. thread[t] \in LocalType /\ LocalOK(thread[t])
  BY DEF TypeInv
<1>3. /\ l \in LocalType /\ l.pc = pc /\ l.start = thread[t].start /\ l.sent = thread[t].sent
      /\ l.route = thread[t].route /\ l.got = thread[t].got
  BY <1>1, <1>2 DEF LocalType
<1>4. l.got = 0
  BY <1>2, <1>3 DEF LocalOK
<1>5. l.got <= Len(l.route)
  <2>1. l.route \in Seq(Node)
    BY <1>3 DEF LocalType
  <2> QED BY <1>4, <2>1
<1>6. LocalOK(l)
  BY <1>3, <1>4, <1>5 DEF LocalOK
<1> QED BY <1>1, <1>6, BecomeOK DEF Goto

\* A thread that is done has the locals it began with.
LEMMA FinishOK ==
  ASSUME TypeInv, NEW t \in Thread, Finish(t)
  PROVE  thread' \in [Thread -> LocalType] /\ \A u \in Thread : LocalOK(thread'[u])
BY IdleOK, BecomeOK DEF Finish

\* The invariant after a step, part by part.
LEMMA TypedAgain ==
  ASSUME TypeOK', thread' \in [Thread -> LocalType], \A u \in Thread : LocalOK(thread'[u])
  PROVE  TypeInv'
BY DEF TypeInv

\* What the invariant says of one thread and of what all share.
LEMMA TypedNow ==
  ASSUME TypeInv, NEW t \in Thread
  PROVE  /\ TypeOK
         /\ LocalOK(thread[t])
         /\ thread[t].pc \in Place /\ thread[t].start \in Node \cup {NoNode}
         /\ thread[t].id \in 0 .. MaxPlans /\ thread[t].rt \in RuntimeType
         /\ thread[t].sent \in Seq(Node) /\ thread[t].route \in Seq(Node) /\ thread[t].got \in Nat
         /\ rt \in RuntimeType /\ plan.id \in 0 .. MaxPlans /\ plan.goals \in Seq(Node)
<1>1. thread[t] \in LocalType /\ LocalOK(thread[t]) /\ TypeOK
  BY DEF TypeInv
<1>2. rt \in RuntimeType /\ plan.id \in 0 .. MaxPlans /\ plan.goals \in Seq(Node)
  BY <1>1 DEF TypeOK, RuntimeType
<1> QED BY <1>1, <1>2 DEF LocalType

\* The status handler's steps.
LEMMA StatusTypes ==
  ASSUME TypeInv, NEW t \in Thread
  PROVE  /\ \A idle \in BOOLEAN : StatusArrives(t, idle) => TypeInv'
         /\ Snapshot(t) \/ Advance(t) => TypeInv'
         /\ DecideIdle(t) \/ DecideTrim(t) \/ DecideKeep(t) \/ DecideReset(t) => TypeInv'
         /\ ReadSent(t) \/ WriteSent(t) \/ Refresh(t) \/ Renew(t) => TypeInv'
<1>1. PICK self : self = thread[t]
  OBVIOUS
<1>2. /\ TypeOK /\ LocalOK(self)
      /\ self \in LocalType
      /\ self.pc \in Place /\ self.start \in Node \cup {NoNode}
      /\ self.id \in 0 .. MaxPlans /\ self.rt \in RuntimeType
      /\ self.sent \in Seq(Node) /\ self.route \in Seq(Node) /\ self.got \in Nat
      /\ rt \in RuntimeType
  BY <1>1, TypedNow DEF LocalOK
<1>3. ASSUME NEW idle \in BOOLEAN, StatusArrives(t, idle) PROVE TypeInv'
  <2>1. PICK l : l = [Local EXCEPT !.pc = IF idle THEN "snapshot_idle" ELSE "snapshot",
                                   !.start = trail[1]]
    OBVIOUS
  <2>2. trail[1] \in Node
    BY <1>2 DEF TypeOK
  <2>3. LocalOK(l)
    BY <2>1, <2>2, IdleOK DEF LocalOK, LocalType, Place, InStatus, Counting, Local
  <2>4. thread' \in [Thread -> LocalType] /\ \A u \in Thread : LocalOK(thread'[u])
    BY <1>3, <2>1, <2>3, BecomeOK DEF StatusArrives
  <2>5. TypeOK'
    BY <1>2, <1>3, <2>2 DEF StatusArrives, TypeOK
  <2> QED BY <2>4, <2>5, TypedAgain
<1>4. ASSUME Snapshot(t) PROVE TypeInv'
  <2>1. PICK l : l = [self EXCEPT !.pc = IF @ = "snapshot" THEN "advance" ELSE "advance_idle",
                                  !.rt = [rt EXCEPT !.id = 0, !.targets = <<>>]]
    OBVIOUS
  <2>2. [rt EXCEPT !.id = 0, !.targets = <<>>] \in RuntimeType
    <3>1. 0 \in 0 .. MaxPlans /\ <<>> \in Seq(Node)
      BY WindowAssumption
    <3> QED BY <1>2, <3>1 DEF RuntimeType
  <2>3. LocalOK(l)
    BY <1>1, <1>2, <1>4, <2>1, <2>2 DEF Snapshot, LocalOK, LocalType, Place, InStatus, Counting
  <2>4. thread' \in [Thread -> LocalType] /\ \A u \in Thread : LocalOK(thread'[u])
    BY <1>1, <1>4, <2>1, <2>3, BecomeOK DEF Snapshot
  <2>5. TypeOK'
    BY <1>2, <1>4 DEF Snapshot, TypeOK
  <2> QED BY <2>4, <2>5, TypedAgain
<1>5. ASSUME Advance(t) PROVE TypeInv'
  <2>1. thread' \in [Thread -> LocalType] /\ \A u \in Thread : LocalOK(thread'[u])
    BY <1>1, <1>2, <1>5, GotoOK DEF Advance, LocalOK, Place, InStatus, Counting
  <2>2. TypeOK'
    <3>1. Reached(rt.targets, self.start) \in Seq(Node)
      BY <1>2, ReachedType DEF RuntimeType
    <3>2. rt' = [rt EXCEPT !.targets = Reached(@, self.start)]
      BY <1>1, <1>5 DEF Advance
    <3> QED BY <1>2, <1>5, <3>1, <3>2 DEF Advance, TypeOK
  <2> QED BY <2>1, <2>2, TypedAgain
<1>6. ASSUME DecideIdle(t) PROVE TypeInv'
  <2>1. thread' \in [Thread -> LocalType] /\ \A u \in Thread : LocalOK(thread'[u])
    BY <1>1, <1>2, <1>6, GotoOK DEF DecideIdle, LocalOK, Place, InStatus, Counting
  <2>2. TypeOK'
    BY <1>2, <1>6 DEF DecideIdle, TypeOK
  <2> QED BY <2>1, <2>2, TypedAgain
<1>7. ASSUME DecideTrim(t) PROVE TypeInv'
  <2>1. PICK ahead : ahead = From(self.rt.reserved, self.start)
    OBVIOUS
  <2>2. self.rt.reserved \in Seq(Node) /\ self.start \in Range(self.rt.reserved)
    BY <1>1, <1>2, <1>7 DEF DecideTrim, RuntimeType
  <2>3. ahead \in Seq(Node)
    BY <2>1, <2>2, FromType
  <2>4. PICK l : l = [self EXCEPT !.pc = "store", !.rt.reserved = ahead, !.rt.mismatch = NoNode]
    OBVIOUS
  <2>5. LocalOK(l)
    BY <1>1, <1>2, <1>7, <2>3, <2>4
       DEF DecideTrim, LocalOK, LocalType, RuntimeType, Place, InStatus, Counting
  <2>6. thread' \in [Thread -> LocalType] /\ \A u \in Thread : LocalOK(thread'[u])
    BY <1>1, <1>7, <2>1, <2>4, <2>5, BecomeOK DEF DecideTrim
  <2>7. TypeOK'
    BY <1>2, <1>7 DEF DecideTrim, TypeOK
  <2> QED BY <2>6, <2>7, TypedAgain
<1>8. ASSUME DecideKeep(t) PROVE TypeInv'
  <2>1. TypeOK'
    BY <1>2, <1>8 DEF DecideKeep, TypeOK
  <2>2. CASE self.rt.reserved = <<>>
    <3>1. thread' \in [Thread -> LocalType] /\ \A u \in Thread : LocalOK(thread'[u])
      BY <1>1, <1>2, <1>8, <2>2, GotoOK DEF DecideKeep, LocalOK, Place, InStatus, Counting
    <3> QED BY <2>1, <3>1, TypedAgain
  <2>3. CASE self.rt.reserved # <<>>
    <3>1. PICK l : l = [self EXCEPT
                          !.pc = IF self.rt.mismatch = self.start THEN "read_sent" ELSE "store",
                          !.rt.mismatch = self.start]
      OBVIOUS
    <3>2. LocalOK(l)
      BY <1>1, <1>2, <1>8, <3>1
         DEF DecideKeep, LocalOK, LocalType, RuntimeType, Place, InStatus, Counting
    <3>3. thread' \in [Thread -> LocalType] /\ \A u \in Thread : LocalOK(thread'[u])
      BY <1>1, <1>8, <2>3, <3>1, <3>2, BecomeOK DEF DecideKeep
    <3> QED BY <2>1, <3>3, TypedAgain
  <2> QED BY <2>2, <2>3
<1>9. ASSUME DecideReset(t) PROVE TypeInv'
  <2>1. thread' \in [Thread -> LocalType] /\ \A u \in Thread : LocalOK(thread'[u])
    BY <1>1, <1>2, <1>9, GotoOK DEF DecideReset, LocalOK, Place, InStatus, Counting
  <2>2. TypeOK'
    BY <1>2, <1>9 DEF DecideReset, TypeOK
  <2> QED BY <2>1, <2>2, TypedAgain
<1>10. ASSUME ReadSent(t) PROVE TypeInv'
  <2>1. TypeOK'
    BY <1>2, <1>10 DEF ReadSent, TypeOK
  <2>2. CASE self.start \in Range(lastSent) /\ lastSent[1] # self.start
    <3>1. PICK l : l = [self EXCEPT !.pc = "write_sent", !.rt = NoRuntime, !.sent = lastSent]
      OBVIOUS
    <3>2. LocalOK(l)
      BY <1>1, <1>2, <1>10, <2>2, <3>1, IdleOK
         DEF ReadSent, LocalOK, LocalType, Place, InStatus, Counting, TypeOK
    <3>3. thread' \in [Thread -> LocalType] /\ \A u \in Thread : LocalOK(thread'[u])
      BY <1>1, <1>10, <2>2, <3>1, <3>2, BecomeOK DEF ReadSent
    <3> QED BY <2>1, <3>3, TypedAgain
  <2>3. CASE ~(self.start \in Range(lastSent) /\ lastSent[1] # self.start)
    <3>1. thread' \in [Thread -> LocalType] /\ \A u \in Thread : LocalOK(thread'[u])
      BY <1>1, <1>2, <1>10, <2>3, GotoOK DEF ReadSent, LocalOK, Place, InStatus, Counting
    <3> QED BY <2>1, <3>1, TypedAgain
  <2> QED BY <2>2, <2>3
<1>11. ASSUME WriteSent(t) PROVE TypeInv'
  <2>1. thread' \in [Thread -> LocalType] /\ \A u \in Thread : LocalOK(thread'[u])
    <3>1. self.pc \notin Counting \cup {"publish"} /\ self.start \in Node
      BY <1>1, <1>2, <1>11 DEF WriteSent, LocalOK, Counting
    <3> QED BY <1>1, <1>11, <3>1, GotoOK DEF WriteSent, Place, InStatus
  <2>2. From(self.sent, self.start) \in Seq(Node)
    BY <1>1, <1>2, <1>11, FromType DEF WriteSent, LocalOK
  <2>3. TypeOK'
    BY <1>1, <1>2, <1>11, <2>2 DEF WriteSent, TypeOK
  <2> QED BY <2>1, <2>3, TypedAgain
<1>12. ASSUME Refresh(t) PROVE TypeInv'
  <2>1. PICK route : route = IF self.start \in Range(rt.reserved) THEN rt.reserved
                             ELSE Append(rt.reserved, self.start)
    OBVIOUS
  <2>2. self.start \in Node /\ rt.reserved \in Seq(Node)
    BY <1>1, <1>2, <1>12 DEF Refresh, LocalOK, RuntimeType
  <2>3. route \in Seq(Node) /\ route # <<>>
    <3>1. CASE self.start \in Range(rt.reserved)
      <4>1. rt.reserved # <<>>
        BY <3>1 DEF Range
      <4> QED BY <2>1, <2>2, <3>1, <4>1
    <3>2. CASE self.start \notin Range(rt.reserved)
      BY <2>1, <2>2, <3>2
    <3> QED BY <3>1, <3>2
  <2>4. PICK l : l = [Local EXCEPT !.pc = "renew", !.start = self.start, !.sent = lastSent,
                                   !.route = route]
    OBVIOUS
  <2>5. LocalOK(l)
    BY <1>2, <2>2, <2>3, <2>4, IdleOK
       DEF LocalOK, LocalType, Place, InStatus, Counting, TypeOK, Local
  <2>6. thread' \in [Thread -> LocalType] /\ \A u \in Thread : LocalOK(thread'[u])
    BY <1>1, <1>12, <2>1, <2>4, <2>5, BecomeOK DEF Refresh
  <2>7. TypeOK'
    BY <1>2, <1>12 DEF Refresh, TypeOK
  <2> QED BY <2>6, <2>7, TypedAgain
<1>13. ASSUME Renew(t) PROVE TypeInv'
  <2>1. self.route \in Seq(Node) /\ self.route # <<>> /\ self.start \in Node
    BY <1>1, <1>2, <1>13 DEF Renew, LocalOK
  <2>2. TypeOK'
    <3>1. PICK n, kind : /\ n = self.route[1]
                         /\ kind = IF n = self.start \/ n \in Range(self.sent) THEN "kept" ELSE "expires"
      OBVIOUS
    <3>2. holds' = IF Grants(n) THEN [holds EXCEPT ![n] = kind] ELSE holds
      BY <1>1, <1>13, <3>1 DEF Renew, Reserve
    <3>3. holds' \in [Node -> {"none", "expires", "kept"}]
      BY <1>2, <3>1, <3>2 DEF TypeOK
    <3> QED BY <1>2, <1>13, <3>3 DEF Renew, TypeOK
  <2>3. CASE Len(self.route) = 1
    <3>1. Finish(t)
      BY <1>1, <1>13, <2>3 DEF Renew
    <3> QED BY <2>2, <3>1, FinishOK, TypedAgain
  <2>4. CASE Len(self.route) # 1
    <3>1. PICK l : l = [self EXCEPT !.route = Tail(@)]
      OBVIOUS
    <3>2. Tail(self.route) \in Seq(Node) /\ Tail(self.route) # <<>>
      BY <2>1, <2>4, TailType
    <3>3. LocalOK(l)
      BY <1>1, <1>2, <1>13, <2>1, <3>1, <3>2 DEF Renew, LocalOK, LocalType, Counting
    <3>4. thread' \in [Thread -> LocalType] /\ \A u \in Thread : LocalOK(thread'[u])
      BY <1>1, <1>13, <2>4, <3>1, <3>3, BecomeOK DEF Renew
    <3> QED BY <2>2, <3>4, TypedAgain
  <2> QED BY <2>3, <2>4
<1> QED BY <1>3, <1>4, <1>5, <1>6, <1>7, <1>8, <1>9, <1>10, <1>11, <1>12, <1>13

-----------------------------------------------------------------------------
(* Types: routes.                                                           *)

\* Paths are sequences of nodes.
LEMMA PathType ==
  ASSUME NEW a, NEW b, NEW p \in PathsTo(a, b)
  PROVE  p \in Seq(Node) /\ p # <<>> /\ Tail(p) \in Seq(Node)
<1>1. Cardinality(Node) \in Nat
  BY WindowAssumption, FS_CardinalityType
<1>2. PICK k \in 1 .. Cardinality(Node) : p \in [1 .. k -> Node]
  BY DEF PathsTo, Path
<1>3. k \in Nat \ {0}
  BY <1>1
<1>4. p \in Seq(Node) /\ Len(p) = k
  BY <1>2, <1>3
<1>5. p # <<>>
  BY <1>3, <1>4
<1> QED BY <1>4, <1>5, TailType

\* What a sequence begins with.
LEMMA PrefixType ==
  ASSUME NEW s \in Seq(Node), NEW k \in 0 .. Len(s)
  PROVE  SubSeq(s, 1, k) \in Seq(Node) /\ Len(SubSeq(s, 1, k)) = k
OBVIOUS

\* What the planner comes up with is a sequence of nodes.
LEMMA RoutesType ==
  ASSUME NEW window \in Seq(Node), NEW goal, NEW r \in Routes(window, goal)
  PROVE  r \in Seq(Node)
<1>1. CASE Len(window) = 1
  <2>1. r \in PathsTo(window[1], goal)
    BY <1>1 DEF Routes
  <2> QED BY <2>1, PathType
<1>2. CASE Len(window) # 1
  <2>1. r = window \/ \E p \in PathsTo(Last(window), goal) : r = window \o Tail(p)
    BY <1>2 DEF Routes
  <2>2. ASSUME NEW p \in PathsTo(Last(window), goal), r = window \o Tail(p) PROVE r \in Seq(Node)
    <3>1. Tail(p) \in Seq(Node)
      BY PathType
    <3> QED BY <2>2, <3>1
  <2> QED BY <2>1, <2>2
<1> QED BY <1>1, <1>2

\* So is what a sequence goes on with from some occurrence of a node.
LEMMA FromSomeType ==
  ASSUME NEW s \in Seq(Node), NEW n, NEW r \in FromSome(s, n)
  PROVE  r \in Seq(Node)
<1>1. PICK i \in 1 .. Len(s) : r = SubSeq(s, i, Len(s))
  BY DEF FromSome
<1> QED BY <1>1, RestType

\* And what a trail is built from.
LEMMA TrailRoutesType ==
  ASSUME rt.reserved \in Seq(Node), NEW n \in Node, NEW r \in TrailRoutes(n)
  PROVE  r \in Seq(Node)
<1>1. <<n>> \in Seq(Node)
  OBVIOUS
<1>2. CASE rt.reserved = <<>>
  <2>1. r = <<n>> \/ \E g \in Range(plan.goals) : r \in PathsTo(n, g)
    BY <1>2 DEF TrailRoutes
  <2> QED BY <1>1, <2>1, PathType
<1>3. CASE rt.reserved # <<>> /\ n \in Range(rt.reserved)
  <2>1. r \in FromSome(From(rt.reserved, n), n)
    BY <1>3 DEF TrailRoutes
  <2> QED BY <1>3, <2>1, FromType, FromSomeType
<1>4. CASE rt.reserved # <<>> /\ n \notin Range(rt.reserved)
  <2>1. r = <<n>> \o rt.reserved
    BY <1>4 DEF TrailRoutes
  <2> QED BY <1>1, <2>1
<1> QED BY <1>2, <1>3, <1>4

\* Releasing and reserving leave holds of the kinds there are.
LEMMA HoldsType ==
  ASSUME holds \in [Node -> {"none", "expires", "kept"}]
  PROVE  /\ \A n, kind : kind \in {"expires", "kept"} =>
              Reserve(n, kind) \in [Node -> {"none", "expires", "kept"}]
         /\ \A nodes : Keeping(nodes) \in [Node -> {"none", "expires", "kept"}]
         /\ \A n : KeepingOnly(n) \in [Node -> {"none", "expires", "kept"}]
BY DEF Reserve, Keeping, KeepingOnly

-----------------------------------------------------------------------------
(* Types: the planner.                                                      *)

\* The planner's steps.
LEMMA PlannerTypes ==
  ASSUME TypeInv, NEW t \in Thread
  PROVE  /\ ReplanBegin(t) \/ Locate(t) \/ Copy(t) \/ Align(t) => TypeInv'
         /\ PlanNothing(t) \/ PlanFails(t) \/ PlanRoute(t) => TypeInv'
         /\ ReserveNode(t) \/ Reserved(t) \/ KeepOld(t) => TypeInv'
         /\ Release(t) \/ WriteBack(t) \/ CommitWindow(t) => TypeInv'
<1>1. PICK self : self = thread[t]
  OBVIOUS
<1>2. /\ TypeOK /\ LocalOK(self)
      /\ self \in LocalType
      /\ self.pc \in Place /\ self.start \in Node \cup {NoNode}
      /\ self.id \in 0 .. MaxPlans /\ self.rt \in RuntimeType
      /\ self.sent \in Seq(Node) /\ self.route \in Seq(Node) /\ self.got \in Nat
      /\ rt \in RuntimeType /\ plan.id \in 0 .. MaxPlans
  BY <1>1, TypedNow DEF LocalOK
<1>3. ASSUME ReplanBegin(t) PROVE TypeInv'
  <2>1. PICK l : l = [Local EXCEPT !.pc = "locate", !.id = plan.id]
    OBVIOUS
  <2>2. LocalOK(l)
    BY <1>2, <2>1, IdleOK DEF LocalOK, LocalType, Place, InStatus, Counting, Local
  <2>3. thread' \in [Thread -> LocalType] /\ \A u \in Thread : LocalOK(thread'[u])
    BY <1>3, <2>1, <2>2, BecomeOK DEF ReplanBegin
  <2>4. TypeOK'
    BY <1>2, <1>3 DEF ReplanBegin, TypeOK
  <2> QED BY <2>3, <2>4, TypedAgain
<1>4. ASSUME Locate(t) PROVE TypeInv'
  <2>1. PICK l : l = [self EXCEPT !.pc = "copy", !.start = seen]
    OBVIOUS
  <2>2. seen \in Node
    BY <1>2 DEF TypeOK
  <2>3. LocalOK(l)
    BY <1>1, <1>2, <1>4, <2>1, <2>2 DEF Locate, LocalOK, LocalType, Place, Counting
  <2>4. thread' \in [Thread -> LocalType] /\ \A u \in Thread : LocalOK(thread'[u])
    BY <1>1, <1>4, <2>1, <2>3, BecomeOK DEF Locate
  <2>5. TypeOK'
    BY <1>2, <1>4 DEF Locate, TypeOK
  <2> QED BY <2>4, <2>5, TypedAgain
<1>5. ASSUME Copy(t) PROVE TypeInv'
  <2>1. PICK l : /\ \/ l = [self EXCEPT !.pc = "align", !.rt = rt]
                    \/ l = [self EXCEPT !.pc = "align_super", !.rt = rt]
                 /\ Become(t, l)
    BY <1>1, <1>5 DEF Copy
  <2>2. LocalOK(l)
    <3>1. self.start \in Node /\ self.got = 0
      BY <1>1, <1>2, <1>5 DEF Copy, LocalOK, Counting
    <3>2. "align" \in Place /\ "align_super" \in Place
      BY DEF Place, InPlanner
    <3>3. /\ l \in LocalType /\ l.start = self.start /\ l.got = self.got
          /\ l.pc \in {"align", "align_super"}
      BY <1>2, <2>1, <3>2 DEF LocalType
    <3> QED BY <3>1, <3>3, PlainOK
  <2>3. thread' \in [Thread -> LocalType] /\ \A u \in Thread : LocalOK(thread'[u])
    BY <2>1, <2>2, BecomeOK
  <2>4. TypeOK'
    BY <1>2, <1>5 DEF Copy, TypeOK
  <2> QED BY <2>3, <2>4, TypedAgain
<1>6. ASSUME Align(t) PROVE TypeInv'
  <2>1. PICK window : window = IF lastSent # <<>> /\ self.pc = "align" THEN lastSent
                               ELSE self.rt.reserved
    OBVIOUS
  <2>2. PICK kept, left : /\ kept = IF self.start \in Range(window) THEN From(window, self.start)
                                    ELSE <<self.start>>
                          /\ left = Reached(self.rt.targets, self.start)
    OBVIOUS
  <2>3. self.start \in Node /\ self.got = 0
    BY <1>1, <1>2, <1>6 DEF Align, LocalOK, Counting
  <2>4. window \in Seq(Node) /\ self.rt.targets \in Seq(Node)
    BY <1>2, <2>1 DEF TypeOK, RuntimeType
  <2>5. kept \in Seq(Node) /\ left \in Seq(Node)
    <3>1. <<self.start>> \in Seq(Node)
      BY <2>3
    <3> QED BY <2>2, <2>4, <3>1, FromType, ReachedType
  <2>6. PICK pc : /\ pc \in {"realign", "plan", "realign_super", "super"}
                  /\ Become(t, [self EXCEPT !.pc = pc, !.rt.reserved = kept, !.rt.targets = left])
    BY <1>1, <1>6, <2>1, <2>2 DEF Align
  <2>7. PICK l : l = [self EXCEPT !.pc = pc, !.rt.reserved = kept, !.rt.targets = left]
    OBVIOUS
  <2>8. LocalOK(l)
    <3>1. pc \in Place /\ pc \notin {"renew", "write_sent"}
      BY <2>6 DEF Place, InPlanner
    <3>2. [self.rt EXCEPT !.reserved = kept, !.targets = left] \in RuntimeType
      BY <1>2, <2>5 DEF RuntimeType
    <3>3. l = [self EXCEPT !.pc = pc, !.rt = [self.rt EXCEPT !.reserved = kept, !.targets = left]]
      BY <1>2, <2>7 DEF LocalType
    <3>4. l \in LocalType /\ l.pc = pc /\ l.start = self.start /\ l.got = self.got
      BY <1>2, <3>1, <3>2, <3>3 DEF LocalType
    <3> QED BY <2>3, <3>1, <3>4, PlainOK
  <2>9. thread' \in [Thread -> LocalType] /\ \A u \in Thread : LocalOK(thread'[u])
    BY <2>6, <2>7, <2>8, BecomeOK
  <2>10. TypeOK'
    BY <1>2, <1>6 DEF Align, TypeOK
  <2> QED BY <2>9, <2>10, TypedAgain
<1>7. ASSUME PlanNothing(t) PROVE TypeInv'
  <2>1. thread' \in [Thread -> LocalType] /\ \A u \in Thread : LocalOK(thread'[u])
    BY <1>1, <1>2, <1>7, GotoOK DEF PlanNothing, LocalOK, Place, InPlanner, Counting
  <2>2. TypeOK'
    BY <1>2, <1>7 DEF PlanNothing, TypeOK
  <2> QED BY <2>1, <2>2, TypedAgain
<1>8. ASSUME PlanFails(t) PROVE TypeInv'
  <2>1. thread' \in [Thread -> LocalType] /\ \A u \in Thread : LocalOK(thread'[u])
    BY <1>1, <1>2, <1>8, GotoOK DEF PlanFails, LocalOK, Place, InPlanner, Counting
  <2>2. TypeOK'
    BY <1>2, <1>8 DEF PlanFails, TypeOK
  <2> QED BY <2>1, <2>2, TypedAgain
<1>9. ASSUME PlanRoute(t) PROVE TypeInv'
  <2>1. PICK window, limit : /\ window = self.rt.reserved
                             /\ limit = IF Len(window) > Budget THEN Len(window) ELSE Budget
    OBVIOUS
  <2>2. window \in Seq(Node) /\ limit \in Nat /\ self.start \in Node /\ self.got = 0
    BY <1>1, <1>2, <1>9, <2>1, WindowAssumption DEF PlanRoute, RuntimeType, LocalOK, Counting
  <2>3. PICK r \in Routes(window, self.rt.targets[1]) :
          Become(t, [self EXCEPT !.pc = "reserve", !.sent = window,
                       !.route = SubSeq(r, 1, IF Len(r) < limit THEN Len(r) ELSE limit)])
    BY <1>1, <1>9, <2>1 DEF PlanRoute
  <2>4. PICK k : k = IF Len(r) < limit THEN Len(r) ELSE limit
    OBVIOUS
  <2>5. r \in Seq(Node) /\ k \in 0 .. Len(r)
    BY <2>2, <2>4, RoutesType
  <2>6. PICK cut : cut = SubSeq(r, 1, k) /\ cut \in Seq(Node) /\ 0 <= Len(cut)
    <3>1. SubSeq(r, 1, k) \in Seq(Node) /\ Len(SubSeq(r, 1, k)) = k
      BY <2>5, PrefixType
    <3>2. 0 <= k
      BY <2>5
    <3> QED BY <3>1, <3>2
  <2>7. PICK l : l = [self EXCEPT !.pc = "reserve", !.sent = window, !.route = cut]
    OBVIOUS
  <2>8. LocalOK(l)
    BY <1>2, <2>2, <2>6, <2>7 DEF LocalOK, LocalType, Place, InPlanner, Counting
  <2>9. thread' \in [Thread -> LocalType] /\ \A u \in Thread : LocalOK(thread'[u])
    BY <2>3, <2>4, <2>6, <2>7, <2>8, BecomeOK
  <2>10. TypeOK'
    BY <1>2, <1>9 DEF PlanRoute, TypeOK
  <2> QED BY <2>9, <2>10, TypedAgain
<1>10. ASSUME ReserveNode(t) PROVE TypeInv'
  <2>1. PICK l : l = [self EXCEPT !.got = @ + 1]
    OBVIOUS
  <2>2. LocalOK(l)
    <3>1. self.pc \in Counting /\ self.got + 1 <= Len(self.route) /\ self.got + 1 \in Nat
      BY <1>1, <1>2, <1>10 DEF ReserveNode, Counting
    <3>2. /\ l \in LocalType /\ l.pc = self.pc /\ l.start = self.start /\ l.route = self.route
          /\ l.got = self.got + 1
      BY <1>2, <2>1, <3>1 DEF LocalType
    <3> QED BY <1>2, <3>1, <3>2 DEF LocalOK, Counting
  <2>3. thread' \in [Thread -> LocalType] /\ \A u \in Thread : LocalOK(thread'[u])
    BY <1>1, <1>10, <2>1, <2>2, BecomeOK DEF ReserveNode
  <2>4. holds' \in [Node -> {"none", "expires", "kept"}]
    BY <1>2, <1>10, HoldsType DEF ReserveNode, TypeOK
  <2>5. TypeOK'
    BY <1>2, <1>10, <2>4 DEF ReserveNode, TypeOK
  <2> QED BY <2>3, <2>5, TypedAgain
<1>11. ASSUME Reserved(t) PROVE TypeInv'
  <2>1. PICK window : window = IF self.got = 0 THEN <<self.start>> ELSE SubSeq(self.route, 1, self.got)
    OBVIOUS
  <2>2. self.start \in Node /\ self.got \in 0 .. Len(self.route)
    BY <1>1, <1>2, <1>11 DEF Reserved, LocalOK, Counting
  <2>3. window \in Seq(Node)
    <3>1. <<self.start>> \in Seq(Node)
      BY <2>2
    <3> QED BY <1>2, <2>1, <2>2, <3>1, PrefixType
  <2>4. PICK l : l = [self EXCEPT !.pc = "release", !.sent = <<>>, !.route = <<>>, !.got = 0,
                                  !.rt.reserved = window]
    OBVIOUS
  <2>5. <<>> \in Seq(Node) /\ 0 \in Nat
    OBVIOUS
  <2>6. LocalOK(l)
    BY <1>2, <2>2, <2>3, <2>4, <2>5
       DEF LocalOK, LocalType, RuntimeType, Place, InPlanner, Counting
  <2>7. thread' \in [Thread -> LocalType] /\ \A u \in Thread : LocalOK(thread'[u])
    BY <1>1, <1>11, <2>1, <2>4, <2>6, BecomeOK DEF Reserved
  <2>8. TypeOK'
    BY <1>2, <1>11 DEF Reserved, TypeOK
  <2> QED BY <2>7, <2>8, TypedAgain
<1>12. ASSUME KeepOld(t) PROVE TypeInv'
  <2>1. PICK l : l = [self EXCEPT !.pc = "retry", !.route = self.sent, !.got = 0]
    OBVIOUS
  <2>2. LocalOK(l)
    <3>1. 0 <= Len(self.sent) /\ 0 \in Nat
      BY <1>2
    <3> QED BY <1>1, <1>2, <1>12, <2>1, <3>1
            DEF KeepOld, LocalOK, LocalType, Place, InPlanner, Counting
  <2>3. thread' \in [Thread -> LocalType] /\ \A u \in Thread : LocalOK(thread'[u])
    BY <1>1, <1>12, <2>1, <2>2, BecomeOK DEF KeepOld
  <2>4. TypeOK'
    BY <1>2, <1>12 DEF KeepOld, TypeOK
  <2> QED BY <2>3, <2>4, TypedAgain
<1>13. ASSUME Release(t) PROVE TypeInv'
  <2>1. thread' \in [Thread -> LocalType] /\ \A u \in Thread : LocalOK(thread'[u])
    BY <1>1, <1>2, <1>13, GotoOK DEF Release, LocalOK, Place, InPlanner, Counting
  <2>2. holds' \in [Node -> {"none", "expires", "kept"}]
    BY <1>2, <1>13, HoldsType DEF Release, TypeOK
  <2>3. TypeOK'
    BY <1>2, <1>13, <2>2 DEF Release, TypeOK
  <2> QED BY <2>1, <2>3, TypedAgain
<1>14. ASSUME WriteBack(t) PROVE TypeInv'
  <2>1. rt' = self.rt \/ rt' = rt
    BY <1>1, <1>14 DEF WriteBack
  <2>2. TypeOK'
    BY <1>2, <1>14, <2>1 DEF WriteBack, TypeOK, RuntimeType
  <2>3. CASE self.pc = "write"
    <3>1. PICK l : l = [self EXCEPT !.pc = "commit", !.sent = self.rt.reserved, !.rt = NoRuntime]
      OBVIOUS
    <3>2. self.rt.reserved \in Seq(Node)
      BY <1>2 DEF RuntimeType
    <3>3. LocalOK(l)
      BY <1>2, <2>3, <3>1, <3>2, IdleOK DEF LocalOK, LocalType, Place, InPlanner, Counting
    <3>4. thread' \in [Thread -> LocalType] /\ \A u \in Thread : LocalOK(thread'[u])
      BY <1>1, <1>14, <2>3, <3>1, <3>3, BecomeOK DEF WriteBack
    <3> QED BY <2>2, <3>4, TypedAgain
  <2>4. CASE self.pc # "write"
    <3>1. Finish(t)
      BY <1>1, <1>14, <2>4 DEF WriteBack
    <3> QED BY <2>2, <3>1, FinishOK, TypedAgain
  <2> QED BY <2>3, <2>4
<1>15. ASSUME CommitWindow(t) PROVE TypeInv'
  <2>1. Finish(t)
    BY <1>15 DEF CommitWindow
  <2>2. TypeOK'
    BY <1>1, <1>2, <1>15 DEF CommitWindow, TypeOK
  <2> QED BY <2>1, <2>2, FinishOK, TypedAgain
<1> QED BY <1>3, <1>4, <1>5, <1>6, <1>7, <1>8, <1>9, <1>10, <1>11, <1>12, <1>13, <1>14, <1>15

-----------------------------------------------------------------------------
(* Types: plans, trails, what procedures share, and what happens around.    *)

\* The steps of a plan commit and of an around-path request.
LEMMA PlanTypes ==
  ASSUME TypeInv, NEW t \in Thread
  PROVE  /\ CommitBegin(t) \/ Committed(t) \/ Clear(t) \/ Fetch(t) => TypeInv'
         /\ \A n \in Node : AroundBegin(t, n) => TypeInv'
         /\ \A goals \in Goals : UpdatePlan(t, goals) => TypeInv'
<1>1. PICK self : self = thread[t]
  OBVIOUS
<1>2. /\ TypeOK /\ LocalOK(self)
      /\ self \in LocalType
      /\ self.pc \in Place /\ self.start \in Node \cup {NoNode}
      /\ self.id \in 0 .. MaxPlans /\ self.rt \in RuntimeType
      /\ self.sent \in Seq(Node) /\ self.route \in Seq(Node) /\ self.got \in Nat
      /\ rt \in RuntimeType /\ plan.id \in 0 .. MaxPlans /\ plan.goals \in Seq(Node)
  BY <1>1, TypedNow DEF LocalOK
<1>3. ASSUME CommitBegin(t) PROVE TypeInv'
  <2>1. PICK l : l = [Local EXCEPT !.pc = "committed", !.start = seen]
    OBVIOUS
  <2>2. seen \in Node
    BY <1>2 DEF TypeOK
  <2>3. LocalOK(l)
    BY <2>1, <2>2, IdleOK DEF LocalOK, LocalType, Place, Counting, Local
  <2>4. thread' \in [Thread -> LocalType] /\ \A u \in Thread : LocalOK(thread'[u])
    BY <1>3, <2>1, <2>3, BecomeOK DEF CommitBegin
  <2>5. TypeOK'
    BY <1>2, <1>3 DEF CommitBegin, TypeOK
  <2> QED BY <2>4, <2>5, TypedAgain
<1>4. ASSUME Committed(t) PROVE TypeInv'
  <2>1. PICK l : l = [self EXCEPT !.pc = "clear", !.sent = lastSent]
    OBVIOUS
  <2>2. lastSent \in Seq(Node)
    BY <1>2 DEF TypeOK
  <2>3. LocalOK(l)
    BY <1>1, <1>2, <1>4, <2>1, <2>2 DEF Committed, LocalOK, LocalType, Place, Counting
  <2>4. thread' \in [Thread -> LocalType] /\ \A u \in Thread : LocalOK(thread'[u])
    BY <1>1, <1>4, <2>1, <2>3, BecomeOK DEF Committed
  <2>5. TypeOK'
    BY <1>2, <1>4 DEF Committed, TypeOK
  <2> QED BY <2>4, <2>5, TypedAgain
<1>5. ASSUME Clear(t) PROVE TypeInv'
  <2>1. PICK l : l = [self EXCEPT !.pc = "update", !.sent = <<>>]
    OBVIOUS
  <2>2. <<>> \in Seq(Node)
    OBVIOUS
  <2>3. LocalOK(l)
    BY <1>1, <1>2, <1>5, <2>1, <2>2 DEF Clear, LocalOK, LocalType, Place, Counting
  <2>4. thread' \in [Thread -> LocalType] /\ \A u \in Thread : LocalOK(thread'[u])
    BY <1>1, <1>5, <2>1, <2>3, BecomeOK DEF Clear
  <2>5. holds' \in [Node -> {"none", "expires", "kept"}]
    BY <1>1, <1>2, <1>5 DEF Clear, TypeOK
  <2>6. TypeOK'
    BY <1>2, <1>5, <2>5 DEF Clear, TypeOK
  <2> QED BY <2>4, <2>6, TypedAgain
<1>6. ASSUME Fetch(t) PROVE TypeInv'
  <2>1. PICK l : l = [self EXCEPT !.pc = "copy", !.id = plan.id]
    OBVIOUS
  <2>2. LocalOK(l)
    BY <1>1, <1>2, <1>6, <2>1 DEF Fetch, LocalOK, LocalType, Place, Counting
  <2>3. thread' \in [Thread -> LocalType] /\ \A u \in Thread : LocalOK(thread'[u])
    BY <1>1, <1>6, <2>1, <2>2, BecomeOK DEF Fetch
  <2>4. TypeOK'
    BY <1>2, <1>6 DEF Fetch, TypeOK
  <2> QED BY <2>3, <2>4, TypedAgain
<1>7. ASSUME NEW n \in Node, AroundBegin(t, n) PROVE TypeInv'
  <2>1. PICK l : l = [Local EXCEPT !.pc = "update", !.start = n, !.rt.targets = plan.goals]
    OBVIOUS
  <2>2. Local.rt \in RuntimeType /\ Local.got = 0
    BY IdleOK DEF Local
  <2>3. [Local.rt EXCEPT !.targets = plan.goals] \in RuntimeType
    BY <1>2, <2>2 DEF TypeOK, RuntimeType
  <2>4. PICK r : r = [Local.rt EXCEPT !.targets = plan.goals]
    OBVIOUS
  <2>5. l = [Local EXCEPT !.pc = "update", !.start = n, !.rt = r]
    BY <2>1, <2>4
  <2>6. Local \in LocalType /\ r \in RuntimeType
    BY <2>3, <2>4, IdleOK
  <2>7. l \in LocalType /\ l.pc = "update" /\ l.start = n /\ l.got = 0
    BY <2>2, <2>5, <2>6 DEF LocalType, Place
  <2>8. LocalOK(l)
    BY <2>7 DEF LocalOK, Counting
  <2>9. thread' \in [Thread -> LocalType] /\ \A u \in Thread : LocalOK(thread'[u])
    BY <1>7, <2>1, <2>8, BecomeOK DEF AroundBegin
  <2>10. TypeOK'
    BY <1>2, <1>7 DEF AroundBegin, TypeOK
  <2> QED BY <2>9, <2>10, TypedAgain
<1>8. ASSUME NEW goals \in Goals, UpdatePlan(t, goals) PROVE TypeInv'
  <2>1. goals \in Seq(Node) /\ plan.id + 1 \in 0 .. MaxPlans /\ <<>> \in Seq(Node)
    <3>1. plan.id < MaxPlans
      BY <1>8 DEF UpdatePlan
    <3>2. plan.id + 1 \in 0 .. MaxPlans
      BY <1>2, <3>1, WindowAssumption
    <3>3. goals \in Seq(Node)
      BY WindowAssumption
    <3> QED BY <3>2, <3>3
  <2>2. plan' \in [id : 0 .. MaxPlans, goals : Seq(Node)]
    BY <1>8, <2>1 DEF UpdatePlan
  <2>3. rt' \in RuntimeType
    BY <1>2, <1>8, <2>1 DEF UpdatePlan, RuntimeType
  <2>4. lastSent' \in Seq(Node)
    BY <1>8, <2>1 DEF UpdatePlan
  <2>5. TypeOK'
    BY <1>2, <1>8, <2>2, <2>3, <2>4 DEF UpdatePlan, TypeOK, RuntimeType
  <2>6. Goto(t, "fetch")
    BY <1>8 DEF UpdatePlan
  <2> QED BY <1>1, <1>2, <1>8, <2>5, <2>6, GotoOK, TypedAgain DEF UpdatePlan, LocalOK, Place, Counting
<1> QED BY <1>3, <1>4, <1>5, <1>6, <1>7, <1>8

\* The steps of the answer to a trail request.
LEMMA TrailTypes ==
  ASSUME TypeInv, NEW t \in Thread
  PROVE  /\ TrailBegin(t) \/ Build(t) \/ Check(t) => TypeInv'
         /\ ReserveTrail(t) \/ TrailFails(t) \/ Record(t) \/ Publish(t) => TypeInv'
<1>1. PICK self : self = thread[t]
  OBVIOUS
<1>2. /\ TypeOK /\ LocalOK(self)
      /\ self \in LocalType
      /\ self.pc \in Place /\ self.start \in Node \cup {NoNode}
      /\ self.id \in 0 .. MaxPlans /\ self.rt \in RuntimeType
      /\ self.sent \in Seq(Node) /\ self.route \in Seq(Node) /\ self.got \in Nat
      /\ rt \in RuntimeType /\ plan.id \in 0 .. MaxPlans /\ plan.goals \in Seq(Node)
      /\ lastSent \in Seq(Node)
  BY <1>1, TypedNow DEF LocalOK, TypeOK
<1>3. ASSUME TrailBegin(t) PROVE TypeInv'
  <2>1. PICK l : l = [Local EXCEPT !.pc = "build", !.start = seen]
    OBVIOUS
  <2>2. seen \in Node
    BY <1>2 DEF TypeOK
  <2>3. LocalOK(l)
    BY <2>1, <2>2, IdleOK DEF LocalOK, LocalType, Place, InTrail, Counting, Local
  <2>4. thread' \in [Thread -> LocalType] /\ \A u \in Thread : LocalOK(thread'[u])
    BY <1>3, <2>1, <2>3, BecomeOK DEF TrailBegin
  <2>5. TypeOK'
    BY <1>2, <1>3 DEF TrailBegin, TypeOK
  <2> QED BY <2>4, <2>5, TypedAgain
<1>4. ASSUME Build(t) PROVE TypeInv'
  <2>1. self.start \in Node /\ rt.reserved \in Seq(Node)
    BY <1>1, <1>2, <1>4 DEF Build, LocalOK, RuntimeType
  <2>2. PICK r \in TrailRoutes(self.start) : \E k \in 1 .. Len(r) :
          Become(t, [self EXCEPT !.pc = "check", !.route = SubSeq(r, 1, k)])
    BY <1>1, <1>4 DEF Build
  <2>3. r \in Seq(Node)
    BY <2>1, TrailRoutesType
  <2>4. PICK cut \in Seq(Node) : Become(t, [self EXCEPT !.pc = "check", !.route = cut])
    <3>1. PICK k \in 1 .. Len(r) :
            Become(t, [self EXCEPT !.pc = "check", !.route = SubSeq(r, 1, k)])
      BY <2>2
    <3>2. SubSeq(r, 1, k) \in Seq(Node)
      BY <2>3, PrefixType
    <3> QED BY <3>1, <3>2
  <2>5. PICK l : l = [self EXCEPT !.pc = "check", !.route = cut]
    OBVIOUS
  <2>6. LocalOK(l)
    BY <1>1, <1>2, <1>4, <2>4, <2>5 DEF Build, LocalOK, LocalType, Place, InTrail, Counting
  <2>7. thread' \in [Thread -> LocalType] /\ \A u \in Thread : LocalOK(thread'[u])
    BY <2>4, <2>5, <2>6, BecomeOK
  <2>8. TypeOK'
    BY <1>2, <1>4 DEF Build, TypeOK
  <2> QED BY <2>7, <2>8, TypedAgain
<1>5. ASSUME Check(t) PROVE TypeInv'
  <2>1. TypeOK'
    BY <1>2, <1>5 DEF Check, TypeOK
  <2>2. self.pc = "check" /\ self.start \in Node /\ self.got = 0
    BY <1>1, <1>2, <1>5 DEF Check, LocalOK, Counting
  <2>3. CASE Finish(t)
    BY <2>1, <2>3, FinishOK, TypedAgain
  <2>4. CASE Goto(t, "reserve_trail")
    BY <1>1, <2>1, <2>2, <2>4, GotoOK, TypedAgain DEF Place, InTrail, Counting
  <2>5. ASSUME NEW remaining \in FromSome(lastSent, self.start),
               NEW answer, answer = IF IsPrefix(remaining, self.route) THEN self.route ELSE remaining,
               Become(t, [self EXCEPT !.pc = "reserve_trail", !.sent = remaining, !.route = answer])
        PROVE  TypeInv'
    <3>1. remaining \in Seq(Node)
      BY <1>2, FromSomeType
    <3>2. answer \in Seq(Node) /\ 0 <= Len(answer)
      BY <1>2, <2>5, <3>1
    <3>3. PICK l : l = [self EXCEPT !.pc = "reserve_trail", !.sent = remaining, !.route = answer]
      OBVIOUS
    <3>4. LocalOK(l)
      BY <1>2, <2>2, <3>1, <3>2, <3>3 DEF LocalOK, LocalType, Place, InTrail, Counting
    <3> QED BY <2>1, <2>5, <3>3, <3>4, BecomeOK, TypedAgain
  <2>6. \/ Finish(t)
        \/ Goto(t, "reserve_trail")
        \/ \E remaining \in FromSome(lastSent, self.start) :
             \E answer : /\ answer = IF IsPrefix(remaining, self.route) THEN self.route ELSE remaining
                         /\ \/ Finish(t)
                            \/ Become(t, [self EXCEPT !.pc = "reserve_trail", !.sent = remaining,
                                                      !.route = answer])
    BY <1>1, <1>5 DEF Check
  <2> QED BY <2>3, <2>4, <2>5, <2>6
<1>6. ASSUME ReserveTrail(t) PROVE TypeInv'
  <2>1. PICK l : l = [self EXCEPT !.got = @ + 1]
    OBVIOUS
  <2>2. LocalOK(l)
    <3>1. self.pc \in Counting /\ self.got + 1 <= Len(self.route) /\ self.got + 1 \in Nat
      BY <1>1, <1>2, <1>6 DEF ReserveTrail, Counting
    <3>2. /\ l \in LocalType /\ l.pc = self.pc /\ l.start = self.start /\ l.route = self.route
          /\ l.got = self.got + 1
      BY <1>2, <2>1, <3>1 DEF LocalType
    <3> QED BY <1>2, <3>1, <3>2 DEF LocalOK, Counting
  <2>3. thread' \in [Thread -> LocalType] /\ \A u \in Thread : LocalOK(thread'[u])
    BY <1>1, <1>6, <2>1, <2>2, BecomeOK DEF ReserveTrail
  <2>4. holds' \in [Node -> {"none", "expires", "kept"}]
    BY <1>2, <1>6, HoldsType DEF ReserveTrail, TypeOK
  <2>5. TypeOK'
    BY <1>2, <1>6, <2>4 DEF ReserveTrail, TypeOK
  <2> QED BY <2>3, <2>5, TypedAgain
<1>7. ASSUME TrailFails(t) PROVE TypeInv'
  <2>1. TypeOK'
    BY <1>2, <1>7 DEF TrailFails, TypeOK
  <2> QED BY <1>7, <2>1, FinishOK, TypedAgain DEF TrailFails
<1>8. ASSUME Record(t) PROVE TypeInv'
  <2>1. self.pc = "reserve_trail" /\ self.start \in Node /\ self.got \in 0 .. Len(self.route)
    BY <1>1, <1>2, <1>8 DEF Record, LocalOK, Counting
  <2>2. PICK l : l = [self EXCEPT !.pc = "publish"]
    OBVIOUS
  <2>3. LocalOK(l)
    BY <1>2, <2>1, <2>2 DEF LocalOK, LocalType, Place, InTrail, Counting
  <2>4. thread' \in [Thread -> LocalType] /\ \A u \in Thread : LocalOK(thread'[u])
    BY <1>1, <1>8, <2>2, <2>3, BecomeOK DEF Record, Goto
  <2>5. lastSent' \in Seq(Node)
    BY <1>1, <1>2, <1>8, <2>1, PrefixType DEF Record
  <2>6. TypeOK'
    BY <1>2, <1>8, <2>5 DEF Record, TypeOK
  <2> QED BY <2>4, <2>6, TypedAgain
<1>9. ASSUME Publish(t) PROVE TypeInv'
  <2>1. trail' \in Seq(Node) \ {<<>>}
    BY <1>1, <1>2, <1>9, FromType DEF Publish, TypeOK
  <2>2. TypeOK'
    BY <1>2, <1>9, <2>1 DEF Publish, TypeOK
  <2> QED BY <1>9, <2>2, FinishOK, TypedAgain DEF Publish
<1> QED BY <1>3, <1>4, <1>5, <1>6, <1>7, <1>8, <1>9

\* The steps that several procedures share.
LEMMA SharedTypes ==
  ASSUME TypeInv, NEW t \in Thread, SharedStep(t)
  PROVE  TypeInv'
<1>1. PICK self : self = thread[t]
  OBVIOUS
<1>2. /\ TypeOK /\ LocalOK(self)
      /\ self \in LocalType
      /\ self.pc \in Place /\ self.start \in Node \cup {NoNode}
      /\ self.id \in 0 .. MaxPlans /\ self.rt \in RuntimeType
      /\ self.sent \in Seq(Node) /\ self.route \in Seq(Node) /\ self.got \in Nat
      /\ rt \in RuntimeType
  BY <1>1, TypedNow DEF LocalOK
<1>3. ASSUME GiveUp(t) PROVE TypeInv'
  <2>1. self.pc \in {"idle_release", "reset", "super", "rest"} /\ self.start \in Node /\ self.got = 0
    BY <1>1, <1>2, <1>3 DEF GiveUp, AfterGiveUp, LocalOK, Counting
  <2>2. PICK next : /\ next \in {"idle_store", "reset_store", "super_sent", "rest_sent"}
                    /\ next = AfterGiveUp[self.pc]
    BY <2>1 DEF AfterGiveUp
  <2>3. PICK mismatch : mismatch = IF self.pc \in {"idle_release", "reset"} THEN NoNode
                                   ELSE self.rt.mismatch
    OBVIOUS
  <2>4. PICK l : l = [self EXCEPT !.pc = next, !.rt.reserved = <<self.start>>, !.rt.mismatch = mismatch]
    OBVIOUS
  <2>5. Become(t, l)
    BY <1>1, <1>3, <2>2, <2>3, <2>4 DEF GiveUp
  <2>6. <<self.start>> \in Seq(Node) /\ mismatch \in Node \cup {NoNode}
    BY <1>2, <2>1, <2>3 DEF RuntimeType
  <2>7. LocalOK(l)
    <3>1. next \in Place /\ next \notin {"renew", "write_sent"}
      BY <2>2 DEF Place, InStatus, InPlanner
    <3>2. [self.rt EXCEPT !.reserved = <<self.start>>, !.mismatch = mismatch] \in RuntimeType
      BY <1>2, <2>6 DEF RuntimeType
    <3>3. l = [self EXCEPT !.pc = next,
                           !.rt = [self.rt EXCEPT !.reserved = <<self.start>>, !.mismatch = mismatch]]
      BY <1>2, <2>4 DEF LocalType
    <3>4. l \in LocalType /\ l.pc = next /\ l.start = self.start /\ l.got = self.got
      BY <1>2, <3>1, <3>2, <3>3 DEF LocalType
    <3> QED BY <2>1, <3>1, <3>4, PlainOK
  <2>8. holds' \in [Node -> {"none", "expires", "kept"}]
    BY <1>2, <1>3, HoldsType DEF GiveUp, TypeOK
  <2>9. TypeOK'
    BY <1>2, <1>3, <2>8 DEF GiveUp, TypeOK
  <2> QED BY <2>5, <2>7, <2>9, BecomeOK, TypedAgain
<1>4. ASSUME StoreReserved(t) PROVE TypeInv'
  <2>1. /\ self.pc \in {"store", "idle_store", "reset_store", "super_store"}
        /\ self.start \in Node /\ self.got = 0
    BY <1>1, <1>2, <1>4 DEF StoreReserved, AfterStore, LocalOK, Counting
  <2>2. AfterStore[self.pc] \in {"read_sent", "idle_sent", "reset_sent", "plan"}
    BY <2>1 DEF AfterStore
  <2>3. Goto(t, AfterStore[self.pc])
    BY <1>1, <1>4 DEF StoreReserved
  <2>4. thread' \in [Thread -> LocalType] /\ \A u \in Thread : LocalOK(thread'[u])
    BY <1>1, <2>1, <2>2, <2>3, GotoOK DEF Place, InStatus, InPlanner, Counting
  <2>5. rt' \in RuntimeType
    <3>1. PICK mismatch : mismatch = IF self.pc = "super_store" THEN NoNode ELSE self.rt.mismatch
      OBVIOUS
    <3>2. mismatch \in Node \cup {NoNode} /\ self.rt.reserved \in Seq(Node)
      BY <1>2, <3>1 DEF RuntimeType
    <3>3. rt' = IF rt.id = 0 THEN rt
                ELSE [rt EXCEPT !.reserved = self.rt.reserved, !.mismatch = mismatch]
      BY <1>1, <1>4, <3>1 DEF StoreReserved
    <3> QED BY <1>2, <3>2, <3>3 DEF RuntimeType
  <2>6. TypeOK'
    BY <1>2, <1>4, <2>5 DEF StoreReserved, TypeOK, RuntimeType
  <2> QED BY <2>4, <2>6, TypedAgain
<1>5. ASSUME SentOnlyHere(t) PROVE TypeInv'
  <2>1. /\ self.pc \in {"idle_sent", "reset_sent", "realign", "realign_super", "super_sent", "rest_sent"}
        /\ self.start \in Node /\ self.got = 0
    BY <1>1, <1>2, <1>5 DEF SentOnlyHere, AfterSent, LocalOK, Counting
  <2>2. TypeOK'
    <3>1. lastSent' = <<self.start>> /\ lastSent' \in Seq(Node)
      BY <1>1, <1>5, <2>1 DEF SentOnlyHere
    <3> QED BY <1>2, <1>5, <3>1 DEF SentOnlyHere, TypeOK
  <2>3. CASE self.pc = "idle_sent"
    <3>1. Finish(t)
      BY <1>1, <1>5, <2>3 DEF SentOnlyHere
    <3> QED BY <2>2, <3>1, FinishOK, TypedAgain
  <2>4. CASE self.pc # "idle_sent"
    <3>1. AfterSent[self.pc] \in {"refresh", "plan", "super", "super_store", "rest_write"}
      BY <2>1, <2>4 DEF AfterSent
    <3>2. Goto(t, AfterSent[self.pc])
      BY <1>1, <1>5, <2>4 DEF SentOnlyHere
    <3>3. thread' \in [Thread -> LocalType] /\ \A u \in Thread : LocalOK(thread'[u])
      BY <1>1, <2>1, <3>1, <3>2, GotoOK DEF Place, InStatus, InPlanner, Counting
    <3> QED BY <2>2, <3>3, TypedAgain
  <2> QED BY <2>3, <2>4
<1> QED BY <1>3, <1>4, <1>5 DEF SharedStep

\* What the vehicle and the others do.
LEMMA EnvironmentTypes ==
  ASSUME TypeInv, Environment
  PROVE  TypeInv'
<1>1. thread' = thread
  BY DEF Environment, Drive, Expire, OtherTakes, OtherLeaves
<1>2. TypeOK
  BY DEF TypeInv
<1>3. CASE Drive
  <2>1. trail \in Seq(Node) /\ trail # <<>> /\ Len(trail) # 1
    BY <1>2, <1>3 DEF Drive, TypeOK
  <2>2. trail' \in Seq(Node) \ {<<>>}
    BY <1>3, <2>1, TailType DEF Drive
  <2>3. TypeOK'
    BY <1>2, <1>3, <2>2 DEF Drive, TypeOK
  <2> QED BY <1>1, <2>3, TypedAgain DEF TypeInv
<1>4. CASE \E n \in Node : Expire(n) \/ OtherTakes(n) \/ OtherLeaves(n)
  <2>1. TypeOK'
    BY <1>2, <1>4 DEF Expire, OtherTakes, OtherLeaves, TypeOK
  <2> QED BY <1>1, <2>1, TypedAgain DEF TypeInv
<1> QED BY <1>3, <1>4 DEF Environment

\* The first state has the types.
LEMMA TypesInitially == Init => TypeInv
<1> SUFFICES ASSUME Init PROVE TypeInv
  OBVIOUS
<1>1. <<>> \in Seq(Node) /\ <<Home>> \in Seq(Node) \ {<<>>} /\ 0 \in 0 .. MaxPlans
  BY WindowAssumption
<1>2. rt \in RuntimeType
  BY IdleOK DEF Init
<1>3. TypeOK
  BY <1>1, <1>2, WindowAssumption DEF Init, TypeOK, RuntimeType
<1>4. thread = [t \in Thread |-> Local]
  BY DEF Init
<1> QED BY <1>3, <1>4, IdleOK DEF TypeInv

\* Every step keeps the types.
LEMMA TypesInductive == TypeInv /\ [Next]_vars => TypeInv'
<1> SUFFICES ASSUME TypeInv, [Next]_vars PROVE TypeInv'
  OBVIOUS
<1>1. ASSUME NEW t \in Thread, ReceiverStep(t) PROVE TypeInv'
  BY <1>1, StatusTypes, TrailTypes DEF ReceiverStep
<1>2. ASSUME NEW t \in Thread, PlannerStep(t) PROVE TypeInv'
  BY <1>2, PlannerTypes DEF PlannerStep
<1>3. ASSUME NEW t \in Thread, PlanStep(t) PROVE TypeInv'
  BY <1>3, PlanTypes DEF PlanStep
<1>4. CASE UNCHANGED vars
  <2>1. TypeOK'
    BY <1>4 DEF vars, TypeInv, TypeOK
  <2> QED BY <1>4, <2>1, TypedAgain DEF vars, TypeInv
<1> QED BY <1>1, <1>2, <1>3, <1>4, SharedTypes, EnvironmentTypes DEF Next

\* Types hold in every state.
THEOREM TypesInvariance == Spec => []TypeInv
BY TypesInitially, TypesInductive, PTL DEF Spec

\* Nodes are nodes of the map wherever the code keeps them: no step ends with a piece of a route,
\* a window or a list of targets that was never there.
THEOREM TypeCorrect == Spec => []TypeOK
<1>1. TypeInv => TypeOK
  BY DEF TypeInv
<1> QED BY <1>1, TypesInvariance, PTL

-----------------------------------------------------------------------------
(* Whose targets are left to do.                                            *)

\* All and nothing are suffixes.
LEMMA WholeOrNone ==
  ASSUME NEW s \in Seq(Node), NEW u \in Seq(Node), u = s \/ Len(u) = 0
  PROVE  IsSuffix(u, s)
<1>1. CASE u = s
  BY <1>1, SuffixIs
<1>2. CASE Len(u) = 0
  <2>1. Len(u) = 0 /\ 1 .. 0 = {} /\ Len(s) \in Nat
    BY <1>2
  <2>2. Len(u) <= Len(s) /\ \A i \in 1 .. Len(u) : u[i] = s[Len(s) - Len(u) + i]
    BY <2>1
  <2> QED BY <2>2, SuffixIs
<1> QED BY <1>1, <1>2

\* So is what is left of one.
LEMMA ReachedSuffix ==
  ASSUME NEW s \in Seq(Node), NEW u \in Seq(Node), NEW n, IsSuffix(u, s)
  PROVE  IsSuffix(Reached(u, n), s)
<1>1. CASE Reached(u, n) = <<>>
  <2>1. PICK r : r = Reached(u, n) /\ r \in Seq(Node) /\ Len(r) = 0
    BY <1>1, ReachedType
  <2> QED BY <2>1, WholeOrNone
<1>2. ASSUME NEW i \in 1 .. Len(u), Reached(u, n) = SubSeq(u, i, Len(u))
      PROVE  IsSuffix(Reached(u, n), s)
  <2>1. PICK r : r = SubSeq(u, i, Len(u))
    OBVIOUS
  <2>2. /\ r \in Seq(Node) /\ Len(r) = Len(u) - i + 1
        /\ \A j \in 1 .. Len(r) : r[j] = u[i + j - 1]
    BY <2>1
  <2>3. Len(u) <= Len(s) /\ \A j \in 1 .. Len(u) : u[j] = s[Len(s) - Len(u) + j]
    BY SuffixIs
  <2>4. ASSUME NEW j \in 1 .. Len(r) PROVE r[j] = s[Len(s) - Len(r) + j]
    <3>1. i + j - 1 \in 1 .. Len(u) /\ Len(s) - Len(u) + (i + j - 1) = Len(s) - Len(r) + j
      BY <2>2
    <3> QED BY <2>2, <2>3, <3>1
  <2>5. Len(r) <= Len(s)
    BY <2>2, <2>3
  <2> QED BY <1>2, <2>1, <2>2, <2>4, <2>5, SuffixIs
<1> QED BY <1>1, <1>2, ReachedType

\* Where a thread works for a plan.
Working == {"locate", "copy"} \cup InPlanner

\* A planner's copy of the runtime state is not older than the plan it works for; if it is of
\* the current plan, so are its targets.
PlanOK(l, p) ==
  /\ l.id <= p.id
  /\ l.pc = "fetch" => p.id # 0
  /\ l.pc \in Working => 1 <= l.id
  /\ l.pc \in InPlanner => /\ l.id <= l.rt.id /\ l.rt.id <= p.id
                           /\ l.rt.id = p.id => IsSuffix(l.rt.targets, p.goals)

\* The inductive invariant behind TargetsOfPlan.
PlansInv ==
  /\ TypeInv
  /\ TargetsOfPlan
  /\ \A t \in Thread : PlanOK(thread[t], plan)

\* A step of a thread that leaves the plan alone.
LEMMA PlansAgain ==
  ASSUME PlansInv, TypeInv', NEW t \in Thread, NEW l, Become(t, l), PlanOK(l, plan),
         plan' = plan, rt'.id = rt.id, IsSuffix(rt'.targets, plan.goals)
  PROVE  PlansInv'
<1>1. TargetsOfPlan'
  BY DEF PlansInv, TargetsOfPlan
<1>2. ASSUME NEW u \in Thread PROVE PlanOK(thread'[u], plan')
  <2>1. thread' = [thread EXCEPT ![t] = l] /\ thread \in [Thread -> LocalType]
    BY DEF Become, PlansInv, TypeInv
  <2>2. CASE u = t
    BY <2>1, <2>2
  <2>3. CASE u # t
    <3>1. thread'[u] = thread[u]
      BY <2>1, <2>3
    <3> QED BY <3>1 DEF PlansInv
  <2> QED BY <2>2, <2>3
<1> QED BY <1>1, <1>2 DEF PlansInv

\* The same for a thread that does not work for a plan afterwards.
LEMMA PlansAside ==
  ASSUME PlansInv, TypeInv', NEW t \in Thread, NEW l, Become(t, l),
         l.pc \notin Working \cup {"fetch"}, l.id \in {0, thread[t].id},
         plan' = plan, rt'.id = rt.id, IsSuffix(rt'.targets, plan.goals)
  PROVE  PlansInv'
<1>1. l.id <= plan.id
  BY DEF PlansInv, PlanOK, TypeInv, TypeOK
<1>2. PlanOK(l, plan)
  BY <1>1 DEF PlanOK, Working
<1> QED BY <1>2, PlansAgain

\* The same for one that goes on working with the same copy.
LEMMA PlansOn ==
  ASSUME PlansInv, TypeInv', NEW t \in Thread, NEW l, Become(t, l),
         thread[t].pc \in InPlanner, l.pc \in InPlanner,
         l.id = thread[t].id, l.rt.id = thread[t].rt.id, l.rt.targets = thread[t].rt.targets,
         plan' = plan, rt'.id = rt.id, IsSuffix(rt'.targets, plan.goals)
  PROVE  PlansInv'
<1>1. PlanOK(thread[t], plan)
  BY DEF PlansInv
<1>2. l.pc # "fetch"
  BY DEF InPlanner
<1>3. PlanOK(l, plan)
  BY <1>1, <1>2 DEF PlanOK, Working
<1> QED BY <1>3, PlansAgain

\* What the invariant says of one thread and of the runtime state.
LEMMA PlansNow ==
  ASSUME PlansInv, NEW t \in Thread
  PROVE  /\ thread[t] \in LocalType /\ thread[t].rt \in RuntimeType /\ rt \in RuntimeType
         /\ PlanOK(thread[t], plan)
         /\ rt.id = plan.id /\ IsSuffix(rt.targets, plan.goals)
         /\ plan.id \in 0 .. MaxPlans /\ plan.goals \in Seq(Node)
<1>1. TypeInv
  BY DEF PlansInv
<1>2. /\ thread[t] \in LocalType /\ thread[t].rt \in RuntimeType /\ rt \in RuntimeType
      /\ plan.id \in 0 .. MaxPlans /\ plan.goals \in Seq(Node)
  BY <1>1, TypedNow DEF TypeInv
<1> QED BY <1>2 DEF PlansInv, TargetsOfPlan

\* The status handler and the answers to trail requests do not touch the plan; all they do to
\* the targets is to take those away that are reached.
LEMMA ReceiverPlans ==
  ASSUME PlansInv, TypeInv', NEW t \in Thread, ReceiverStep(t)
  PROVE  PlansInv'
<1>1. PICK self : self = thread[t]
  OBVIOUS
<1>2. /\ self \in LocalType /\ PlanOK(self, plan) /\ rt \in RuntimeType
      /\ rt.id = plan.id /\ IsSuffix(rt.targets, plan.goals) /\ plan.goals \in Seq(Node)
      /\ rt.targets \in Seq(Node)
  BY <1>1, PlansNow DEF RuntimeType
<1> DEFINE Aside(l) == l.pc \notin Working \cup {"fetch"} /\ l.id \in {0, self.id}
<1>3. Aside(Local)
  BY DEF Local, Working, InPlanner
<1>4. ASSUME NEW idle \in BOOLEAN, StatusArrives(t, idle) PROVE PlansInv'
  <2>1. PICK l : /\ l = [Local EXCEPT !.pc = IF idle THEN "snapshot_idle" ELSE "snapshot",
                                      !.start = trail[1]]
                 /\ Become(t, l)
    BY <1>4 DEF StatusArrives
  <2>2. Aside(l)
    BY <2>1, IdleOK DEF Local, Working, InPlanner
  <2> QED BY <1>1, <1>2, <1>4, <2>1, <2>2, PlansAside DEF StatusArrives
<1>5. ASSUME Snapshot(t) PROVE PlansInv'
  <2>1. PICK l : /\ l = [self EXCEPT !.pc = IF @ = "snapshot" THEN "advance" ELSE "advance_idle",
                                     !.rt = [rt EXCEPT !.id = 0, !.targets = <<>>]]
                 /\ Become(t, l)
    BY <1>1, <1>5 DEF Snapshot
  <2>2. Aside(l)
    BY <1>2, <2>1 DEF LocalType, Working, InPlanner
  <2> QED BY <1>1, <1>2, <1>5, <2>1, <2>2, PlansAside DEF Snapshot
<1>6. ASSUME Advance(t) PROVE PlansInv'
  <2>1. PICK l : /\ l = [self EXCEPT !.pc = IF self.pc = "advance" THEN "decide" ELSE "idle_release"]
                 /\ Become(t, l)
    BY <1>1, <1>6 DEF Advance, Goto
  <2>2. Aside(l)
    BY <1>2, <2>1 DEF LocalType, Working, InPlanner
  <2>3. rt' = [rt EXCEPT !.targets = Reached(@, self.start)] /\ plan' = plan
    BY <1>1, <1>6 DEF Advance
  <2>4. rt'.id = rt.id /\ rt'.targets = Reached(rt.targets, self.start)
    BY <1>2, <2>3 DEF RuntimeType
  <2>5. IsSuffix(rt'.targets, plan.goals)
    BY <1>2, <2>4, ReachedSuffix
  <2> QED BY <1>1, <2>1, <2>2, <2>3, <2>4, <2>5, PlansAside
<1>7. ASSUME DecideIdle(t) \/ DecideTrim(t) \/ DecideKeep(t) \/ DecideReset(t) PROVE PlansInv'
  <2>1. PICK l : /\ \/ l = [self EXCEPT !.pc = "idle_release"]
                    \/ l = [self EXCEPT !.pc = "store",
                              !.rt.reserved = From(self.rt.reserved, self.start), !.rt.mismatch = NoNode]
                    \/ l = [self EXCEPT !.pc = "refresh"]
                    \/ l = [self EXCEPT
                              !.pc = IF self.rt.mismatch = self.start THEN "read_sent" ELSE "store",
                              !.rt.mismatch = self.start]
                    \/ l = [self EXCEPT !.pc = "reset"]
                 /\ Become(t, l)
    BY <1>1, <1>7 DEF DecideIdle, DecideTrim, DecideKeep, DecideReset, Goto
  <2>2. Aside(l)
    BY <1>2, <2>1 DEF LocalType, Working, InPlanner
  <2>3. UNCHANGED <<plan, rt>>
    BY <1>7 DEF DecideIdle, DecideTrim, DecideKeep, DecideReset
  <2> QED BY <1>1, <1>2, <2>1, <2>2, <2>3, PlansAside
<1>8. ASSUME ReadSent(t) \/ WriteSent(t) PROVE PlansInv'
  <2>1. PICK l : /\ \/ l = [self EXCEPT !.pc = "write_sent", !.rt = NoRuntime, !.sent = lastSent]
                    \/ l = [self EXCEPT !.pc = "refresh"]
                 /\ Become(t, l)
    BY <1>1, <1>8 DEF ReadSent, WriteSent, Goto
  <2>2. Aside(l)
    BY <1>2, <2>1 DEF LocalType, Working, InPlanner
  <2>3. UNCHANGED <<plan, rt>>
    BY <1>8 DEF ReadSent, WriteSent
  <2> QED BY <1>1, <1>2, <2>1, <2>2, <2>3, PlansAside
<1>9. ASSUME Refresh(t) PROVE PlansInv'
  <2>1. PICK l : /\ l = [Local EXCEPT !.pc = "renew", !.start = self.start, !.sent = lastSent,
                           !.route = IF self.start \in Range(rt.reserved) THEN rt.reserved
                                     ELSE Append(rt.reserved, self.start)]
                 /\ Become(t, l)
    BY <1>1, <1>9 DEF Refresh
  <2>2. Aside(l)
    BY <2>1 DEF Local, Working, InPlanner
  <2> QED BY <1>1, <1>2, <1>9, <2>1, <2>2, PlansAside DEF Refresh
<1>10. ASSUME Renew(t) PROVE PlansInv'
  <2>1. PICK l : /\ l = Local \/ l = [self EXCEPT !.route = Tail(@)]
                 /\ Become(t, l)
    BY <1>1, <1>10 DEF Renew, Finish
  <2>2. Aside(l)
    BY <1>1, <1>2, <1>3, <1>10, <2>1 DEF Renew, LocalType, Working, InPlanner
  <2> QED BY <1>1, <1>2, <1>10, <2>1, <2>2, PlansAside DEF Renew
<1>11. ASSUME TrailBegin(t) PROVE PlansInv'
  <2>1. PICK l : l = [Local EXCEPT !.pc = "build", !.start = seen] /\ Become(t, l)
    BY <1>11 DEF TrailBegin
  <2>2. Aside(l)
    BY <2>1 DEF Local, Working, InPlanner
  <2> QED BY <1>1, <1>2, <1>11, <2>1, <2>2, PlansAside DEF TrailBegin
<1>12. ASSUME Build(t) PROVE PlansInv'
  <2>1. PICK l, route : l = [self EXCEPT !.pc = "check", !.route = route] /\ Become(t, l)
    BY <1>1, <1>12 DEF Build
  <2>2. Aside(l)
    BY <1>2, <2>1 DEF LocalType, Working, InPlanner
  <2> QED BY <1>1, <1>2, <1>12, <2>1, <2>2, PlansAside DEF Build
<1>13. ASSUME Check(t) PROVE PlansInv'
  <2>1. PICK l : /\ \/ l = Local
                    \/ l = [self EXCEPT !.pc = "reserve_trail"]
                    \/ \E sent, route : l = [self EXCEPT !.pc = "reserve_trail", !.sent = sent,
                                                         !.route = route]
                 /\ Become(t, l)
    BY <1>1, <1>13 DEF Check, Finish, Goto
  <2>2. Aside(l)
    BY <1>2, <1>3, <2>1 DEF LocalType, Working, InPlanner
  <2> QED BY <1>1, <1>2, <1>13, <2>1, <2>2, PlansAside DEF Check
<1>14. ASSUME ReserveTrail(t) \/ TrailFails(t) \/ Record(t) \/ Publish(t) PROVE PlansInv'
  <2>1. PICK l : /\ \/ l = Local
                    \/ l = [self EXCEPT !.got = @ + 1]
                    \/ l = [self EXCEPT !.pc = "publish"]
                 /\ Become(t, l)
    BY <1>1, <1>14 DEF ReserveTrail, TrailFails, Record, Publish, Finish, Goto
  <2>2. self.pc \in {"reserve_trail", "publish"}
    BY <1>1, <1>14 DEF ReserveTrail, TrailFails, Record, Publish
  <2>3. Aside(l)
    BY <1>2, <1>3, <2>1, <2>2 DEF LocalType, Working, InPlanner
  <2>4. UNCHANGED <<plan, rt>>
    BY <1>14 DEF ReserveTrail, TrailFails, Record, Publish
  <2> QED BY <1>1, <1>2, <2>1, <2>3, <2>4, PlansAside
<1> QED BY <1>4, <1>5, <1>6, <1>7, <1>8, <1>9, <1>10, <1>11, <1>12, <1>13, <1>14 DEF ReceiverStep

\* A planner writes its copy back only if the plan it worked for is still the current one, and
\* then the targets of the copy are what is left of that plan's.
LEMMA PlannerPlans ==
  ASSUME PlansInv, TypeInv', NEW t \in Thread, PlannerStep(t)
  PROVE  PlansInv'
<1>1. PICK self : self = thread[t]
  OBVIOUS
<1>2. /\ self \in LocalType /\ PlanOK(self, plan) /\ rt \in RuntimeType /\ self.rt \in RuntimeType
      /\ rt.id = plan.id /\ IsSuffix(rt.targets, plan.goals) /\ plan.goals \in Seq(Node)
      /\ plan.id \in 0 .. MaxPlans /\ plan.id \in Nat /\ self.id \in Nat /\ self.rt.id \in Nat
  BY <1>1, PlansNow, WindowAssumption DEF LocalType, RuntimeType
<1> DEFINE Aside(l) == l.pc \notin Working \cup {"fetch"} /\ l.id \in {0, self.id}
           On(l) == /\ l.pc \in InPlanner
                    /\ l.id = self.id /\ l.rt.id = self.rt.id /\ l.rt.targets = self.rt.targets
<1>3. Aside(Local)
  BY DEF Local, Working, InPlanner
<1>4. ASSUME ReplanBegin(t) PROVE PlansInv'
  <2>1. PICK l : l = [Local EXCEPT !.pc = "locate", !.id = plan.id] /\ Become(t, l)
    BY <1>4 DEF ReplanBegin
  <2>2. PlanOK(l, plan)
    <3>1. l.pc = "locate" /\ l.id = plan.id
      BY <2>1, IdleOK DEF Local
    <3>2. plan.id # 0
      BY <1>4 DEF ReplanBegin
    <3> QED BY <1>2, <3>1, <3>2 DEF PlanOK, InPlanner
  <2> QED BY <1>2, <1>4, <2>1, <2>2, PlansAgain DEF ReplanBegin
<1>5. ASSUME Locate(t) PROVE PlansInv'
  <2>1. PICK l : l = [self EXCEPT !.pc = "copy", !.start = seen] /\ Become(t, l)
    BY <1>1, <1>5 DEF Locate
  <2>2. PlanOK(l, plan)
    <3>1. l.pc = "copy" /\ l.id = self.id /\ self.pc = "locate"
      BY <1>1, <1>2, <1>5, <2>1 DEF Locate, LocalType
    <3> QED BY <1>2, <3>1 DEF PlanOK, InPlanner, Working
  <2> QED BY <1>2, <1>5, <2>1, <2>2, PlansAgain DEF Locate
<1>6. ASSUME Copy(t) PROVE PlansInv'
  <2>1. PICK l : /\ \/ l = [self EXCEPT !.pc = "align", !.rt = rt]
                    \/ l = [self EXCEPT !.pc = "align_super", !.rt = rt]
                 /\ Become(t, l)
    BY <1>1, <1>6 DEF Copy
  <2>2. PlanOK(l, plan)
    <3>1. l.pc \in {"align", "align_super"} /\ l.id = self.id /\ l.rt = rt /\ self.pc = "copy"
      BY <1>1, <1>2, <1>6, <2>1 DEF Copy, LocalType
    <3> QED BY <1>2, <3>1 DEF PlanOK, InPlanner, Working
  <2> QED BY <1>2, <1>6, <2>1, <2>2, PlansAgain DEF Copy
<1>7. ASSUME Align(t) PROVE PlansInv'
  <2>1. PICK kept, pc : /\ pc \in {"realign", "plan", "realign_super", "super"}
                        /\ Become(t, [self EXCEPT !.pc = pc, !.rt.reserved = kept,
                                                  !.rt.targets = Reached(self.rt.targets, self.start)])
    BY <1>1, <1>7 DEF Align
  <2>2. PICK l : l = [self EXCEPT !.pc = pc, !.rt.reserved = kept,
                                  !.rt.targets = Reached(self.rt.targets, self.start)]
    OBVIOUS
  <2>3. /\ l.pc = pc /\ l.id = self.id /\ l.rt.id = self.rt.id
        /\ l.rt.targets = Reached(self.rt.targets, self.start)
    BY <1>2, <2>2 DEF LocalType, RuntimeType
  <2>4. self.pc \in InPlanner /\ l.pc \in InPlanner /\ l.pc # "fetch"
    BY <1>1, <1>7, <2>1, <2>3 DEF Align, InPlanner
  <2>5. self.rt.id = plan.id => IsSuffix(l.rt.targets, plan.goals)
    <3>1. self.rt.targets \in Seq(Node)
      BY <1>2 DEF RuntimeType
    <3>2. self.rt.id = plan.id => IsSuffix(self.rt.targets, plan.goals)
      BY <1>2, <2>4 DEF PlanOK
    <3> QED BY <1>2, <2>3, <3>1, <3>2, ReachedSuffix
  <2>6. PlanOK(l, plan)
    BY <1>2, <2>3, <2>4, <2>5 DEF PlanOK, Working
  <2> QED BY <1>2, <1>7, <2>1, <2>2, <2>6, PlansAgain DEF Align
<1>8. ASSUME PlanNothing(t) \/ PlanFails(t) \/ PlanRoute(t) PROVE PlansInv'
  <2>1. PICK l : /\ \/ l = [self EXCEPT !.pc = "rest"]
                    \/ l = [self EXCEPT !.pc = "rest_write"]
                    \/ \E sent, route : l = [self EXCEPT !.pc = "reserve", !.sent = sent,
                                                         !.route = route]
                 /\ Become(t, l)
    BY <1>1, <1>8 DEF PlanNothing, PlanFails, PlanRoute, Goto
  <2>2. On(l)
    BY <1>2, <2>1 DEF LocalType, InPlanner
  <2>3. self.pc \in InPlanner /\ UNCHANGED <<plan, rt>>
    BY <1>1, <1>8 DEF PlanNothing, PlanFails, PlanRoute, InPlanner
  <2> QED BY <1>1, <1>2, <2>1, <2>2, <2>3, PlansOn
<1>9. ASSUME ReserveNode(t) \/ Reserved(t) \/ KeepOld(t) \/ Release(t) PROVE PlansInv'
  <2>1. self.pc \in {"reserve", "retry", "release"} /\ UNCHANGED <<plan, rt>>
    BY <1>1, <1>9 DEF ReserveNode, Reserved, KeepOld, Release
  <2>2. PICK l : /\ \/ l = [self EXCEPT !.got = @ + 1]
                    \/ \E window : l = [self EXCEPT !.pc = "release", !.sent = <<>>, !.route = <<>>,
                                                    !.got = 0, !.rt.reserved = window]
                    \/ l = [self EXCEPT !.pc = "retry", !.route = self.sent, !.got = 0]
                    \/ l = [self EXCEPT !.pc = "write"]
                 /\ Become(t, l)
    BY <1>1, <1>9 DEF ReserveNode, Reserved, KeepOld, Release, Goto
  <2>3. self.pc \in InPlanner
    BY <2>1 DEF InPlanner
  <2>4. CASE l = [self EXCEPT !.got = @ + 1]
    <3>1. On(l)
      BY <1>2, <2>3, <2>4 DEF LocalType
    <3> QED BY <1>1, <1>2, <2>1, <2>2, <2>3, <3>1, PlansOn
  <2>5. ASSUME NEW window, l = [self EXCEPT !.pc = "release", !.sent = <<>>, !.route = <<>>,
                                            !.got = 0, !.rt.reserved = window]
        PROVE  PlansInv'
    <3>1. On(l)
      BY <1>2, <2>5 DEF LocalType, RuntimeType, InPlanner
    <3> QED BY <1>1, <1>2, <2>1, <2>2, <2>3, <3>1, PlansOn
  <2>6. CASE \/ l = [self EXCEPT !.pc = "retry", !.route = self.sent, !.got = 0]
             \/ l = [self EXCEPT !.pc = "write"]
    <3>1. On(l)
      BY <1>2, <2>6 DEF LocalType, InPlanner
    <3> QED BY <1>1, <1>2, <2>1, <2>2, <2>3, <3>1, PlansOn
  <2> QED BY <2>2, <2>4, <2>5, <2>6
<1>10. ASSUME WriteBack(t) PROVE PlansInv'
  <2>1. self.pc \in {"write", "rest_write"} /\ self.pc \in InPlanner
    BY <1>1, <1>10 DEF WriteBack, InPlanner
  <2>2. /\ 1 <= self.id /\ self.id <= self.rt.id /\ self.rt.id <= plan.id
        /\ self.rt.id = plan.id => IsSuffix(self.rt.targets, plan.goals)
    BY <1>2, <2>1 DEF PlanOK, Working
  <2>3. plan' = plan /\ rt' = IF rt.id \in {0, self.id} THEN self.rt ELSE rt
    BY <1>1, <1>10 DEF WriteBack
  <2>4. rt.id \in {0, self.id} => self.rt.id = plan.id
    BY <1>2, <2>2
  <2>5. rt'.id = rt.id /\ IsSuffix(rt'.targets, plan.goals)
    BY <1>2, <2>2, <2>3, <2>4
  <2>6. PICK l : /\ \/ l = [self EXCEPT !.pc = "commit", !.sent = self.rt.reserved, !.rt = NoRuntime]
                    \/ l = Local
                 /\ Become(t, l)
    BY <1>1, <1>10 DEF WriteBack, Finish
  <2>7. Aside(l)
    BY <1>2, <1>3, <2>6 DEF LocalType, Working, InPlanner
  <2> QED BY <1>1, <2>3, <2>5, <2>6, <2>7, PlansAside
<1>11. ASSUME CommitWindow(t) PROVE PlansInv'
  <2>1. Become(t, Local)
    BY <1>11 DEF CommitWindow, Finish
  <2> QED BY <1>1, <1>2, <1>3, <1>11, <2>1, PlansAside DEF CommitWindow
<1> QED BY <1>4, <1>5, <1>6, <1>7, <1>8, <1>9, <1>10, <1>11 DEF PlannerStep

\* A new plan makes every copy out of date that a planner may still hold.
LEMMA PlanPlans ==
  ASSUME PlansInv, TypeInv', NEW t \in Thread, PlanStep(t)
  PROVE  PlansInv'
<1>1. PICK self : self = thread[t]
  OBVIOUS
<1>2. /\ self \in LocalType /\ PlanOK(self, plan) /\ rt \in RuntimeType /\ self.rt \in RuntimeType
      /\ rt.id = plan.id /\ IsSuffix(rt.targets, plan.goals) /\ plan.goals \in Seq(Node)
      /\ plan.id \in 0 .. MaxPlans /\ plan.id \in Nat
  BY <1>1, PlansNow, WindowAssumption
<1> DEFINE Aside(l) == l.pc \notin Working \cup {"fetch"} /\ l.id \in {0, self.id}
<1>3. ASSUME CommitBegin(t) PROVE PlansInv'
  <2>1. PICK l : l = [Local EXCEPT !.pc = "committed", !.start = seen] /\ Become(t, l)
    BY <1>3 DEF CommitBegin
  <2>2. Aside(l)
    BY <2>1 DEF Local, Working, InPlanner
  <2> QED BY <1>1, <1>2, <1>3, <2>1, <2>2, PlansAside DEF CommitBegin
<1>4. ASSUME Committed(t) \/ Clear(t) PROVE PlansInv'
  <2>1. PICK l : /\ \/ l = [self EXCEPT !.pc = "clear", !.sent = lastSent]
                    \/ l = [self EXCEPT !.pc = "update", !.sent = <<>>]
                 /\ Become(t, l)
    BY <1>1, <1>4 DEF Committed, Clear
  <2>2. Aside(l)
    BY <1>2, <2>1 DEF LocalType, Working, InPlanner
  <2>3. UNCHANGED <<plan, rt>>
    BY <1>4 DEF Committed, Clear
  <2> QED BY <1>1, <1>2, <2>1, <2>2, <2>3, PlansAside
<1>5. ASSUME NEW n \in Node, AroundBegin(t, n) PROVE PlansInv'
  <2>1. PICK l : /\ l = [Local EXCEPT !.pc = "update", !.start = n, !.rt.targets = plan.goals]
                 /\ Become(t, l)
    BY <1>5 DEF AroundBegin
  <2>2. Aside(l)
    BY <2>1 DEF Local, Working, InPlanner
  <2> QED BY <1>1, <1>2, <1>5, <2>1, <2>2, PlansAside DEF AroundBegin
<1>6. ASSUME Fetch(t) PROVE PlansInv'
  <2>1. PICK l : l = [self EXCEPT !.pc = "copy", !.id = plan.id] /\ Become(t, l)
    BY <1>1, <1>6 DEF Fetch
  <2>2. PlanOK(l, plan)
    <3>1. l.pc = "copy" /\ l.id = plan.id /\ self.pc = "fetch"
      BY <1>1, <1>2, <1>6, <2>1 DEF Fetch, LocalType
    <3> QED BY <1>2, <3>1 DEF PlanOK, InPlanner
  <2> QED BY <1>2, <1>6, <2>1, <2>2, PlansAgain DEF Fetch
<1>7. ASSUME NEW goals \in Goals, UpdatePlan(t, goals) PROVE PlansInv'
  <2>1. PICK id : id = plan.id + 1
    OBVIOUS
  <2>2. /\ plan' = [id |-> id, goals |-> goals]
        /\ rt' = [rt EXCEPT !.id = id, !.targets = goals, !.mismatch = NoNode]
    BY <1>7, <2>1 DEF UpdatePlan
  <2>3. /\ plan'.id = id /\ plan'.goals = goals
        /\ rt'.id = id /\ rt'.targets = goals
    BY <1>2, <2>2 DEF RuntimeType
  <2>4. goals \in Seq(Node) /\ id \in Nat /\ plan.id < id
    BY <1>2, <2>1, WindowAssumption
  <2>5. TargetsOfPlan'
    BY <2>3, <2>4, WholeOrNone DEF TargetsOfPlan
  <2>6. PICK p : p = plan'
    OBVIOUS
  <2>7. ASSUME NEW u \in Thread PROVE PlanOK(thread'[u], plan')
    <3>1. PICK other : other = thread[u]
      OBVIOUS
    <3>2. /\ other \in LocalType /\ PlanOK(other, plan) /\ other.id \in Nat
          /\ other.rt.id \in Nat
      BY <3>1, PlansNow, WindowAssumption DEF LocalType, RuntimeType
    <3>3. PlanOK(other, p)
      BY <1>2, <2>3, <2>4, <2>6, <3>2 DEF PlanOK, Working
    <3>4. CASE u # t
      <4>1. thread'[u] = other
        BY <1>7, <3>1, <3>4 DEF UpdatePlan, Goto, Finish, Become, PlansInv, TypeInv
      <4> QED BY <2>6, <3>3, <4>1
    <3>5. CASE u = t
      <4>1. PICK l : /\ l = [self EXCEPT !.pc = "fetch"]
                     /\ thread' = [thread EXCEPT ![t] = l]
        BY <1>1, <1>7 DEF UpdatePlan, Goto, Become
      <4>2. thread'[u] = l
        BY <3>5, <4>1 DEF PlansInv, TypeInv
      <4>3. l.pc = "fetch" /\ l.id = self.id
        BY <1>2, <4>1 DEF LocalType
      <4>4. l.id <= id /\ id # 0
        BY <1>2, <2>4, <4>3 DEF PlanOK, LocalType
      <4> QED BY <2>3, <2>6, <4>2, <4>3, <4>4 DEF PlanOK, Working, InPlanner
    <3> QED BY <3>4, <3>5
  <2> QED BY <2>5, <2>7 DEF PlansInv
<1> QED BY <1>3, <1>4, <1>5, <1>6, <1>7 DEF PlanStep

\* Windows are written back no matter which plan is current, targets are not.
LEMMA SharedPlans ==
  ASSUME PlansInv, TypeInv', NEW t \in Thread, SharedStep(t)
  PROVE  PlansInv'
<1>1. PICK self : self = thread[t]
  OBVIOUS
<1>2. /\ self \in LocalType /\ PlanOK(self, plan) /\ rt \in RuntimeType /\ self.rt \in RuntimeType
      /\ rt.id = plan.id /\ IsSuffix(rt.targets, plan.goals)
  BY <1>1, PlansNow
<1>3. plan' = plan /\ rt'.id = rt.id /\ rt'.targets = rt.targets
  <2>1. CASE GiveUp(t) \/ SentOnlyHere(t)
    BY <2>1 DEF GiveUp, SentOnlyHere
  <2>2. CASE StoreReserved(t)
    <3>1. PICK mismatch :
            /\ plan' = plan
            /\ rt' = IF rt.id = 0 THEN rt
                     ELSE [rt EXCEPT !.reserved = self.rt.reserved, !.mismatch = mismatch]
      BY <1>1, <2>2 DEF StoreReserved
    <3> QED BY <1>2, <3>1 DEF RuntimeType
  <2> QED BY <2>1, <2>2 DEF SharedStep
<1>4. PICK l : /\ \/ \E pc, mismatch : /\ \/ self.pc \in {"super", "rest"} /\ pc \in InPlanner
                                          \/ pc \in InStatus
                                       /\ l = [self EXCEPT !.pc = pc, !.rt.reserved = <<self.start>>,
                                                           !.rt.mismatch = mismatch]
                  \/ \E pc : /\ \/ self.pc \in InPlanner /\ pc \in InPlanner
                                \/ pc \in InStatus
                             /\ l = [self EXCEPT !.pc = pc]
                  \/ l = Local
               /\ Become(t, l)
  <2>1. CASE GiveUp(t)
    <3>1. PICK pc, mismatch : /\ pc = AfterGiveUp[self.pc]
                              /\ Become(t, [self EXCEPT !.pc = pc, !.rt.reserved = <<self.start>>,
                                                        !.rt.mismatch = mismatch])
      BY <1>1, <2>1 DEF GiveUp
    <3>2. \/ self.pc \in {"super", "rest"} /\ pc \in InPlanner
          \/ pc \in InStatus
      BY <1>1, <2>1, <3>1 DEF GiveUp, AfterGiveUp, InPlanner, InStatus
    <3> QED BY <3>1, <3>2
  <2>2. CASE StoreReserved(t)
    <3>1. PICK pc : pc = AfterStore[self.pc] /\ Become(t, [self EXCEPT !.pc = pc])
      BY <1>1, <2>2 DEF StoreReserved, Goto
    <3>2. \/ self.pc \in InPlanner /\ pc \in InPlanner
          \/ pc \in InStatus
      BY <1>1, <2>2, <3>1 DEF StoreReserved, AfterStore, InPlanner, InStatus
    <3> QED BY <3>1, <3>2
  <2>3. CASE SentOnlyHere(t)
    <3>1. CASE self.pc = "idle_sent"
      BY <1>1, <2>3, <3>1 DEF SentOnlyHere, Finish
    <3>2. CASE self.pc # "idle_sent"
      <4>1. PICK pc : pc = AfterSent[self.pc] /\ Become(t, [self EXCEPT !.pc = pc])
        BY <1>1, <2>3, <3>2 DEF SentOnlyHere, Goto
      <4>2. \/ self.pc \in InPlanner /\ pc \in InPlanner
            \/ pc \in InStatus
        BY <1>1, <2>3, <3>2, <4>1 DEF SentOnlyHere, AfterSent, InPlanner, InStatus
      <4> QED BY <4>1, <4>2
    <3> QED BY <3>1, <3>2
  <2> QED BY <2>1, <2>2, <2>3 DEF SharedStep
<1>5. /\ l = Local \/ /\ l.id = self.id /\ l.rt.id = self.rt.id /\ l.rt.targets = self.rt.targets
                      /\ l.pc \in InStatus \/ (self.pc \in InPlanner /\ l.pc \in InPlanner)
  <2>1. ASSUME NEW pc, NEW mismatch,
               \/ self.pc \in {"super", "rest"} /\ pc \in InPlanner
               \/ pc \in InStatus,
               l = [self EXCEPT !.pc = pc, !.rt.reserved = <<self.start>>, !.rt.mismatch = mismatch]
        PROVE  /\ l.id = self.id /\ l.rt.id = self.rt.id /\ l.rt.targets = self.rt.targets
               /\ l.pc \in InStatus \/ (self.pc \in InPlanner /\ l.pc \in InPlanner)
    <3>1. l.pc = pc /\ l.id = self.id /\ l.rt.id = self.rt.id /\ l.rt.targets = self.rt.targets
      BY <1>2, <2>1 DEF LocalType, RuntimeType
    <3>2. self.pc \in {"super", "rest"} => self.pc \in InPlanner
      BY DEF InPlanner
    <3> QED BY <2>1, <3>1, <3>2
  <2>2. ASSUME NEW pc,
               \/ self.pc \in InPlanner /\ pc \in InPlanner
               \/ pc \in InStatus,
               l = [self EXCEPT !.pc = pc]
        PROVE  /\ l.id = self.id /\ l.rt.id = self.rt.id /\ l.rt.targets = self.rt.targets
               /\ l.pc \in InStatus \/ (self.pc \in InPlanner /\ l.pc \in InPlanner)
    <3>1. l.pc = pc /\ l.id = self.id /\ l.rt = self.rt
      BY <1>2, <2>2 DEF LocalType
    <3> QED BY <2>2, <3>1
  <2> QED BY <1>4, <2>1, <2>2
<1>6. CASE l = Local \/ l.pc \in InStatus
  <2>1. l.pc \notin Working \cup {"fetch"} /\ l.id \in {0, self.id}
    BY <1>5, <1>6 DEF Local, Working, InPlanner, InStatus
  <2> QED BY <1>1, <1>2, <1>3, <1>4, <2>1, PlansAside
<1>7. CASE /\ self.pc \in InPlanner /\ l.pc \in InPlanner
           /\ l.id = self.id /\ l.rt.id = self.rt.id /\ l.rt.targets = self.rt.targets
  BY <1>1, <1>2, <1>3, <1>4, <1>7, PlansOn
<1> QED BY <1>5, <1>6, <1>7

\* At first the targets belong to the empty plan.
LEMMA PlansInitially == Init => PlansInv
<1> SUFFICES ASSUME Init PROVE PlansInv
  OBVIOUS
<1>1. TypeInv
  BY TypesInitially
<1>2. TargetsOfPlan
  <2>1. PICK s : s = plan.goals /\ s = rt.targets /\ s = <<>>
    BY DEF Init, NoRuntime
  <2>2. s \in Seq(Node)
    BY <2>1
  <2>3. IsSuffix(s, s)
    BY <2>2, WholeOrNone
  <2>4. rt.id = plan.id
    BY DEF Init, NoRuntime
  <2> QED BY <2>1, <2>3, <2>4 DEF TargetsOfPlan
<1>3. ASSUME NEW t \in Thread PROVE PlanOK(thread[t], plan)
  <2>1. thread[t] = Local /\ plan.id = 0
    BY DEF Init
  <2> QED BY <2>1 DEF PlanOK, Local, Working, InPlanner
<1> QED BY <1>1, <1>2, <1>3 DEF PlansInv

\* Every step keeps the targets, and every copy of them that may be written back, a part of the plan.
LEMMA PlansInductive == PlansInv /\ [Next]_vars => PlansInv'
<1> SUFFICES ASSUME PlansInv, [Next]_vars PROVE PlansInv'
  OBVIOUS
<1>1. TypeInv'
  BY TypesInductive DEF PlansInv
<1>2. CASE UNCHANGED <<plan, rt, thread>>
  <2>1. TargetsOfPlan'
    BY <1>2 DEF PlansInv, TargetsOfPlan
  <2> QED BY <1>1, <1>2, <2>1 DEF PlansInv
<1>3. CASE Environment
  BY <1>2, <1>3 DEF Environment, Drive, Expire, OtherTakes, OtherLeaves
<1>4. CASE UNCHANGED vars
  BY <1>2, <1>4 DEF vars
<1> QED BY <1>1, <1>3, <1>4, ReceiverPlans, PlannerPlans, PlanPlans, SharedPlans DEF Next

\* The copies of planners fit the plan in every state.
THEOREM PlansInvariance == Spec => []PlansInv
BY PlansInitially, PlansInductive, PTL DEF Spec

\* What is left to do belongs to the current plan and is a suffix of its targets, however the
\* status handler, planners and commits of new plans overlap: a planner that worked for an
\* older plan does not write its targets over those of the new one.
THEOREM TargetsAreOfThePlan == Spec => []TargetsOfPlan
<1>1. PlansInv => TargetsOfPlan
  BY DEF PlansInv
<1> QED BY <1>1, PlansInvariance, PTL

-----------------------------------------------------------------------------
(* The trail: sequences that come to no node twice.                         *)

\* What is left of such a sequence from some position on.
LEMMA RestIs ==
  ASSUME NEW s \in Seq(Node), IsInjective(s), NEW k \in 1 .. Len(s)
  PROVE  /\ SubSeq(s, k, Len(s)) \in Seq(Node)
         /\ Len(SubSeq(s, k, Len(s))) = Len(s) - k + 1
         /\ \A m \in 1 .. Len(s) - k + 1 : SubSeq(s, k, Len(s))[m] = s[k + m - 1]
         /\ IsInjective(SubSeq(s, k, Len(s)))
<1>1. PICK w : w = SubSeq(s, k, Len(s))
  OBVIOUS
<1>2. /\ w \in Seq(Node) /\ Len(w) = Len(s) - k + 1
      /\ \A m \in 1 .. Len(s) - k + 1 : w[m] = s[k + m - 1]
  BY <1>1
<1>3. ASSUME NEW a \in DOMAIN w, NEW b \in DOMAIN w, w[a] = w[b] PROVE a = b
  <2>1. a \in 1 .. Len(s) - k + 1 /\ b \in 1 .. Len(s) - k + 1
    BY <1>2
  <2>2. k + a - 1 \in DOMAIN s /\ k + b - 1 \in DOMAIN s
    BY <2>1
  <2>3. s[k + a - 1] = s[k + b - 1]
    BY <1>2, <1>3, <2>1
  <2>4. k + a - 1 = k + b - 1
    BY <2>2, <2>3 DEF IsInjective
  <2> QED BY <2>1, <2>4
<1> QED BY <1>1, <1>2, <1>3 DEF IsInjective

\* A node is found at its only position.
LEMMA FromAt ==
  ASSUME NEW s \in Seq(Node), IsInjective(s), NEW k \in 1 .. Len(s)
  PROVE  From(s, s[k]) = SubSeq(s, k, Len(s))
<1>1. PICK I : I = {i \in 1 .. Len(s) : s[i] = s[k]}
  OBVIOUS
<1>2. I = {k}
  <2>1. ASSUME NEW i \in I PROVE i = k
    BY <1>1, <2>1 DEF IsInjective
  <2> QED BY <1>1, <2>1
<1>3. Min(I) = k
  <2>1. I \subseteq Nat /\ I # {}
    BY <1>2
  <2>2. Min(I) \in I
    BY <2>1, FirstOf
  <2> QED BY <1>2, <2>2
<1>4. From(s, s[k]) = SubSeq(s, IF {i \in 1 .. Len(s) : s[i] = s[k]} # {}
                                THEN Min({i \in 1 .. Len(s) : s[i] = s[k]}) ELSE 0, Len(s))
  BY Zenon DEF From, SelectInSeq
<1> QED BY <1>1, <1>2, <1>3, <1>4

\* What From returns, for a node of the sequence.
LEMMA FromIs ==
  ASSUME NEW s \in Seq(Node), IsInjective(s), NEW n \in Range(s)
  PROVE  \E k \in 1 .. Len(s) :
           /\ s[k] = n
           /\ From(s, n) \in Seq(Node) /\ IsInjective(From(s, n))
           /\ Len(From(s, n)) = Len(s) - k + 1
           /\ From(s, n) = SubSeq(s, k, Len(s))
           /\ \A m \in 1 .. Len(s) - k + 1 : From(s, n)[m] = s[k + m - 1]
<1>1. PICK k \in 1 .. Len(s) : s[k] = n
  BY DEF Range
<1>2. From(s, n) = SubSeq(s, k, Len(s))
  BY <1>1, FromAt
<1> QED BY <1>1, <1>2, RestIs

\* It begins with the node, and its nodes are those of the sequence.
LEMMA FromFacts ==
  ASSUME NEW s \in Seq(Node), IsInjective(s), NEW n \in Range(s)
  PROVE  /\ From(s, n) \in Seq(Node) /\ IsInjective(From(s, n)) /\ From(s, n) # <<>>
         /\ Len(From(s, n)) \in Nat \ {0} /\ From(s, n)[1] = n
         /\ Range(From(s, n)) \subseteq Range(s)
<1>1. PICK k \in 1 .. Len(s) :
        /\ s[k] = n
        /\ From(s, n) \in Seq(Node) /\ IsInjective(From(s, n))
        /\ Len(From(s, n)) = Len(s) - k + 1
        /\ \A m \in 1 .. Len(s) - k + 1 : From(s, n)[m] = s[k + m - 1]
  BY FromIs
<1>2. PICK w : w = From(s, n)
  OBVIOUS
<1>3. Len(w) \in Nat \ {0} /\ w # <<>> /\ w[1] = n
  BY <1>1, <1>2
<1>4. ASSUME NEW x \in Range(w) PROVE x \in Range(s)
  <2>1. PICK m \in 1 .. Len(s) - k + 1 : x = w[m]
    BY <1>1, <1>2 DEF Range
  <2>2. x = s[k + m - 1] /\ k + m - 1 \in DOMAIN s
    BY <1>1, <1>2, <2>1
  <2> QED BY <2>2 DEF Range
<1> QED BY <1>1, <1>2, <1>3, <1>4

\* Nodes before it are not in it.
LEMMA Before ==
  ASSUME NEW s \in Seq(Node), IsInjective(s), NEW n \in Range(s),
         NEW x \in Range(SubSeq(s, 1, Len(s) - Len(From(s, n))))
  PROVE  x \notin Range(From(s, n))
<1>1. PICK k \in 1 .. Len(s) :
        /\ From(s, n) \in Seq(Node)
        /\ Len(From(s, n)) = Len(s) - k + 1
        /\ \A m \in 1 .. Len(s) - k + 1 : From(s, n)[m] = s[k + m - 1]
  BY FromIs
<1>2. PICK i \in 1 .. k - 1 : x = s[i]
  BY <1>1 DEF Range
<1>3. SUFFICES ASSUME x \in Range(From(s, n)) PROVE FALSE
  OBVIOUS
<1>4. PICK m \in 1 .. Len(s) - k + 1 : x = s[k + m - 1]
  <2>1. DOMAIN From(s, n) = 1 .. Len(s) - k + 1
    BY <1>1
  <2>2. PICK m \in DOMAIN From(s, n) : x = From(s, n)[m]
    BY <1>3, Zenon DEF Range
  <2> QED BY <1>1, <2>1, <2>2
<1>5. i \in DOMAIN s /\ k + m - 1 \in DOMAIN s /\ i # k + m - 1
  OBVIOUS
<1> QED BY <1>2, <1>4, <1>5 DEF IsInjective

\* From a later node on, the rest of the sequence is the rest of the rest.
LEMMA FromFrom ==
  ASSUME NEW s \in Seq(Node), IsInjective(s), NEW n \in Range(s),
         NEW i \in 1 .. Len(From(s, n))
  PROVE  /\ From(s, n)[i] \in Range(s)
         /\ From(s, From(s, n)[i]) = SubSeq(From(s, n), i, Len(From(s, n)))
<1>1. PICK k \in 1 .. Len(s) :
        /\ s[k] = n
        /\ From(s, n) \in Seq(Node) /\ IsInjective(From(s, n))
        /\ Len(From(s, n)) = Len(s) - k + 1
        /\ From(s, n) = SubSeq(s, k, Len(s))
        /\ \A m \in 1 .. Len(s) - k + 1 : From(s, n)[m] = s[k + m - 1]
  BY FromIs
<1>2. PICK w : w = From(s, n)
  OBVIOUS
<1>3. PICK j : j = k + i - 1
  OBVIOUS
<1>4. j \in 1 .. Len(s) /\ w[i] = s[j]
  BY <1>1, <1>2, <1>3
<1>5. From(s, w[i]) = SubSeq(s, j, Len(s))
  BY <1>4, FromAt
<1>6. SubSeq(w, i, Len(w)) = SubSeq(s, j, Len(s))
  <2>1. /\ SubSeq(s, j, Len(s)) \in Seq(Node) /\ Len(SubSeq(s, j, Len(s))) = Len(s) - j + 1
        /\ \A m \in 1 .. Len(s) - j + 1 : SubSeq(s, j, Len(s))[m] = s[j + m - 1]
    BY <1>4, RestIs
  <2>2. /\ SubSeq(w, i, Len(w)) \in Seq(Node) /\ Len(SubSeq(w, i, Len(w))) = Len(w) - i + 1
        /\ \A m \in 1 .. Len(w) - i + 1 : SubSeq(w, i, Len(w))[m] = w[i + m - 1]
    BY <1>1, <1>2, RestIs
  <2>3. Len(w) - i + 1 = Len(s) - j + 1
    BY <1>1, <1>2, <1>3
  <2>4. ASSUME NEW m \in 1 .. Len(s) - j + 1 PROVE w[i + m - 1] = s[j + m - 1]
    <3>1. i + m - 1 \in 1 .. Len(s) - k + 1 /\ k + (i + m - 1) - 1 = j + m - 1
      BY <1>3
    <3>2. w[i + m - 1] = s[k + (i + m - 1) - 1]
      BY <1>1, <1>2, <3>1
    <3> QED BY <3>1, <3>2
  <2>5. PICK u, v : u = SubSeq(w, i, Len(w)) /\ v = SubSeq(s, j, Len(s))
    OBVIOUS
  <2>6. u \in Seq(Node) /\ v \in Seq(Node) /\ Len(u) = Len(v) /\ \A m \in 1 .. Len(v) : u[m] = v[m]
    BY <2>1, <2>2, <2>3, <2>4, <2>5
  <2>7. u = v
    BY <2>6
  <2> QED BY <2>5, <2>7
<1>7. w[i] \in Range(s)
  BY <1>4 DEF Range
<1> QED BY <1>2, <1>5, <1>6, <1>7

-----------------------------------------------------------------------------
(* What the trail hangs on when the threads take turns.                     *)

\* No node is held by this vehicle and kept from it by another.
NotShared == \A n \in blocked : holds[n] = "none"

\* One thread at a time has to do with the vehicle.
Turns == \A t, u \in Thread : t = u \/ thread[t].pc = "idle" \/ thread[u].pc = "idle"

\* The way ahead: the window from the node last reported on.
Way == IF rt.reserved = <<>> THEN <<seen>> ELSE From(rt.reserved, seen)

\* s comes to no node twice and goes on like the way.
Fits(s) ==
  /\ IsInjective(s)
  /\ IF s = <<>> THEN Way = <<seen>> ELSE seen \in Range(s) /\ From(s, seen) = Way

\* The trail is a part of w, and w is held without end up to where the trail ends.
Covers(w) ==
  \E i \in 1 .. Len(w) : \E j \in i .. Len(w) :
     /\ trail = SubSeq(w, i, j)
     /\ \A m \in 1 .. j : holds[w[m]] = "kept"

\* Where a planner may be while the route last sent is forgotten.
Bare == {"fetch", "copy", "align", "align_super", "super", "super_sent", "plan", "rest", "rest_sent",
         "reserve", "retry", "release", "write"}

\* Where a thread is that has given up a window with nothing ahead.
Resting == {"idle_store", "idle_sent", "super_sent", "super_store", "rest_sent", "reset_store",
            "reset_sent"}

\* What a thread carries fits the way.
OnWay(l) ==
  /\ l.pc \notin {"idle", "locate"} => l.start = seen
  /\ l.pc \notin {"realign", "realign_super"}
  /\ l.pc \in Working => l.id = plan.id
  /\ l.pc \in {"advance", "advance_idle", "decide", "align", "align_super"} => l.rt.reserved = rt.reserved
  /\ l.pc = "store" => l.rt.reserved # <<>> /\ Fits(l.rt.reserved)
  /\ l.pc \in Resting => Way = <<seen>> /\ l.rt.reserved = <<seen>>
  /\ l.pc \in {"write_sent", "clear"} => l.sent = lastSent
  /\ l.pc = "renew" => \A n \in Range(Way) : n = seen \/ n \in Range(l.sent)
  /\ l.pc \in {"super", "plan", "rest", "rest_write"} => l.rt.reserved = Way
  /\ l.pc \in {"reserve", "retry"} => l.sent = Way /\ IsPrefix(Way, l.route)
  /\ l.pc \in {"release", "write"} => /\ IsInjective(l.rt.reserved)
                                      /\ l.rt.reserved[1] = seen
                                      /\ Covers(l.rt.reserved)
                                      /\ IsPrefix(l.rt.reserved, Way) \/ IsPrefix(Way, l.rt.reserved)
  /\ l.pc = "commit" => l.sent = rt.reserved /\ rt.reserved # <<>>
  /\ l.pc = "check" => l.route # <<>> /\ IsPrefix(l.route, Way)
  /\ l.pc = "reserve_trail" => /\ l.sent = Way /\ l.route = Way
                               /\ \A m \in 1 .. l.got : holds[Way[m]] = "kept"
  /\ l.pc = "publish" => l.route = Way /\ \A n \in Range(Way) : holds[n] = "kept"

\* The window, the route last sent, what the threads carry, the holds and the trail agree.
Agreed ==
  /\ Fits(rt.reserved)
  /\ Covers(Way)
  /\ \A t \in Thread : OnWay(thread[t])
  /\ \/ Fits(lastSent)
     \/ \E t \in Thread : thread[t].pc = "commit" \/ (thread[t].pc \in Bare /\ lastSent = <<>>)

\* The inductive invariant behind TrailHeld and NeverRetracted.
TrailInv == NotShared /\ Turns /\ (upset \/ Agreed)

\* The thread t is the one whose turn it is, or may begin.
Active(t) == thread[t].pc # "idle" \/ \A u \in Thread : thread[u].pc = "idle"

\* The way itself.
LEMMA WayFacts ==
  ASSUME TypeInv, Fits(rt.reserved)
  PROVE  /\ Way \in Seq(Node) /\ IsInjective(Way) /\ Way # <<>> /\ Len(Way) \in Nat \ {0}
         /\ Way[1] = seen /\ seen \in Node
<1>1. rt.reserved \in Seq(Node) /\ seen \in Node
  BY DEF TypeInv, TypeOK
<1>2. CASE rt.reserved = <<>>
  <2>1. Way = <<seen>>
    BY <1>2 DEF Way
  <2>2. <<seen>> \in Seq(Node) /\ IsInjective(<<seen>>) /\ <<seen>> # <<>> /\ Len(<<seen>>) = 1
        /\ <<seen>>[1] = seen
    BY <1>1 DEF IsInjective
  <2> QED BY <1>1, <2>1, <2>2
<1>3. CASE rt.reserved # <<>>
  <2>1. Way = From(rt.reserved, seen) /\ seen \in Range(rt.reserved) /\ IsInjective(rt.reserved)
    BY <1>3 DEF Way, Fits
  <2> QED BY <1>1, <2>1, FromFacts
<1> QED BY <1>2, <1>3

\* It depends on the window and the cached status only.
LEMMA SameWay ==
  ASSUME seen' = seen, rt'.reserved = rt.reserved
  PROVE  Way' = Way /\ \A s : Fits(s)' <=> Fits(s)
<1>1. Way' = Way
  BY DEF Way
<1> QED BY <1>1 DEF Fits

\* A trail stays covered as long as holds without end stay.
LEMMA StillCovers ==
  ASSUME NEW w \in Seq(Node), Covers(w), trail' = trail,
         \A n \in Range(w) : holds[n] = "kept" => holds'[n] = "kept"
  PROVE  Covers(w)'
<1>1. PICK i \in 1 .. Len(w) : \E j \in i .. Len(w) :
        /\ trail = SubSeq(w, i, j)
        /\ \A m \in 1 .. j : holds[w[m]] = "kept"
  BY DEF Covers
<1>2. PICK j \in i .. Len(w) :
        /\ trail = SubSeq(w, i, j)
        /\ \A m \in 1 .. j : holds[w[m]] = "kept"
  BY <1>1
<1>3. ASSUME NEW m \in 1 .. j PROVE holds'[w[m]] = "kept"
  <2>1. w[m] \in Range(w)
    BY DEF Range
  <2> QED BY <1>2, <2>1
<1> QED BY <1>2, <1>3 DEF Covers

\* While a thread has its turn, the others carry nothing.
LEMMA Others ==
  ASSUME Turns, NEW t \in Thread, Active(t), NEW u \in Thread, u # t
  PROVE  thread[u].pc = "idle"
BY DEF Turns, Active

\* The route last sent, seen from the thread that has its turn.
LEMMA LastNow ==
  ASSUME Turns, Agreed, NEW t \in Thread, Active(t)
  PROVE  \/ Fits(lastSent)
         \/ thread[t].pc = "commit"
         \/ thread[t].pc \in Bare /\ lastSent = <<>>
<1>1. CASE Fits(lastSent)
  BY <1>1
<1>2. ASSUME NEW u \in Thread, thread[u].pc = "commit" \/ (thread[u].pc \in Bare /\ lastSent = <<>>)
      PROVE  \/ thread[t].pc = "commit"
             \/ thread[t].pc \in Bare /\ lastSent = <<>>
  <2>1. thread[u].pc # "idle"
    BY <1>2 DEF Bare
  <2>2. u = t
    BY <2>1, Others
  <2> QED BY <1>2, <2>2
<1> QED BY <1>1, <1>2 DEF Agreed

\* A step of the thread whose turn it is.
LEMMA AgreedAgain ==
  ASSUME TypeInv, Turns, NEW t \in Thread, Active(t), NEW l, Become(t, l),
         Fits(rt.reserved)', Covers(Way)', OnWay(l)',
         \/ Fits(lastSent)'
         \/ l.pc = "commit"
         \/ l.pc \in Bare /\ lastSent' = <<>>
  PROVE  Agreed'
<1>1. thread' = [thread EXCEPT ![t] = l] /\ thread \in [Thread -> LocalType]
  BY DEF Become, TypeInv
<1>2. thread'[t] = l
  BY <1>1
<1>3. ASSUME NEW u \in Thread PROVE OnWay(thread[u])'
  <2>1. CASE u = t
    BY <1>2, <2>1
  <2>2. CASE u # t
    <3>1. thread'[u] = thread[u] /\ thread[u].pc = "idle"
      BY <1>1, <2>2, Others
    <3> QED BY <3>1 DEF OnWay, Resting, Working, InPlanner
  <2> QED BY <2>1, <2>2
<1> QED BY <1>2, <1>3 DEF Agreed

\* A step that changes nothing but what its thread carries.
LEMMA Quiet ==
  ASSUME TypeInv, Turns, Agreed, NEW t \in Thread, Active(t), NEW l, Become(t, l),
         seen' = seen, rt'.reserved = rt.reserved, lastSent' = lastSent, holds' = holds,
         trail' = trail, plan' = plan, OnWay(l),
         \/ Fits(lastSent)
         \/ l.pc = "commit"
         \/ l.pc \in Bare /\ lastSent = <<>>
  PROVE  Agreed'
<1>1. Way' = Way /\ \A s : Fits(s)' <=> Fits(s)
  BY SameWay
<1>2. Fits(rt.reserved)' /\ Covers(Way)'
  BY <1>1 DEF Agreed, Covers, Fits
<1>3. OnWay(l)'
  BY <1>1 DEF OnWay, Covers
<1>4. Fits(lastSent)' <=> Fits(lastSent)
  BY <1>1 DEF Fits
<1> QED BY <1>2, <1>3, <1>4, AgreedAgain

\* Where a node is not held, the next step may only hold it if no other vehicle keeps it away.
LEMMA NotSharedNext ==
  ASSUME TypeInv, NotShared, [Next]_vars
  PROVE  NotShared'
<1> DEFINE Fair == \A n \in Node : holds'[n] \in {holds[n], "none"} \/ n \notin blocked
<1>1. holds \in [Node -> {"none", "expires", "kept"}] /\ blocked \subseteq Node
  BY DEF TypeInv, TypeOK
<1>2. ASSUME blocked' = blocked, Fair PROVE NotShared'
  BY <1>1, <1>2 DEF NotShared
<1>3. /\ \A n \in Node : \A k : \A m \in Node : Reserve(n, k)[m] \in {holds[m], "none"} \/ m \notin blocked
      /\ \A s : \A m \in Node : Keeping(s)[m] \in {holds[m], "none"}
      /\ \A n \in Node : \A m \in Node : KeepingOnly(n)[m] \in {holds[m], "none"} \/ m \notin blocked
  BY <1>1 DEF Reserve, Grants, Keeping, KeepingOnly
<1>4. CASE holds' = holds /\ blocked' = blocked
  BY <1>2, <1>4
<1>5. ASSUME NEW t \in Thread,
             GiveUp(t) \/ Renew(t) \/ ReserveNode(t) \/ Release(t) \/ Clear(t) \/ ReserveTrail(t)
               \/ DecideTrim(t)
      PROVE  NotShared'
  <2>1. /\ LocalOK(thread[t]) /\ thread[t].route \in Seq(Node) /\ thread[t].got \in Nat
        /\ thread[t].start \in Node \cup {NoNode}
    BY TypedNow
  <2>2. CASE GiveUp(t)
    <3>1. thread[t].start \in Node
      BY <2>1, <2>2 DEF GiveUp, AfterGiveUp, LocalOK
    <3>2. /\ holds' \in {KeepingOnly(thread[t].start), Keeping({thread[t].start})}
          /\ blocked' = blocked
      BY <2>2 DEF GiveUp
    <3> QED BY <1>2, <1>3, <3>1, <3>2
  <2>3. CASE Renew(t)
    <3>1. thread[t].route # <<>> /\ thread[t].route[1] \in Node
      BY <2>1, <2>3 DEF Renew, LocalOK
    <3>2. blocked' = blocked /\ \E k : holds' = Reserve(thread[t].route[1], k)
      BY <2>3 DEF Renew
    <3> QED BY <1>2, <1>3, <3>1, <3>2
  <2>4. CASE ReserveNode(t) \/ ReserveTrail(t)
    <3>1. thread[t].got < Len(thread[t].route)
      BY <2>4 DEF ReserveNode, ReserveTrail
    <3>2. thread[t].route[thread[t].got + 1] \in Node
      BY <2>1, <3>1
    <3>3. blocked' = blocked /\ \E k : holds' = Reserve(thread[t].route[thread[t].got + 1], k)
      BY <2>4 DEF ReserveNode, ReserveTrail
    <3> QED BY <1>2, <1>3, <3>2, <3>3
  <2>5. CASE Release(t)
    BY <1>2, <1>3, <2>5 DEF Release
  <2>6. CASE Clear(t)
    BY <1>1, <1>2, <2>6 DEF Clear, Grants
  <2>7. CASE DecideTrim(t)
    BY <1>1, <1>2, <2>7 DEF DecideTrim
  <2> QED BY <1>5, <2>2, <2>3, <2>4, <2>5, <2>6, <2>7
<1>6. ASSUME NEW t \in Thread, ReceiverStep(t) PROVE NotShared'
  BY <1>4, <1>5, <1>6
     DEF ReceiverStep, StatusArrives, Snapshot, Advance, DecideIdle, DecideKeep, DecideReset, ReadSent,
         WriteSent, Refresh, TrailBegin, Build, Check, TrailFails, Record, Publish
<1>7. ASSUME NEW t \in Thread, PlannerStep(t) PROVE NotShared'
  BY <1>4, <1>5, <1>7
     DEF PlannerStep, ReplanBegin, Locate, Copy, Align, PlanNothing, PlanFails, PlanRoute, Reserved,
         KeepOld, WriteBack, CommitWindow
<1>8. ASSUME NEW t \in Thread, PlanStep(t) PROVE NotShared'
  BY <1>4, <1>5, <1>8 DEF PlanStep, CommitBegin, Committed, AroundBegin, UpdatePlan, Fetch
<1>9. ASSUME NEW t \in Thread, SharedStep(t) PROVE NotShared'
  BY <1>4, <1>5, <1>9 DEF SharedStep, StoreReserved, SentOnlyHere
<1>10. CASE Environment
  <2>1. CASE Drive
    BY <1>4, <2>1 DEF Drive
  <2>2. ASSUME NEW n \in Node, Expire(n) PROVE NotShared'
    BY <1>1, <1>2, <2>2 DEF Expire
  <2>3. ASSUME NEW n \in Node, OtherTakes(n) \/ OtherLeaves(n) PROVE NotShared'
    BY <2>3 DEF OtherTakes, OtherLeaves, NotShared
  <2> QED BY <1>10, <2>1, <2>2, <2>3 DEF Environment
<1>11. CASE UNCHANGED vars
  BY <1>4, <1>11 DEF vars
<1> QED BY <1>6, <1>7, <1>8, <1>9, <1>10, <1>11 DEF Next

\* If threads take turns, a thread steps only when it is its turn.
LEMMA ActiveStep ==
  ASSUME Serial, NEW t \in Thread,
         ReceiverStep(t) \/ PlannerStep(t) \/ PlanStep(t) \/ SharedStep(t)
  PROVE  Active(t)
<1>1. CASE Begin(t)
  BY <1>1 DEF Begin, Active
<1>2. CASE thread[t].pc # "idle"
  BY <1>2 DEF Active
<1>3. CASE ReceiverStep(t)
  BY <1>1, <1>2, <1>3
     DEF ReceiverStep, StatusArrives, Snapshot, Advance, DecideIdle, DecideTrim, DecideKeep,
         DecideReset, ReadSent, WriteSent, Refresh, Renew, TrailBegin, Build, Check, ReserveTrail,
         TrailFails, Record, Publish
<1>4. CASE PlannerStep(t)
  BY <1>1, <1>2, <1>4
     DEF PlannerStep, ReplanBegin, Locate, Copy, Align, PlanNothing, PlanFails, PlanRoute, ReserveNode,
         Reserved, KeepOld, Release, WriteBack, CommitWindow
<1>5. CASE PlanStep(t)
  BY <1>1, <1>2, <1>5 DEF PlanStep, CommitBegin, Committed, Clear, AroundBegin, UpdatePlan, Fetch
<1>6. CASE SharedStep(t)
  BY <1>2, <1>6 DEF SharedStep, GiveUp, StoreReserved, SentOnlyHere, AfterGiveUp, AfterStore, AfterSent
<1> QED BY <1>3, <1>4, <1>5, <1>6

\* A step of a thread changes what that thread carries.
LEMMA OwnStep ==
  ASSUME NEW t \in Thread, ReceiverStep(t) \/ PlannerStep(t) \/ PlanStep(t) \/ SharedStep(t)
  PROVE  \E l : Become(t, l)
<1>1. CASE ReceiverStep(t)
  BY <1>1
     DEF ReceiverStep, StatusArrives, Snapshot, Advance, DecideIdle, DecideTrim, DecideKeep,
         DecideReset, ReadSent, WriteSent, Refresh, Renew, TrailBegin, Build, Check, ReserveTrail,
         TrailFails, Record, Publish, Goto, Finish
<1>2. CASE PlannerStep(t)
  BY <1>2
     DEF PlannerStep, ReplanBegin, Locate, Copy, Align, PlanNothing, PlanFails, PlanRoute, ReserveNode,
         Reserved, KeepOld, Release, WriteBack, CommitWindow, Goto, Finish
<1>3. CASE PlanStep(t)
  BY <1>3 DEF PlanStep, CommitBegin, Committed, Clear, AroundBegin, UpdatePlan, Fetch, Goto, Finish
<1>4. CASE SharedStep(t)
  BY <1>4 DEF SharedStep, GiveUp, StoreReserved, SentOnlyHere, Goto, Finish
<1> QED BY <1>1, <1>2, <1>3, <1>4

\* So threads go on taking turns.
LEMMA TurnsNext ==
  ASSUME Serial, TypeInv, Turns, [Next]_vars
  PROVE  Turns'
<1>1. ASSUME NEW t \in Thread, ReceiverStep(t) \/ PlannerStep(t) \/ PlanStep(t) \/ SharedStep(t)
      PROVE  Turns'
  <2>1. Active(t)
    BY <1>1, ActiveStep
  <2>2. PICK l : thread' = [thread EXCEPT ![t] = l]
    BY <1>1, OwnStep DEF Become
  <2>3. ASSUME NEW u \in Thread, u # t PROVE thread'[u].pc = "idle"
    BY <2>1, <2>2, <2>3, Others DEF TypeInv
  <2> QED BY <2>3 DEF Turns
<1>2. CASE thread' = thread
  BY <1>2 DEF Turns
<1>3. CASE Environment
  BY <1>2, <1>3 DEF Environment, Drive, Expire, OtherTakes, OtherLeaves
<1>4. CASE UNCHANGED vars
  BY <1>2, <1>4 DEF vars
<1> QED BY <1>1, <1>3, <1>4 DEF Next

-----------------------------------------------------------------------------
(* The trail: the status handler.                                           *)

\* What the invariant says of the thread that has its turn.
LEMMA AgreedNow ==
  ASSUME TypeInv, Agreed, NEW t \in Thread
  PROVE  /\ thread[t] \in LocalType /\ thread[t].rt \in RuntimeType /\ LocalOK(thread[t])
         /\ thread[t].sent \in Seq(Node) /\ thread[t].route \in Seq(Node)
         /\ thread[t].rt.reserved \in Seq(Node)
         /\ OnWay(thread[t])
         /\ rt \in RuntimeType /\ rt.reserved \in Seq(Node) /\ lastSent \in Seq(Node)
         /\ holds \in [Node -> {"none", "expires", "kept"}]
         /\ Fits(rt.reserved) /\ Covers(Way)
BY TypedNow DEF Agreed, RuntimeType, TypeInv, TypeOK

\* The way fits itself.
LEMMA WayFits ==
  ASSUME TypeInv, Fits(rt.reserved)
  PROVE  Fits(Way)
<1>1. /\ Way \in Seq(Node) /\ IsInjective(Way) /\ Way # <<>> /\ Len(Way) \in Nat \ {0}
      /\ Way[1] = seen
  BY WayFacts
<1>2. From(Way, seen) = SubSeq(Way, 1, Len(Way))
  BY <1>1, FromAt
<1>3. SubSeq(Way, 1, Len(Way)) = Way
  <2>1. PICK w : w = Way
    OBVIOUS
  <2>2. SubSeq(w, 1, Len(w)) = w
    BY <1>1, <2>1
  <2> QED BY <2>1, <2>2
<1>4. seen \in Range(Way)
  BY <1>1 DEF Range
<1> QED BY <1>1, <1>2, <1>3, <1>4 DEF Fits

\* A status moves the start of the way to the vehicle.
LEMMA ArriveAgreed ==
  ASSUME TypeInv, Turns, Agreed, NEW t \in Thread, Active(t), NEW idle, StatusArrives(t, idle)
  PROVE  Agreed'
<1>1. /\ rt.reserved \in Seq(Node) /\ lastSent \in Seq(Node)
      /\ Fits(rt.reserved) /\ Covers(Way)
  BY AgreedNow
<1>2. PICK l : /\ Become(t, l) /\ l.pc \in {"snapshot", "snapshot_idle"} /\ l.start = trail[1]
  <2>1. PICK pc : /\ pc \in {"snapshot", "snapshot_idle"}
                  /\ Become(t, [Local EXCEPT !.pc = pc, !.start = trail[1]])
    BY DEF StatusArrives
  <2>2. PICK l : l = [Local EXCEPT !.pc = pc, !.start = trail[1]]
    OBVIOUS
  <2>3. l.pc = pc /\ l.start = trail[1]
    BY <2>2 DEF Local
  <2> QED BY <2>1, <2>2, <2>3
<1>3. /\ seen' = trail[1] /\ UNCHANGED <<plan, rt, lastSent, holds, trail>>
      /\ thread[t].pc = "idle"
  BY DEF StatusArrives, Begin
<1>4. Fits(lastSent)
  BY <1>3, LastNow DEF Bare
<1>5. PICK w : w = Way
  OBVIOUS
<1>6. w \in Seq(Node) /\ IsInjective(w) /\ Len(w) \in Nat \ {0} /\ w[1] = seen /\ seen \in Node
  BY <1>1, <1>5, WayFacts
<1>7. PICK i \in 1 .. Len(w) : \E j \in i .. Len(w) :
        /\ trail = SubSeq(w, i, j)
        /\ \A m \in 1 .. j : holds[w[m]] = "kept"
  BY <1>1, <1>5 DEF Covers
<1>8. PICK j \in i .. Len(w) :
        /\ trail = SubSeq(w, i, j)
        /\ \A m \in 1 .. j : holds[w[m]] = "kept"
  BY <1>7
<1>9. trail[1] = w[i] /\ seen' = w[i]
  BY <1>3, <1>6, <1>8
<1>10. CASE w = <<seen>>
  <2>1. seen' = seen
    BY <1>6, <1>9, <1>10
  <2>2. OnWay(l)
    BY <1>2, <1>3, <2>1 DEF OnWay, Resting, Working, InPlanner
  <2> QED BY <1>2, <1>3, <1>4, <2>1, <2>2, Quiet
<1>11. CASE w # <<seen>>
  <2>1. /\ rt.reserved # <<>> /\ w = From(rt.reserved, seen) /\ seen \in Range(rt.reserved)
        /\ IsInjective(rt.reserved)
        /\ lastSent # <<>> /\ w = From(lastSent, seen) /\ seen \in Range(lastSent)
        /\ IsInjective(lastSent)
    BY <1>1, <1>4, <1>5, <1>11 DEF Way, Fits
  <2>2. PICK v : v = SubSeq(w, i, Len(w))
    OBVIOUS
  <2>3. /\ seen' \in Range(rt.reserved) /\ From(rt.reserved, seen') = v
        /\ seen' \in Range(lastSent) /\ From(lastSent, seen') = v
    BY <1>1, <1>9, <2>1, <2>2, FromFrom
  <2>4. Way' = v
    BY <1>3, <2>1, <2>3 DEF Way
  <2>5. Fits(rt.reserved)' /\ Fits(lastSent)'
    BY <1>3, <2>1, <2>3, <2>4 DEF Fits
  <2>6. Covers(Way)'
    <3>1. /\ v \in Seq(Node) /\ Len(v) = Len(w) - i + 1
          /\ \A m \in 1 .. Len(w) - i + 1 : v[m] = w[i + m - 1]
      BY <1>6, <2>2, RestIs
    <3>2. PICK k : k = j - i + 1
      OBVIOUS
    <3>3. k \in 1 .. Len(v)
      BY <1>6, <3>1, <3>2
    <3>4. trail = SubSeq(v, 1, k)
      <4>1. PICK u, x : u = SubSeq(v, 1, k) /\ x = SubSeq(w, i, j)
        OBVIOUS
      <4>2. u \in Seq(Node) /\ Len(u) = k /\ \A m \in 1 .. k : u[m] = v[m]
        BY <3>1, <3>3, <4>1
      <4>3. x \in Seq(Node) /\ Len(x) = k /\ \A m \in 1 .. k : x[m] = w[i + m - 1]
        BY <1>6, <3>2, <4>1
      <4>4. \A m \in 1 .. k : u[m] = x[m]
        BY <1>6, <3>1, <3>2, <4>2, <4>3
      <4>5. u = x
        BY <4>2, <4>3, <4>4
      <4> QED BY <1>8, <4>1, <4>5
    <3>5. \A m \in 1 .. k : holds[v[m]] = "kept"
      <4>1. ASSUME NEW m \in 1 .. k PROVE holds[v[m]] = "kept"
        <5>1. i + m - 1 \in 1 .. j /\ v[m] = w[i + m - 1]
          BY <1>6, <3>1, <3>2
        <5> QED BY <1>8, <5>1
      <4> QED BY <4>1
    <3>6. 1 \in 1 .. Len(v)
      BY <3>1, <3>3
    <3>7. \E a \in 1 .. Len(v) : \E b \in a .. Len(v) :
             /\ trail' = SubSeq(v, a, b)
             /\ \A m \in 1 .. b : holds'[v[m]] = "kept"
      BY <1>3, <3>3, <3>4, <3>5, <3>6
    <3> QED BY <2>4, <3>7 DEF Covers
  <2>7. OnWay(l)'
    BY <1>2, <1>3 DEF OnWay, Resting, Working, InPlanner
  <2> QED BY <1>2, <2>5, <2>6, <2>7, AgreedAgain
<1> QED BY <1>10, <1>11

\* The rest of the status handler trims the window and the route last sent to the way, and
\* renews its holds.
LEMMA StatusAgreed ==
  ASSUME TypeInv, Turns, Agreed, NEW t \in Thread, Active(t),
         \/ Snapshot(t) \/ Advance(t) \/ DecideIdle(t) \/ DecideTrim(t) \/ DecideKeep(t)
         \/ DecideReset(t) \/ ReadSent(t) \/ WriteSent(t) \/ Refresh(t) \/ Renew(t)
  PROVE  Agreed'
<1>1. PICK self : self = thread[t]
  OBVIOUS
<1>2. /\ self \in LocalType /\ self.rt \in RuntimeType /\ LocalOK(self) /\ OnWay(self)
      /\ self.sent \in Seq(Node) /\ self.route \in Seq(Node)
      /\ rt \in RuntimeType /\ rt.reserved \in Seq(Node) /\ lastSent \in Seq(Node)
      /\ holds \in [Node -> {"none", "expires", "kept"}]
      /\ Fits(rt.reserved) /\ Covers(Way)
  BY <1>1, AgreedNow
<1>3. /\ Way \in Seq(Node) /\ IsInjective(Way) /\ Way # <<>> /\ Way[1] = seen /\ seen \in Node
  BY <1>2, WayFacts
<1>4. /\ self.pc \in InStatus /\ self.pc \notin Resting /\ UNCHANGED <<plan, seen, trail>>
      /\ rt'.reserved = rt.reserved
  BY <1>1, <1>2
     DEF Snapshot, Advance, DecideIdle, DecideTrim, DecideKeep, DecideReset, ReadSent, WriteSent,
         Refresh, Renew, InStatus, Resting, RuntimeType
<1>5. Fits(lastSent) /\ self.start = seen
  BY <1>1, <1>2, <1>4, LastNow DEF InStatus, Bare, OnWay
<1>6. Way' = Way /\ \A s : Fits(s)' <=> Fits(s)
  BY <1>4, SameWay
<1>7. ASSUME NEW l, Become(t, l), OnWay(l), lastSent' = lastSent, holds' = holds PROVE Agreed'
  BY <1>1, <1>4, <1>5, <1>7, Quiet
<1>8. ASSUME Snapshot(t) PROVE Agreed'
  <2>1. PICK l : /\ l = [self EXCEPT !.pc = IF self.pc = "snapshot" THEN "advance" ELSE "advance_idle",
                                     !.rt = [rt EXCEPT !.id = 0, !.targets = <<>>]]
                 /\ Become(t, l)
    BY <1>1, <1>8 DEF Snapshot
  <2>2. l.pc \in {"advance", "advance_idle"} /\ l.start = seen /\ l.rt.reserved = rt.reserved
    BY <1>2, <1>5, <2>1 DEF LocalType, RuntimeType
  <2>3. OnWay(l)
    BY <2>2 DEF OnWay, Resting, Working, InPlanner
  <2> QED BY <1>7, <1>8, <2>1, <2>3 DEF Snapshot
<1>9. ASSUME Advance(t) PROVE Agreed'
  <2>1. PICK l : /\ l = [self EXCEPT !.pc = IF self.pc = "advance" THEN "decide" ELSE "idle_release"]
                 /\ Become(t, l)
    BY <1>1, <1>9 DEF Advance, Goto
  <2>2. l.pc \in {"decide", "idle_release"} /\ l.start = seen /\ l.rt = self.rt
        /\ self.pc \in {"advance", "advance_idle"}
    BY <1>1, <1>2, <1>5, <1>9, <2>1 DEF LocalType, Advance
  <2>3. OnWay(l)
    BY <1>2, <2>2 DEF OnWay, Resting, Working, InPlanner
  <2> QED BY <1>7, <1>9, <2>1, <2>3 DEF Advance
<1>10. ASSUME DecideIdle(t) PROVE Agreed'
  <2>1. PICK l : l = [self EXCEPT !.pc = "idle_release"] /\ Become(t, l)
    BY <1>1, <1>10 DEF DecideIdle, Goto
  <2>2. l.pc = "idle_release" /\ l.start = seen
    BY <1>2, <1>5, <2>1 DEF LocalType
  <2>3. OnWay(l)
    BY <2>2 DEF OnWay, Resting, Working, InPlanner
  <2> QED BY <1>7, <1>10, <2>1, <2>3 DEF DecideIdle
<1>11. ASSUME DecideTrim(t) PROVE Agreed'
  <2>1. self.pc = "decide" /\ self.rt.reserved = rt.reserved /\ seen \in Range(rt.reserved)
    BY <1>1, <1>2, <1>5, <1>11 DEF DecideTrim, OnWay
  <2>2. rt.reserved # <<>> /\ IsInjective(rt.reserved) /\ From(rt.reserved, seen) = Way
    BY <1>2, <2>1 DEF Fits, Range
  <2>3. PICK l, passed :
          /\ passed = Range(SubSeq(rt.reserved, 1, Len(rt.reserved) - Len(Way)))
          /\ holds' = [n \in Node |-> IF n \in passed THEN "none" ELSE holds[n]]
          /\ l = [self EXCEPT !.pc = "store", !.rt.reserved = Way, !.rt.mismatch = NoNode]
          /\ Become(t, l)
    BY <1>1, <1>5, <1>11, <2>1, <2>2 DEF DecideTrim
  <2>4. ASSUME NEW n \in Range(Way) PROVE holds'[n] = holds[n]
    <3>1. n \notin passed
      BY <1>2, <2>1, <2>2, <2>3, <2>4, Before
    <3>2. n \in Node
      BY <1>3, <2>4 DEF Range
    <3> QED BY <2>3, <3>1, <3>2
  <2>5. Covers(Way)'
    BY <1>2, <1>3, <1>4, <1>6, <2>4, StillCovers
  <2>6. l.pc = "store" /\ l.start = seen /\ l.rt.reserved = Way
    BY <1>2, <1>5, <2>3 DEF LocalType, RuntimeType
  <2>7. Fits(Way)
    BY <1>2, WayFits
  <2>8. OnWay(l)'
    <3>1. Fits(l.rt.reserved)' /\ l.rt.reserved # <<>>
      BY <1>3, <1>6, <2>6, <2>7
    <3> QED BY <1>4, <2>6, <3>1 DEF OnWay, Resting, Working, InPlanner
  <2>9. Fits(rt.reserved)' /\ Fits(lastSent)'
    <3>1. lastSent' = lastSent
      BY <1>11 DEF DecideTrim
    <3> QED BY <1>2, <1>4, <1>5, <1>6, <3>1 DEF Fits
  <2> QED BY <2>3, <2>5, <2>8, <2>9, AgreedAgain
<1>12. ASSUME DecideKeep(t) \/ DecideReset(t) PROVE Agreed'
  <2>1. /\ self.pc = "decide" /\ self.rt.reserved = rt.reserved /\ seen \notin Range(rt.reserved)
        /\ UNCHANGED <<lastSent, holds>>
    BY <1>1, <1>2, <1>5, <1>12 DEF DecideKeep, DecideReset, OnWay
  <2>2. self.rt.reserved = <<>>
    BY <1>2, <2>1 DEF Fits
  <2>3. PICK l : l = [self EXCEPT !.pc = "refresh"] /\ Become(t, l)
    BY <1>1, <1>12, <2>2 DEF DecideKeep, DecideReset, Goto
  <2>4. l.pc = "refresh" /\ l.start = seen
    BY <1>2, <1>5, <2>3 DEF LocalType
  <2>5. OnWay(l)
    BY <2>4 DEF OnWay, Resting, Working, InPlanner
  <2> QED BY <1>7, <2>1, <2>3, <2>5
<1>13. ASSUME ReadSent(t) PROVE Agreed'
  <2>1. PICK l : /\ \/ l = [self EXCEPT !.pc = "write_sent", !.rt = NoRuntime, !.sent = lastSent]
                    \/ l = [self EXCEPT !.pc = "refresh"]
                 /\ Become(t, l)
    BY <1>1, <1>13 DEF ReadSent, Goto
  <2>2. /\ l.pc \in {"write_sent", "refresh"} /\ l.start = seen
        /\ l.pc = "write_sent" => l.sent = lastSent
    BY <1>2, <1>5, <2>1 DEF LocalType
  <2>3. OnWay(l)
    BY <2>2 DEF OnWay, Resting, Working, InPlanner
  <2> QED BY <1>7, <1>13, <2>1, <2>3 DEF ReadSent
<1>14. ASSUME WriteSent(t) PROVE Agreed'
  <2>1. /\ self.pc = "write_sent" /\ lastSent' = From(self.sent, seen)
        /\ UNCHANGED <<rt, holds>>
    BY <1>1, <1>5, <1>14 DEF WriteSent
  <2>2. self.sent = lastSent /\ seen \in Range(lastSent)
    BY <1>2, <1>5, <2>1 DEF OnWay, LocalOK
  <2>3. lastSent' = Way
    BY <1>5, <2>1, <2>2 DEF Fits, Range
  <2>4. Fits(Way)
    BY <1>2, WayFits
  <2>5. Fits(lastSent)'
    BY <1>6, <2>3, <2>4 DEF Fits
  <2>6. PICK l : l = [self EXCEPT !.pc = "refresh"] /\ Become(t, l)
    BY <1>1, <1>14 DEF WriteSent, Goto
  <2>7. l.pc = "refresh" /\ l.start = seen
    BY <1>2, <1>5, <2>6 DEF LocalType
  <2>8. OnWay(l)'
    BY <1>4, <2>7 DEF OnWay, Resting, Working, InPlanner
  <2>9. Fits(rt.reserved)' /\ Covers(Way)'
    BY <1>2, <1>4, <1>6, <2>1 DEF Fits, Covers
  <2> QED BY <2>5, <2>6, <2>8, <2>9, AgreedAgain
<1>15. ASSUME Refresh(t) PROVE Agreed'
  <2>1. PICK l : l.pc = "renew" /\ l.start = seen /\ l.sent = lastSent /\ Become(t, l)
    BY <1>1, <1>5, <1>15 DEF Refresh, Local
  <2>2. ASSUME NEW n \in Range(Way) PROVE n = seen \/ n \in Range(lastSent)
    <3>1. CASE lastSent = <<>>
      <4>1. Way = <<seen>>
        BY <1>5, <3>1 DEF Fits
      <4> QED BY <2>2, <4>1 DEF Range
    <3>2. CASE lastSent # <<>>
      BY <1>2, <1>5, <2>2, <3>2, FromFacts DEF Fits
    <3> QED BY <3>1, <3>2
  <2>3. OnWay(l)
    BY <2>1, <2>2 DEF OnWay, Resting, Working, InPlanner
  <2> QED BY <1>7, <1>15, <2>1, <2>3 DEF Refresh
<1>16. ASSUME Renew(t) PROVE Agreed'
  <2>1. PICK n, k : /\ n = self.route[1] /\ holds' = Reserve(n, k)
                    /\ k = IF n = seen \/ n \in Range(self.sent) THEN "kept" ELSE "expires"
                    /\ self.pc = "renew" /\ UNCHANGED <<rt, lastSent>>
    BY <1>1, <1>5, <1>16 DEF Renew
  <2>2. \A m \in Range(Way) : m = seen \/ m \in Range(self.sent)
    BY <1>2, <2>1 DEF OnWay
  <2>3. ASSUME NEW m \in Range(Way), holds[m] = "kept" PROVE holds'[m] = "kept"
    <3>1. m \in Node
      BY <1>3, <2>3 DEF Range
    <3> QED BY <1>2, <2>1, <2>2, <2>3, <3>1 DEF Reserve
  <2>4. Covers(Way)'
    BY <1>2, <1>3, <1>4, <1>6, <2>3, StillCovers
  <2>5. PICK l : /\ l = Local \/ l = [self EXCEPT !.route = Tail(@)]
                 /\ Become(t, l)
    BY <1>1, <1>16 DEF Renew, Finish
  <2>6. OnWay(l)'
    <3>1. CASE l = Local
      BY <3>1 DEF OnWay, Local, Resting, Working, InPlanner
    <3>2. CASE l = [self EXCEPT !.route = Tail(@)]
      <4>1. l.pc = "renew" /\ l.start = seen /\ l.sent = self.sent
        BY <1>2, <1>5, <2>1, <3>2 DEF LocalType
      <4> QED BY <1>4, <1>6, <2>2, <4>1 DEF OnWay, Resting, Working, InPlanner
    <3> QED BY <2>5, <3>1, <3>2
  <2>7. Fits(rt.reserved)' /\ Fits(lastSent)'
    BY <1>2, <1>5, <1>6, <2>1 DEF Fits
  <2> QED BY <2>4, <2>5, <2>6, <2>7, AgreedAgain
<1> QED BY <1>8, <1>9, <1>10, <1>11, <1>12, <1>13, <1>14, <1>15, <1>16

-----------------------------------------------------------------------------
(* The trail: requests.                                                     *)

\* Sequences with the same nodes are the same.
LEMMA SameNodes ==
  ASSUME NEW s \in Seq(Node), NEW u \in Seq(Node), Len(s) = Len(u), \A i \in 1 .. Len(s) : s[i] = u[i]
  PROVE  s = u
OBVIOUS

\* A sequence begins with another if it has the same nodes first.
LEMMA PrefixIs ==
  ASSUME NEW s \in Seq(Node), NEW u \in Seq(Node)
  PROVE  IsPrefix(s, u) <=> Len(s) <= Len(u) /\ \A i \in 1 .. Len(s) : s[i] = u[i]
<1>1. CASE Len(s) <= Len(u)
  <2>1. PICK a, b : a = SubSeq(s, 1, Len(s)) /\ b = SubSeq(u, 1, Len(s))
    OBVIOUS
  <2>2. /\ a \in Seq(Node) /\ Len(a) = Len(s) /\ \A i \in 1 .. Len(s) : a[i] = s[i]
        /\ b \in Seq(Node) /\ Len(b) = Len(s) /\ \A i \in 1 .. Len(s) : b[i] = u[i]
    BY <1>1, <2>1
  <2>3. a = b <=> \A i \in 1 .. Len(s) : a[i] = b[i]
    BY <2>2
  <2>4. a = b <=> \A i \in 1 .. Len(s) : s[i] = u[i]
    BY <2>2, <2>3
  <2>5. IsPrefix(s, u) <=> a = b
    BY <1>1, <2>1 DEF IsPrefix
  <2> QED BY <1>1, <2>4, <2>5
<1>2. CASE ~(Len(s) <= Len(u))
  BY <1>2 DEF IsPrefix
<1> QED BY <1>1, <1>2

\* Where a node comes once, there is one way to go on from it.
LEMMA FromSomeIs ==
  ASSUME NEW s \in Seq(Node), IsInjective(s), NEW n, NEW r \in FromSome(s, n)
  PROVE  n \in Range(s) /\ r = From(s, n)
<1>1. PICK i \in 1 .. Len(s) : s[i] = n /\ r = SubSeq(s, i, Len(s))
  BY DEF FromSome
<1>2. From(s, s[i]) = SubSeq(s, i, Len(s))
  BY FromAt
<1>3. n \in Range(s)
  BY <1>1 DEF Range
<1> QED BY <1>1, <1>2, <1>3

\* An answer is the way: anything else would not go on from the route last sent.
LEMMA TrailAgreed ==
  ASSUME TypeInv, NotShared, Turns, Agreed, NEW t \in Thread, Active(t),
         \/ TrailBegin(t) \/ Build(t) \/ Check(t) \/ ReserveTrail(t) \/ TrailFails(t)
         \/ Record(t) \/ Publish(t)
  PROVE  upset' \/ Agreed'
<1>1. PICK self, w : self = thread[t] /\ w = Way
  OBVIOUS
<1>2. /\ self \in LocalType /\ self.rt \in RuntimeType /\ LocalOK(self) /\ OnWay(self)
      /\ self.sent \in Seq(Node) /\ self.route \in Seq(Node) /\ self.got \in Nat
      /\ rt \in RuntimeType /\ rt.reserved \in Seq(Node) /\ lastSent \in Seq(Node)
      /\ holds \in [Node -> {"none", "expires", "kept"}]
      /\ Fits(rt.reserved) /\ Covers(w)
  BY <1>1, AgreedNow DEF LocalType
<1>3. /\ w \in Seq(Node) /\ IsInjective(w) /\ w # <<>> /\ Len(w) \in Nat \ {0} /\ w[1] = seen
      /\ seen \in Node
  BY <1>1, <1>2, WayFacts
<1>4. /\ self.pc \in InTrail \cup {"idle"} /\ UNCHANGED <<plan, seen, rt>>
  BY <1>1
     DEF TrailBegin, Begin, Build, Check, ReserveTrail, TrailFails, Record, Publish, InTrail
<1>5. Fits(lastSent) /\ (self.pc # "idle" => self.start = seen)
  BY <1>1, <1>2, <1>4, LastNow DEF InTrail, Bare, OnWay
<1>6. Way' = w /\ \A s : Fits(s)' <=> Fits(s)
  BY <1>1, <1>4, SameWay
<1>7. ASSUME NEW l, Become(t, l), OnWay(l), UNCHANGED <<lastSent, holds, trail>> PROVE Agreed'
  BY <1>1, <1>4, <1>5, <1>7, Quiet
<1>8. OnWay(Local)
  BY DEF OnWay, Local, Resting, Working, InPlanner
<1>9. ASSUME TrailBegin(t) PROVE Agreed'
  <2>1. PICK l : l = [Local EXCEPT !.pc = "build", !.start = seen] /\ Become(t, l)
    BY <1>9 DEF TrailBegin
  <2>2. l.pc = "build" /\ l.start = seen
    BY <2>1 DEF Local
  <2>3. OnWay(l)
    BY <2>2 DEF OnWay, Resting, Working, InPlanner
  <2> QED BY <1>7, <1>9, <2>1, <2>3 DEF TrailBegin
<1>10. ASSUME Build(t) PROVE upset' \/ Agreed'
  <2>1. CASE rt.reserved = <<>>
    BY <1>10, <2>1 DEF Build
  <2>2. CASE rt.reserved # <<>>
    <3>1. self.start = seen
      BY <1>1, <1>5, <1>10 DEF Build
    <3>2. PICK r, k, l : /\ r \in TrailRoutes(seen) /\ k \in 1 .. Len(r)
                         /\ l = [self EXCEPT !.pc = "check", !.route = SubSeq(r, 1, k)]
                         /\ Become(t, l)
      BY <1>1, <1>10, <3>1 DEF Build
    <3>3. seen \in Range(rt.reserved) /\ From(rt.reserved, seen) = w
      BY <1>1, <1>2, <2>2 DEF Fits
    <3>4. r \in FromSome(w, seen)
      BY <2>2, <3>2, <3>3 DEF TrailRoutes
    <3>5. r = w
      <4>1. r = From(w, seen)
        BY <1>3, <3>4, FromSomeIs
      <4>2. From(w, seen) = w
        BY <1>1, <1>2, <1>3, WayFits DEF Fits
      <4> QED BY <4>1, <4>2
    <3>6. SubSeq(w, 1, k) # <<>> /\ IsPrefix(SubSeq(w, 1, k), w)
      <4>1. PICK u : u = SubSeq(w, 1, k)
        OBVIOUS
      <4>2. k \in 1 .. Len(w)
        BY <3>2, <3>5
      <4>3. u \in Seq(Node) /\ Len(u) = k /\ \A i \in 1 .. k : u[i] = w[i]
        BY <1>3, <4>1, <4>2
      <4>4. u # <<>>
        BY <4>2, <4>3
      <4>5. IsPrefix(u, w)
        BY <1>3, <4>2, <4>3, PrefixIs
      <4> QED BY <4>1, <4>4, <4>5
    <3>7. l.pc = "check" /\ l.start = seen /\ l.route = SubSeq(w, 1, k)
      BY <1>2, <3>1, <3>2, <3>5 DEF LocalType
    <3>8. OnWay(l)
      BY <1>1, <3>6, <3>7 DEF OnWay, Resting, Working, InPlanner
    <3> QED BY <1>7, <1>10, <3>2, <3>8 DEF Build
  <2> QED BY <2>1, <2>2
<1>11. ASSUME Check(t) PROVE Agreed'
  <2>1. /\ self.pc = "check" /\ self.route # <<>> /\ IsPrefix(self.route, w) /\ self.start = seen
        /\ UNCHANGED <<lastSent, holds, trail>> /\ self.got = 0
    BY <1>1, <1>2, <1>5, <1>11 DEF Check, OnWay, LocalOK, Counting
  <2>2. Len(self.route) <= Len(w) /\ \A i \in 1 .. Len(self.route) : self.route[i] = w[i]
    BY <1>2, <1>3, <2>1, PrefixIs
  <2>3. CASE Become(t, Local)
    BY <1>7, <1>8, <2>1, <2>3
  <2>4. ASSUME lastSent = <<>> PROVE Become(t, Local)
    <3>1. w = <<seen>>
      BY <1>1, <1>5, <2>4 DEF Fits
    <3>2. Len(w) = 1
      BY <3>1
    <3>3. Len(self.route) < 2
      BY <1>2, <2>2, <3>2
    <3> QED BY <1>1, <1>11, <2>4, <3>3 DEF Check, Finish, FromSome
  <2>5. ASSUME lastSent # <<>>, ~Become(t, Local)
        PROVE  \E remaining \in FromSome(lastSent, seen) :
                 Become(t, [self EXCEPT !.pc = "reserve_trail", !.sent = remaining,
                              !.route = IF IsPrefix(remaining, self.route) THEN self.route
                                        ELSE remaining])
    <3>1. seen \in Range(lastSent)
      BY <1>5, <2>5 DEF Fits
    <3> QED BY <1>1, <1>11, <2>1, <2>5, <3>1 DEF Check, Finish
  <2>6. ASSUME lastSent # <<>>, ~Become(t, Local) PROVE Agreed'
    <3>1. PICK remaining, l :
            /\ remaining \in FromSome(lastSent, seen)
            /\ l = [self EXCEPT !.pc = "reserve_trail", !.sent = remaining,
                                !.route = IF IsPrefix(remaining, self.route) THEN self.route
                                          ELSE remaining]
            /\ Become(t, l)
      BY <2>5, <2>6
    <3>2. remaining = w
      BY <1>1, <1>2, <1>5, <2>6, <3>1, FromSomeIs DEF Fits
    <3>3. IsPrefix(w, self.route) => self.route = w
      <4>1. ASSUME IsPrefix(w, self.route) PROVE self.route = w
        <5>1. Len(self.route) = Len(w)
          BY <1>2, <1>3, <2>2, <4>1, PrefixIs
        <5> QED BY <1>2, <1>3, <2>2, <5>1, SameNodes
      <4> QED BY <4>1
    <3>4. l.pc = "reserve_trail" /\ l.start = seen /\ l.sent = w /\ l.route = w /\ l.got = 0
      BY <1>2, <2>1, <3>1, <3>2, <3>3 DEF LocalType
    <3>5. \A m \in 1 .. l.got : FALSE
      BY <3>4
    <3>6. OnWay(l)
      BY <1>1, <3>4, <3>5 DEF OnWay, Resting, Working, InPlanner
    <3> QED BY <1>7, <2>1, <3>1, <3>6
  <2> QED BY <2>3, <2>4, <2>6
<1>12. ASSUME ReserveTrail(t) PROVE Agreed'
  <2>1. /\ self.pc = "reserve_trail" /\ self.start = seen /\ self.sent = w /\ self.route = w
        /\ \A m \in 1 .. self.got : holds[w[m]] = "kept"
        /\ UNCHANGED <<lastSent, trail>> /\ self.got < Len(w)
    BY <1>1, <1>2, <1>5, <1>12 DEF ReserveTrail, OnWay
  <2>2. PICK n : n = w[self.got + 1] /\ n \in Node
    BY <1>2, <1>3, <2>1
  <2>3. holds' = [holds EXCEPT ![n] = "kept"]
    BY <1>1, <1>12, <2>1, <2>2 DEF ReserveTrail, Reserve
  <2>4. \A m \in Node : holds[m] = "kept" => holds'[m] = "kept"
    BY <1>2, <2>3
  <2>5. Covers(Way)'
    BY <1>2, <1>3, <1>6, <2>1, <2>4, StillCovers DEF Range
  <2>6. PICK l : l = [self EXCEPT !.got = self.got + 1] /\ Become(t, l)
    BY <1>1, <1>12 DEF ReserveTrail
  <2>7. l.pc = "reserve_trail" /\ l.start = seen /\ l.sent = w /\ l.route = w /\ l.got = self.got + 1
    BY <1>2, <2>1, <2>6 DEF LocalType
  <2>8. ASSUME NEW m \in 1 .. l.got PROVE holds'[w[m]] = "kept"
    <3>1. CASE m \in 1 .. self.got
      <4>1. w[m] \in Node
        BY <1>2, <1>3, <2>1, <3>1
      <4> QED BY <2>1, <2>4, <3>1, <4>1
    <3>2. CASE m = self.got + 1
      BY <1>2, <2>2, <2>3, <3>2
    <3> QED BY <1>2, <2>7, <2>8, <3>1, <3>2
  <2>9. OnWay(l)'
    BY <1>4, <1>6, <2>7, <2>8 DEF OnWay, Resting, Working, InPlanner
  <2>10. Fits(rt.reserved)' /\ Fits(lastSent)'
    BY <1>2, <1>4, <1>5, <1>6, <2>1 DEF Fits
  <2> QED BY <2>5, <2>6, <2>9, <2>10, AgreedAgain
<1>13. ASSUME TrailFails(t) PROVE Agreed'
  BY <1>7, <1>8, <1>13 DEF TrailFails, Finish
<1>14. ASSUME Record(t) PROVE Agreed'
  <2>1. /\ self.pc = "reserve_trail" /\ self.start = seen /\ self.sent = w /\ self.route = w
        /\ \A m \in 1 .. self.got : holds[w[m]] = "kept"
        /\ UNCHANGED <<holds, trail>> /\ self.got <= Len(w)
    BY <1>1, <1>2, <1>5, <1>14 DEF Record, OnWay, LocalOK, Counting
  <2>2. self.got = Len(w)
    BY <1>1, <1>2, <1>3, <1>14, <2>1 DEF Record
  <2>3. lastSent' = w
    <3>1. lastSent' = SubSeq(w, 1, Len(w))
      BY <1>1, <1>3, <1>14, <2>1, <2>2 DEF Record
    <3>2. SubSeq(w, 1, Len(w)) = w
      BY <1>3
    <3> QED BY <3>1, <3>2
  <2>4. Fits(lastSent)' /\ Fits(rt.reserved)' /\ Covers(Way)'
    <3>1. Fits(w)
      BY <1>1, <1>2, WayFits
    <3> QED BY <1>2, <1>4, <1>6, <2>1, <2>3, <3>1 DEF Fits, Covers
  <2>5. PICK l : l = [self EXCEPT !.pc = "publish"] /\ Become(t, l)
    BY <1>1, <1>14 DEF Record, Goto
  <2>6. l.pc = "publish" /\ l.start = seen /\ l.route = w
    BY <1>2, <2>1, <2>5 DEF LocalType
  <2>7. \A n \in Range(w) : holds[n] = "kept"
    BY <1>3, <2>1, <2>2 DEF Range
  <2>8. OnWay(l)'
    BY <1>4, <1>6, <2>1, <2>6, <2>7 DEF OnWay, Resting, Working, InPlanner
  <2> QED BY <2>4, <2>5, <2>8, AgreedAgain
<1>15. ASSUME Publish(t) PROVE Agreed'
  <2>1. /\ self.pc = "publish" /\ self.route = w /\ (\A n \in Range(w) : holds[n] = "kept")
        /\ UNCHANGED <<holds, lastSent>>
        /\ trail' = IF trail[1] \in Range(w) THEN From(w, trail[1]) ELSE trail
    BY <1>1, <1>2, <1>15 DEF Publish, OnWay
  <2>2. PICK i \in 1 .. Len(w) : \E j \in i .. Len(w) : trail = SubSeq(w, i, j)
    BY <1>2 DEF Covers
  <2>3. trail[1] = w[i]
    BY <1>3, <2>2
  <2>4. trail' = SubSeq(w, i, Len(w))
    BY <1>3, <2>1, <2>3, FromAt DEF Range
  <2>5. Covers(Way)'
    <3>1. \A m \in 1 .. Len(w) : holds'[w[m]] = "kept"
      BY <1>3, <2>1 DEF Range
    <3>2. Len(w) \in i .. Len(w)
      BY <1>3
    <3> QED BY <1>6, <2>4, <3>1, <3>2 DEF Covers
  <2>6. Become(t, Local) /\ OnWay(Local)'
    BY <1>15 DEF Publish, Finish, OnWay, Local, Resting, Working, InPlanner
  <2>7. Fits(rt.reserved)' /\ Fits(lastSent)'
    BY <1>2, <1>4, <1>5, <1>6, <2>1 DEF Fits
  <2> QED BY <2>5, <2>6, <2>7, AgreedAgain
<1> QED BY <1>9, <1>10, <1>11, <1>12, <1>13, <1>14, <1>15

-----------------------------------------------------------------------------
(* The trail: the planner.                                                  *)

\* What the planner comes up with begins with the window to keep.
LEMMA RoutesBegin ==
  ASSUME NEW w \in Seq(Node), w # <<>>, NEW goal, NEW r \in Routes(w, goal)
  PROVE  Len(w) <= Len(r) /\ \A i \in 1 .. Len(w) : r[i] = w[i]
<1>1. Len(w) \in Nat \ {0}
  OBVIOUS
<1>2. CASE Len(w) = 1
  <2>1. r \in PathsTo(w[1], goal)
    BY <1>2 DEF Routes
  <2>2. r \in Seq(Node) /\ r # <<>>
    BY <2>1, PathType
  <2>3. r[1] = w[1] /\ Len(r) \in Nat \ {0}
    BY <2>1, <2>2 DEF PathsTo
  <2> QED BY <1>2, <2>3
<1>3. CASE Len(w) # 1
  <2>1. r = w \/ \E p \in PathsTo(Last(w), goal) : r = w \o Tail(p)
    BY <1>3 DEF Routes
  <2>2. ASSUME NEW p \in PathsTo(Last(w), goal), r = w \o Tail(p)
        PROVE  Len(w) <= Len(r) /\ \A i \in 1 .. Len(w) : r[i] = w[i]
    <3>1. PICK s : s = Tail(p) /\ s \in Seq(Node)
      BY PathType
    <3>2. r = w \o s
      BY <2>2, <3>1
    <3> QED BY <3>1, <3>2
  <2> QED BY <1>1, <2>1, <2>2
<1> QED BY <1>2, <1>3

\* A window covers the trail if it begins as one that does, up to where the trail ends.
LEMMA CoversToo ==
  ASSUME NEW w \in Seq(Node), NEW v \in Seq(Node),
         NEW i \in 1 .. Len(w), NEW j \in i .. Len(w),
         trail = SubSeq(w, i, j), \A m \in 1 .. j : holds[w[m]] = "kept",
         j <= Len(v), \A m \in 1 .. j : v[m] = w[m]
  PROVE  Covers(v)
<1>1. PICK a, b : a = SubSeq(w, i, j) /\ b = SubSeq(v, i, j)
  OBVIOUS
<1>2. /\ a \in Seq(Node) /\ Len(a) = j - i + 1 /\ \A m \in 1 .. j - i + 1 : a[m] = w[i + m - 1]
      /\ b \in Seq(Node) /\ Len(b) = j - i + 1 /\ \A m \in 1 .. j - i + 1 : b[m] = v[i + m - 1]
  BY <1>1
<1>3. \A m \in 1 .. j - i + 1 : i + m - 1 \in 1 .. j
  OBVIOUS
<1>4. \A m \in 1 .. Len(a) : a[m] = b[m]
  BY <1>2, <1>3
<1>5. a = b
  BY <1>2, <1>4, SameNodes
<1>6. i \in 1 .. Len(v) /\ j \in i .. Len(v)
  OBVIOUS
<1>7. \A m \in 1 .. j : holds[v[m]] = "kept"
  OBVIOUS
<1> QED BY <1>1, <1>5, <1>6, <1>7 DEF Covers

\* Two windows that cover the trail and go the same way agree up to where the trail ends.
LEMMA CoverAlike ==
  ASSUME NEW w \in Seq(Node), IsInjective(w), Covers(w),
         NEW v \in Seq(Node), IsInjective(v), Covers(v),
         IsPrefix(v, w) \/ IsPrefix(w, v)
  PROVE  \E i \in 1 .. Len(w) : \E j \in i .. Len(w) :
           /\ trail = SubSeq(w, i, j)
           /\ \A m \in 1 .. j : holds[w[m]] = "kept"
           /\ j <= Len(v) /\ \A m \in 1 .. j : v[m] = w[m]
<1>1. PICK i \in 1 .. Len(w) : \E j \in i .. Len(w) :
        /\ trail = SubSeq(w, i, j)
        /\ \A m \in 1 .. j : holds[w[m]] = "kept"
  BY DEF Covers
<1>2. PICK j \in i .. Len(w) :
        /\ trail = SubSeq(w, i, j)
        /\ \A m \in 1 .. j : holds[w[m]] = "kept"
  BY <1>1
<1>3. PICK k \in 1 .. Len(v) : \E n \in k .. Len(v) : trail = SubSeq(v, k, n)
  BY DEF Covers
<1>4. PICK n \in k .. Len(v) : trail = SubSeq(v, k, n)
  BY <1>3
<1>5. trail[1] = w[i] /\ Len(trail) = j - i + 1
  BY <1>2
<1>6. trail[1] = v[k] /\ Len(trail) = n - k + 1
  BY <1>4
<1>7. i = k
  <2>1. CASE IsPrefix(v, w)
    <3>1. v[k] = w[k] /\ k \in 1 .. Len(w)
      BY <2>1, PrefixIs
    <3>2. w[i] = w[k] /\ i \in DOMAIN w /\ k \in DOMAIN w
      BY <1>5, <1>6, <3>1
    <3> QED BY <3>2 DEF IsInjective
  <2>2. CASE IsPrefix(w, v)
    <3>1. w[i] = v[i] /\ i \in 1 .. Len(v)
      BY <2>2, PrefixIs
    <3>2. v[i] = v[k]
      BY <1>5, <1>6, <3>1, Zenon
    <3>3. i \in DOMAIN v /\ k \in DOMAIN v
      BY <3>1
    <3> QED BY <3>2, <3>3 DEF IsInjective
  <2> QED BY <2>1, <2>2
<1>8. j = n
  BY <1>5, <1>6, <1>7
<1>9. \A m \in 1 .. j : v[m] = w[m]
  <2>1. \A m \in 1 .. j : m \in 1 .. Len(v) /\ m \in 1 .. Len(w)
    BY <1>8
  <2> QED BY <2>1, PrefixIs
<1> QED BY <1>2, <1>8, <1>9

\* The planner keeps to the way: its window is the way, what it reserves goes on from it, and
\* what is refused lies beyond the trail.
LEMMA PlannerAgreed ==
  ASSUME PlansInv, NotShared, Turns, Agreed, NEW t \in Thread, Active(t), PlannerStep(t)
  PROVE  upset' \/ Agreed'
<1> USE DEF PlansInv
<1>1. PICK self, w : self = thread[t] /\ w = Way
  OBVIOUS
<1>2. /\ self \in LocalType /\ self.rt \in RuntimeType /\ LocalOK(self) /\ OnWay(self)
      /\ self.sent \in Seq(Node) /\ self.route \in Seq(Node) /\ self.rt.reserved \in Seq(Node)
      /\ self.got \in Nat
      /\ rt \in RuntimeType /\ rt.reserved \in Seq(Node) /\ lastSent \in Seq(Node)
      /\ holds \in [Node -> {"none", "expires", "kept"}]
      /\ Fits(rt.reserved) /\ Covers(w)
  BY <1>1, AgreedNow DEF LocalType
<1>3. /\ w \in Seq(Node) /\ IsInjective(w) /\ w # <<>> /\ Len(w) \in Nat \ {0} /\ w[1] = seen
      /\ seen \in Node
  BY <1>1, <1>2, WayFacts
<1>4. Fits(w) /\ From(w, seen) = w
  BY <1>1, <1>2, <1>3, WayFits DEF Fits
<1>5. \/ Fits(lastSent)
      \/ self.pc = "commit"
      \/ self.pc \in Bare /\ lastSent = <<>>
  BY <1>1, LastNow
<1>6. ASSUME NEW l, Become(t, l), OnWay(l), UNCHANGED <<plan, rt, lastSent, holds, seen, trail>>,
             Fits(lastSent) \/ (l.pc \in Bare /\ lastSent = <<>>)
      PROVE  Agreed'
  BY <1>1, <1>6, Quiet
<1>7. OnWay(Local)
  BY DEF OnWay, Local, Resting, Working, InPlanner
<1>8. ASSUME ReplanBegin(t) PROVE Agreed'
  <2>1. PICK l : l = [Local EXCEPT !.pc = "locate", !.id = plan.id] /\ Become(t, l)
    BY <1>8 DEF ReplanBegin
  <2>2. l.pc = "locate" /\ l.id = plan.id
    BY <2>1 DEF Local
  <2>3. OnWay(l)
    BY <2>2 DEF OnWay, Resting
  <2>4. Fits(lastSent)
    BY <1>1, <1>5, <1>8 DEF ReplanBegin, Begin, Bare
  <2> QED BY <1>6, <1>8, <2>1, <2>3, <2>4 DEF ReplanBegin
<1>9. ASSUME Locate(t) PROVE Agreed'
  <2>1. PICK l : l = [self EXCEPT !.pc = "copy", !.start = seen] /\ Become(t, l) /\ self.pc = "locate"
    BY <1>1, <1>9 DEF Locate
  <2>2. l.pc = "copy" /\ l.start = seen /\ l.id = plan.id
    BY <1>2, <2>1 DEF LocalType, OnWay, Working
  <2>3. OnWay(l)
    BY <2>2 DEF OnWay, Resting
  <2>4. Fits(lastSent)
    BY <1>5, <2>1 DEF Bare
  <2> QED BY <1>6, <1>9, <2>1, <2>3, <2>4 DEF Locate
<1>10. ASSUME Copy(t) PROVE Agreed'
  <2>1. PICK l : /\ \/ l = [self EXCEPT !.pc = "align", !.rt = rt]
                    \/ l = [self EXCEPT !.pc = "align_super", !.rt = rt]
                 /\ Become(t, l) /\ self.pc = "copy"
    BY <1>1, <1>10 DEF Copy
  <2>2. /\ l.pc \in {"align", "align_super"} /\ l.start = seen /\ l.id = plan.id
        /\ l.rt.reserved = rt.reserved
    BY <1>2, <2>1 DEF LocalType, OnWay, Working
  <2>3. OnWay(l)
    BY <2>2 DEF OnWay, Resting
  <2>4. Fits(lastSent) \/ (l.pc \in Bare /\ lastSent = <<>>)
    BY <1>5, <2>1, <2>2 DEF Bare
  <2> QED BY <1>6, <1>10, <2>1, <2>3, <2>4 DEF Copy
<1>11. ASSUME Align(t) PROVE Agreed'
  <2>1. self.pc \in {"align", "align_super"} /\ self.start = seen /\ self.rt.reserved = rt.reserved
        /\ self.id = plan.id
    BY <1>1, <1>2, <1>11 DEF Align, OnWay, Working, InPlanner
  <2>2. PICK window : window = IF lastSent # <<>> /\ self.pc = "align" THEN lastSent ELSE rt.reserved
    OBVIOUS
  <2>3. Fits(window)
    BY <1>2, <1>5, <2>1, <2>2
  <2>4. PICK l : /\ l = [self EXCEPT !.pc = IF self.pc = "align" THEN "plan" ELSE "super",
                                     !.rt.reserved = w,
                                     !.rt.targets = Reached(self.rt.targets, self.start)]
                 /\ Become(t, l)
    <3>1. CASE window = <<>>
      <4>1. w = <<seen>> /\ seen \notin Range(window)
        BY <1>1, <2>3, <3>1 DEF Fits, Range
      <4> QED BY <1>1, <1>11, <2>1, <2>2, <3>1, <4>1 DEF Align
    <3>2. CASE window # <<>>
      <4>1. seen \in Range(window) /\ From(window, seen) = w
        BY <1>1, <2>3, <3>2 DEF Fits
      <4> QED BY <1>1, <1>11, <2>1, <2>2, <3>2, <4>1 DEF Align
    <3> QED BY <3>1, <3>2
  <2>5. l.pc \in {"plan", "super"} /\ l.start = seen /\ l.id = plan.id /\ l.rt.reserved = w
    BY <1>2, <2>1, <2>4 DEF LocalType, RuntimeType
  <2>6. OnWay(l)
    BY <1>1, <2>5 DEF OnWay, Resting
  <2>7. Fits(lastSent) \/ (l.pc \in Bare /\ lastSent = <<>>)
    BY <1>5, <2>1, <2>5 DEF Bare
  <2> QED BY <1>6, <1>11, <2>4, <2>6, <2>7 DEF Align
<1>12. ASSUME PlanNothing(t) \/ PlanFails(t) PROVE upset' \/ Agreed'
  <2>1. self.pc = "plan" /\ self.start = seen /\ self.rt.reserved = w /\ self.id = plan.id
    BY <1>1, <1>2, <1>12 DEF PlanNothing, PlanFails, OnWay, Working, InPlanner
  <2>2. PICK l : /\ l = [self EXCEPT !.pc = IF PlanNothing(t) THEN "rest" ELSE "rest_write"]
                 /\ Become(t, l)
    BY <1>1, <1>12 DEF PlanNothing, PlanFails, Goto
  <2>3. /\ l.pc = IF PlanNothing(t) THEN "rest" ELSE "rest_write"
        /\ l.start = seen /\ l.id = plan.id /\ l.rt.reserved = w
    BY <1>2, <2>1, <2>2 DEF LocalType
  <2>4. OnWay(l)
    BY <1>1, <2>3 DEF OnWay, Resting
  <2>5. CASE PlanNothing(t)
    <3>1. Fits(lastSent) \/ (l.pc \in Bare /\ lastSent = <<>>)
      BY <1>5, <2>1, <2>3, <2>5 DEF Bare
    <3> QED BY <1>6, <2>2, <2>4, <2>5, <3>1 DEF PlanNothing
  <2>6. CASE PlanFails(t) /\ lastSent # <<>>
    <3>1. Fits(lastSent)
      BY <1>5, <2>1, <2>6
    <3> QED BY <1>6, <2>2, <2>4, <2>6, <3>1 DEF PlanFails
  <2>7. CASE PlanFails(t) /\ lastSent = <<>>
    BY <2>7 DEF PlanFails
  <2> QED BY <1>12, <2>5, <2>6, <2>7
<1>13. ASSUME PlanRoute(t) PROVE Agreed'
  <2>1. self.pc = "plan" /\ self.start = seen /\ self.rt.reserved = w /\ self.id = plan.id
    BY <1>1, <1>2, <1>13 DEF PlanRoute, OnWay, Working, InPlanner
  <2>2. PICK limit : limit = IF Len(w) > Budget THEN Len(w) ELSE Budget
    OBVIOUS
  <2>3. limit \in Nat /\ Len(w) <= limit
    BY <1>3, <2>2, WindowAssumption
  <2>4. PICK r, l : /\ r \in Routes(w, self.rt.targets[1])
                    /\ l = [self EXCEPT !.pc = "reserve", !.sent = w,
                              !.route = SubSeq(r, 1, IF Len(r) < limit THEN Len(r) ELSE limit)]
                    /\ Become(t, l)
    BY <1>1, <1>13, <2>1, <2>2 DEF PlanRoute
  <2>5. PICK k, u : k = (IF Len(r) < limit THEN Len(r) ELSE limit) /\ u = SubSeq(r, 1, k)
    OBVIOUS
  <2>6. r \in Seq(Node) /\ Len(w) <= Len(r) /\ \A i \in 1 .. Len(w) : r[i] = w[i]
    BY <1>3, <2>4, RoutesBegin, RoutesType
  <2>7. u \in Seq(Node) /\ Len(u) = k /\ Len(w) <= k /\ \A i \in 1 .. k : u[i] = r[i]
    BY <2>3, <2>5, <2>6
  <2>8. IsPrefix(w, u)
    BY <1>3, <2>6, <2>7, PrefixIs
  <2>9. l.pc = "reserve" /\ l.start = seen /\ l.id = plan.id /\ l.sent = w /\ l.route = u
    BY <1>2, <2>1, <2>4, <2>5 DEF LocalType
  <2>10. OnWay(l)
    BY <1>1, <2>8, <2>9 DEF OnWay, Resting
  <2>11. Fits(lastSent) \/ (l.pc \in Bare /\ lastSent = <<>>)
    BY <1>5, <2>1, <2>9 DEF Bare
  <2> QED BY <1>6, <1>13, <2>4, <2>10, <2>11 DEF PlanRoute
<1> DEFINE Carries(l) == l.start = seen /\ l.id = plan.id /\ l.sent = w /\ IsPrefix(w, l.route)
<1>14. self.pc \in {"reserve", "retry"} => Carries(self)
  BY <1>1, <1>2 DEF OnWay, Working, InPlanner
<1>15. ASSUME ReserveNode(t) PROVE Agreed'
  <2>1. /\ self.pc \in {"reserve", "retry"} /\ self.got < Len(self.route)
        /\ UNCHANGED <<plan, rt, lastSent, seen, trail>>
    BY <1>1, <1>15 DEF ReserveNode
  <2>2. PICK n, k : /\ n = self.route[self.got + 1] /\ holds' = Reserve(n, k)
                    /\ k = IF n = seen \/ n \in Range(w) THEN "kept" ELSE "expires"
    BY <1>1, <1>14, <1>15, <2>1 DEF ReserveNode
  <2>3. Way' = w /\ \A s : Fits(s)' <=> Fits(s)
    BY <1>1, <2>1, SameWay
  <2>4. ASSUME NEW m \in Range(w), holds[m] = "kept" PROVE holds'[m] = "kept"
    <3>1. m \in Node
      BY <1>3, <2>4 DEF Range
    <3> QED BY <1>2, <2>2, <2>4, <3>1 DEF Reserve
  <2>5. Covers(Way)'
    BY <1>2, <1>3, <2>1, <2>3, <2>4, StillCovers
  <2>6. PICK l : l = [self EXCEPT !.got = self.got + 1] /\ Become(t, l)
    BY <1>1, <1>15 DEF ReserveNode
  <2>7. l.pc = self.pc /\ Carries(l)
    BY <1>2, <1>14, <2>1, <2>6 DEF LocalType
  <2>8. OnWay(l)'
    BY <2>1, <2>3, <2>7 DEF OnWay, Resting
  <2>9. Fits(rt.reserved)'
    BY <1>2, <2>1, <2>3 DEF Fits
  <2>10. Fits(lastSent)' \/ (l.pc \in Bare /\ lastSent' = <<>>)
    BY <1>5, <2>1, <2>3, <2>7 DEF Bare, Fits
  <2> QED BY <2>5, <2>6, <2>8, <2>9, <2>10, AgreedAgain
<1>16. ASSUME KeepOld(t) PROVE Agreed'
  <2>1. self.pc = "reserve" /\ Carries(self)
    BY <1>1, <1>14, <1>16 DEF KeepOld
  <2>2. PICK l : l = [self EXCEPT !.pc = "retry", !.route = self.sent, !.got = 0] /\ Become(t, l)
    BY <1>1, <1>16 DEF KeepOld
  <2>3. l.pc = "retry" /\ l.start = seen /\ l.id = plan.id /\ l.sent = w /\ l.route = w
    BY <1>2, <2>1, <2>2 DEF LocalType
  <2>4. IsPrefix(w, w)
    BY <1>3, PrefixIs
  <2>5. OnWay(l)
    BY <1>1, <2>3, <2>4 DEF OnWay, Resting
  <2>6. Fits(lastSent) \/ (l.pc \in Bare /\ lastSent = <<>>)
    BY <1>5, <2>1, <2>3 DEF Bare
  <2> QED BY <1>6, <1>16, <2>2, <2>5, <2>6 DEF KeepOld
<1>17. ASSUME Reserved(t) PROVE upset' \/ Agreed'
  <2>1. /\ self.pc \in {"reserve", "retry"} /\ Carries(self) /\ self.got <= Len(self.route)
        /\ self.got < Len(self.route) => self.route[self.got + 1] \in blocked
        /\ UNCHANGED <<plan, rt, lastSent, holds, seen, trail>>
    BY <1>1, <1>2, <1>14, <1>17 DEF Reserved, Grants, LocalOK, Counting
  <2>2. Len(w) <= Len(self.route) /\ \A m \in 1 .. Len(w) : self.route[m] = w[m]
    BY <1>2, <1>3, <2>1, PrefixIs
  <2>3. PICK i \in 1 .. Len(w) : \E j \in i .. Len(w) :
          /\ trail = SubSeq(w, i, j)
          /\ \A m \in 1 .. j : holds[w[m]] = "kept"
    BY <1>2 DEF Covers
  <2>4. PICK j \in i .. Len(w) :
          /\ trail = SubSeq(w, i, j)
          /\ \A m \in 1 .. j : holds[w[m]] = "kept"
    BY <2>3
  <2>5. j <= self.got
    <3>1. SUFFICES ASSUME self.got < j PROVE FALSE
      BY <1>2
    <3>2. self.got + 1 \in 1 .. j /\ self.got + 1 \in 1 .. Len(w) /\ self.got < Len(self.route)
      BY <1>2, <1>3, <2>2, <3>1
    <3>3. self.route[self.got + 1] \in blocked /\ self.route[self.got + 1] = w[self.got + 1]
      BY <2>1, <2>2, <3>2
    <3>4. holds[w[self.got + 1]] = "none"
      BY <3>3 DEF NotShared
    <3> QED BY <2>4, <3>2, <3>4
  <2>6. PICK v : v = SubSeq(self.route, 1, self.got)
    OBVIOUS
  <2>7. self.got # 0 /\ self.got \in 1 .. Len(self.route)
    BY <1>2, <1>3, <2>1, <2>5
  <2>8. v \in Seq(Node) /\ Len(v) = self.got /\ \A m \in 1 .. self.got : v[m] = self.route[m]
    BY <1>2, <2>6, <2>7
  <2>9. PICK l : /\ l = [self EXCEPT !.pc = "release", !.sent = <<>>, !.route = <<>>, !.got = 0,
                                     !.rt.reserved = v]
                 /\ Become(t, l)
                 /\ upset' = (upset \/ ~IsInjective(v))
    BY <1>1, <1>17, <2>6, <2>7 DEF Reserved
  <2>10. l.pc = "release" /\ l.start = seen /\ l.id = plan.id /\ l.rt.reserved = v
    BY <1>2, <2>1, <2>9 DEF LocalType, RuntimeType
  <2>11. Covers(v)
    <3>1. \A m \in 1 .. j : v[m] = w[m]
      BY <1>3, <2>2, <2>5, <2>8
    <3>2. j <= Len(v)
      BY <2>5, <2>8
    <3> QED BY <1>3, <2>4, <2>8, <3>1, <3>2, CoversToo
  <2>12. v[1] = seen
    BY <1>3, <2>2, <2>7, <2>8
  <2>13. IsPrefix(v, w) \/ IsPrefix(w, v)
    <3>1. CASE Len(v) <= Len(w)
      <4>1. \A m \in 1 .. Len(v) : v[m] = w[m]
        BY <1>3, <2>2, <2>8, <3>1
      <4> QED BY <1>3, <2>8, <3>1, <4>1, PrefixIs
    <3>2. CASE Len(w) <= Len(v)
      <4>1. \A m \in 1 .. Len(w) : v[m] = w[m]
        BY <1>3, <2>2, <2>8, <3>2
      <4> QED BY <1>3, <2>8, <3>2, <4>1, PrefixIs
    <3> QED BY <1>3, <2>7, <2>8, <3>1, <3>2
  <2>14. IsInjective(v) => OnWay(l)
    BY <1>1, <2>10, <2>11, <2>12, <2>13 DEF OnWay, Resting
  <2>15. Fits(lastSent) \/ (l.pc \in Bare /\ lastSent = <<>>)
    BY <1>5, <2>1, <2>10 DEF Bare
  <2> QED BY <1>6, <2>1, <2>9, <2>14, <2>15
<1>18. self.pc \in {"release", "write"} =>
         /\ self.start = seen /\ self.id = plan.id /\ IsInjective(self.rt.reserved)
         /\ self.rt.reserved[1] = seen /\ Covers(self.rt.reserved)
         /\ IsPrefix(self.rt.reserved, w) \/ IsPrefix(w, self.rt.reserved)
  BY <1>1, <1>2 DEF OnWay, Working, InPlanner
<1>19. ASSUME Release(t) PROVE Agreed'
  <2>1. PICK v : v = self.rt.reserved
    OBVIOUS
  <2>2. /\ self.pc = "release" /\ holds' = Keeping(Range(v))
        /\ UNCHANGED <<plan, rt, lastSent, seen, trail>>
    BY <1>1, <1>19, <2>1 DEF Release
  <2>3. \A n \in Range(v) : holds'[n] = holds[n]
    BY <1>2, <2>1, <2>2 DEF Keeping, Range
  <2>4. Covers(v)'
    BY <1>2, <1>18, <2>1, <2>2, <2>3, StillCovers
  <2>5. PICK i \in 1 .. Len(w) : \E j \in i .. Len(w) :
          /\ trail = SubSeq(w, i, j)
          /\ \A m \in 1 .. j : holds[w[m]] = "kept"
          /\ j <= Len(v) /\ \A m \in 1 .. j : v[m] = w[m]
    <3>1. /\ v \in Seq(Node) /\ IsInjective(v) /\ Covers(v)
          /\ IsPrefix(v, w) \/ IsPrefix(w, v)
      BY <1>2, <1>18, <2>1, <2>2
    <3> QED BY <1>2, <1>3, <3>1, CoverAlike
  <2>6. PICK j \in i .. Len(w) :
          /\ trail = SubSeq(w, i, j)
          /\ \A m \in 1 .. j : holds[w[m]] = "kept"
          /\ j <= Len(v) /\ \A m \in 1 .. j : v[m] = w[m]
    BY <2>5
  <2>7. Way' = w /\ \A s : Fits(s)' <=> Fits(s)
    BY <1>1, <2>2, SameWay
  <2>8. Covers(Way)'
    <3>1. ASSUME NEW m \in 1 .. j PROVE holds'[w[m]] = "kept"
      <4>1. v[m] = w[m] /\ m \in DOMAIN v
        BY <1>2, <2>1, <2>6
      <4>2. w[m] \in Range(v)
        BY <4>1 DEF Range
      <4> QED BY <2>3, <2>6, <4>2
    <3> QED BY <2>2, <2>6, <2>7, <3>1 DEF Covers
  <2>9. PICK l : l = [self EXCEPT !.pc = "write"] /\ Become(t, l)
    BY <1>1, <1>19 DEF Release, Goto
  <2>10. l.pc = "write" /\ l.start = seen /\ l.id = plan.id /\ l.rt.reserved = v
    BY <1>2, <1>18, <2>1, <2>2, <2>9 DEF LocalType
  <2>11. OnWay(l)'
    BY <1>18, <2>1, <2>2, <2>4, <2>7, <2>10 DEF OnWay, Resting
  <2>12. Fits(rt.reserved)'
    BY <1>2, <2>2, <2>7 DEF Fits
  <2>13. Fits(lastSent)' \/ (l.pc \in Bare /\ lastSent' = <<>>)
    BY <1>5, <2>2, <2>7, <2>10 DEF Bare, Fits
  <2> QED BY <2>8, <2>9, <2>11, <2>12, <2>13, AgreedAgain
<1>20. ASSUME WriteBack(t) PROVE Agreed'
  <2>1. /\ self.pc \in {"write", "rest_write"}
        /\ rt' = (IF rt.id \in {0, self.id} THEN self.rt ELSE rt)
        /\ UNCHANGED <<lastSent, holds, seen, trail>>
    BY <1>1, <1>20 DEF WriteBack
  <2>2. rt' = self.rt
    <3>1. self.id = plan.id
      BY <1>1, <1>2, <2>1 DEF OnWay, Working, InPlanner
    <3>2. rt.id = plan.id
      BY PlansNow
    <3> QED BY <2>1, <3>1, <3>2
  <2>3. CASE self.pc = "write"
    <3>1. PICK v : v = self.rt.reserved
      OBVIOUS
    <3>2. v \in Seq(Node) /\ IsInjective(v) /\ v[1] = seen /\ Covers(v) /\ self.start = seen
      BY <1>2, <1>18, <2>3, <3>1
    <3>3. v # <<>> /\ 1 \in 1 .. Len(v)
      BY <3>2 DEF Covers
    <3>4. From(v, seen) = v
      <4>1. From(v, seen) = SubSeq(v, 1, Len(v))
        BY <3>2, <3>3, FromAt
      <4>2. SubSeq(v, 1, Len(v)) = v
        BY <3>2
      <4> QED BY <4>1, <4>2
    <3>5. Way' = v
      BY <2>1, <2>2, <3>1, <3>3, <3>4 DEF Way
    <3>6. seen \in Range(v)
      BY <3>2, <3>3 DEF Range
    <3>7. Fits(rt.reserved)'
      BY <2>1, <2>2, <3>1, <3>2, <3>3, <3>4, <3>5, <3>6 DEF Fits
    <3>8. Covers(Way)'
      BY <2>1, <3>2, <3>5 DEF Covers
    <3>9. PICK l : /\ l = [self EXCEPT !.pc = "commit", !.sent = self.rt.reserved, !.rt = NoRuntime]
                   /\ Become(t, l)
      BY <1>1, <1>20, <2>3 DEF WriteBack
    <3>10. l.pc = "commit" /\ l.start = seen /\ l.sent = v
      BY <1>2, <3>1, <3>2, <3>9 DEF LocalType
    <3>11. OnWay(l)'
      BY <2>1, <2>2, <3>1, <3>3, <3>10 DEF OnWay, Resting, Working, InPlanner
    <3> QED BY <3>7, <3>8, <3>9, <3>10, <3>11, AgreedAgain
  <2>4. CASE self.pc = "rest_write"
    <3>1. self.rt.reserved = w
      BY <1>1, <1>2, <2>4 DEF OnWay
    <3>2. Way' = w
      BY <1>3, <1>4, <2>1, <2>2, <3>1 DEF Way
    <3>3. Fits(rt.reserved)' /\ Fits(lastSent)'
      <4>1. \A s : Fits(s)' <=> Fits(s)
        BY <1>1, <2>1, <3>2 DEF Fits
      <4>2. Fits(lastSent)
        BY <1>5, <2>4 DEF Bare
      <4>3. Fits(lastSent)'
        BY <2>1, <4>1, <4>2 DEF Fits
      <4>4. Fits(rt.reserved)'
        BY <1>4, <2>2, <3>1, <4>1 DEF Fits
      <4> QED BY <4>3, <4>4
    <3>4. Covers(Way)'
      BY <1>2, <2>1, <3>2 DEF Covers
    <3>5. Become(t, Local)
      BY <1>1, <1>20, <2>4 DEF WriteBack, Finish
    <3>6. OnWay(Local)'
      BY DEF OnWay, Local, Resting, Working, InPlanner
    <3> QED BY <3>3, <3>4, <3>5, <3>6, AgreedAgain
  <2> QED BY <2>1, <2>3, <2>4
<1>21. ASSUME CommitWindow(t) PROVE Agreed'
  <2>1. /\ self.pc = "commit" /\ lastSent' = self.sent /\ Become(t, Local)
        /\ UNCHANGED <<plan, rt, holds, seen, trail>>
    BY <1>1, <1>21 DEF CommitWindow, Finish
  <2>2. lastSent' = rt.reserved
    BY <1>2, <2>1 DEF OnWay
  <2>3. Way' = w /\ \A s : Fits(s)' <=> Fits(s)
    BY <1>1, <2>1, SameWay
  <2>4. Fits(rt.reserved)' /\ Fits(lastSent)' /\ Covers(Way)'
    BY <1>2, <2>1, <2>2, <2>3 DEF Fits, Covers
  <2>5. OnWay(Local)'
    BY DEF OnWay, Local, Resting, Working, InPlanner
  <2> QED BY <2>1, <2>4, <2>5, AgreedAgain
<1> QED BY <1>8, <1>9, <1>10, <1>11, <1>12, <1>13, <1>15, <1>16, <1>17, <1>19, <1>20, <1>21
        DEF PlannerStep

-----------------------------------------------------------------------------
(* The trail: new plans, and what procedures share.                         *)

\* Nodes of the way beyond its start were sent.
LEMMA WasSent ==
  ASSUME TypeInv, Fits(rt.reserved), lastSent \in Seq(Node), Fits(lastSent), NEW n \in Range(Way)
  PROVE  n = seen \/ n \in Range(lastSent)
<1>1. CASE lastSent = <<>>
  <2>1. Way = <<seen>>
    BY <1>1 DEF Fits
  <2> QED BY <2>1 DEF Range
<1>2. CASE lastSent # <<>>
  BY <1>2, FromFacts DEF Fits
<1> QED BY <1>1, <1>2

\* If a sequence that fits does not go on, the way is at its end.
LEMMA NothingAhead ==
  ASSUME NEW s \in Seq(Node), Fits(s), ~GoesOn(s, seen)
  PROVE  Way = <<seen>>
<1>1. CASE s = <<>>
  BY <1>1 DEF Fits
<1>2. CASE s # <<>>
  <2>1. IsInjective(s) /\ From(s, seen) = Way /\ s[Len(s)] = seen
    BY <1>2 DEF Fits, GoesOn, Last
  <2>2. PICK k \in 1 .. Len(s) : k = Len(s)
    BY <1>2
  <2>3. s[k] = seen
    BY <2>1, <2>2
  <2>4. From(s, s[k]) = SubSeq(s, k, Len(s))
    BY <2>1, FromAt
  <2>5. PICK r : r = SubSeq(s, k, k)
    OBVIOUS
  <2>6. r \in Seq(Node) /\ Len(r) = 1 /\ r[1] = s[k]
    BY <2>2, <2>5
  <2>7. r = <<s[k]>>
    BY <2>6
  <2> QED BY <2>1, <2>2, <2>3, <2>4, <2>5, <2>7
<1> QED BY <1>1, <1>2

\* A new plan forgets the route last sent: the planner goes on from the window.
LEMMA PlanAgreed ==
  ASSUME TypeInv, Turns, Agreed, NEW t \in Thread, Active(t), PlanStep(t)
  PROVE  upset' \/ Agreed'
<1>1. PICK self, w : self = thread[t] /\ w = Way
  OBVIOUS
<1>2. /\ self \in LocalType /\ self.rt \in RuntimeType /\ LocalOK(self) /\ OnWay(self)
      /\ rt \in RuntimeType /\ rt.reserved \in Seq(Node) /\ lastSent \in Seq(Node)
      /\ holds \in [Node -> {"none", "expires", "kept"}]
      /\ Fits(rt.reserved) /\ Covers(w)
  BY <1>1, AgreedNow
<1>3. w \in Seq(Node) /\ seen \in Node
  BY <1>1, <1>2, WayFacts
<1>4. /\ self.pc \in {"idle", "committed", "clear", "update", "fetch"}
      /\ UNCHANGED <<seen, trail>> /\ rt'.reserved = rt.reserved
  BY <1>1, <1>2 DEF PlanStep, CommitBegin, Begin, Committed, Clear, AroundBegin, UpdatePlan, Fetch, RuntimeType
<1>5. /\ self.pc # "fetch" => Fits(lastSent)
      /\ self.pc = "fetch" => Fits(lastSent) \/ lastSent = <<>>
      /\ self.pc # "idle" => self.start = seen
  BY <1>1, <1>2, <1>4, LastNow DEF Bare, OnWay
<1>6. Way' = w /\ \A s : Fits(s)' <=> Fits(s)
  BY <1>1, <1>4, SameWay
<1>7. ASSUME CommitBegin(t) PROVE Agreed'
  <2>1. PICK l : l = [Local EXCEPT !.pc = "committed", !.start = seen] /\ Become(t, l)
    BY <1>7 DEF CommitBegin
  <2>2. l.pc = "committed" /\ l.start = seen
    BY <2>1 DEF Local
  <2>3. OnWay(l)
    BY <2>2 DEF OnWay, Resting, Working, InPlanner
  <2>4. Fits(lastSent)
    BY <1>1, <1>5, <1>7 DEF CommitBegin, Begin
  <2> QED BY <1>7, <2>1, <2>3, <2>4, Quiet DEF CommitBegin
<1>8. ASSUME Committed(t) PROVE Agreed'
  <2>1. PICK l : l = [self EXCEPT !.pc = "clear", !.sent = lastSent] /\ Become(t, l)
                 /\ self.pc = "committed"
    BY <1>1, <1>8 DEF Committed
  <2>2. l.pc = "clear" /\ l.start = seen /\ l.sent = lastSent
    BY <1>2, <1>5, <2>1 DEF LocalType
  <2>3. OnWay(l)
    BY <2>2 DEF OnWay, Resting, Working, InPlanner
  <2>4. Fits(lastSent)
    BY <1>5, <2>1
  <2> QED BY <1>8, <2>1, <2>3, <2>4, Quiet DEF Committed
<1>9. ASSUME Clear(t) PROVE Agreed'
  <2>1. /\ self.pc = "clear" /\ self.start = seen /\ self.sent = lastSent /\ Fits(lastSent)
        /\ UNCHANGED <<plan, lastSent, rt>>
    BY <1>1, <1>2, <1>5, <1>9 DEF Clear, OnWay
  <2>2. holds' = [n \in Node |-> IF n = seen THEN IF Grants(n) THEN "kept" ELSE holds[n]
                                 ELSE IF n \in Range(lastSent) THEN holds[n] ELSE "none"]
    BY <1>1, <1>9, <2>1 DEF Clear
  <2>3. ASSUME NEW n \in Range(w), holds[n] = "kept" PROVE holds'[n] = "kept"
    <3>1. n = seen \/ n \in Range(lastSent)
      BY <1>1, <1>2, <2>1, <2>3, WasSent
    <3>2. n \in Node
      BY <1>3, <2>3 DEF Range
    <3> QED BY <2>2, <2>3, <3>1, <3>2
  <2>4. Covers(Way)'
    BY <1>2, <1>3, <1>4, <1>6, <2>3, StillCovers
  <2>5. PICK l : l = [self EXCEPT !.pc = "update", !.sent = <<>>] /\ Become(t, l)
    BY <1>1, <1>9 DEF Clear
  <2>6. l.pc = "update" /\ l.start = seen
    BY <1>2, <2>1, <2>5 DEF LocalType
  <2>7. OnWay(l)'
    BY <1>4, <2>6 DEF OnWay, Resting, Working, InPlanner
  <2>8. Fits(rt.reserved)' /\ Fits(lastSent)'
    BY <1>2, <1>6, <2>1 DEF Fits
  <2> QED BY <2>4, <2>5, <2>7, <2>8, AgreedAgain
<1>10. ASSUME NEW n \in Node, AroundBegin(t, n) PROVE upset' \/ Agreed'
  <2>1. CASE n # seen
    BY <1>10, <2>1 DEF AroundBegin
  <2>2. CASE n = seen
    <3>1. PICK l : /\ l = [Local EXCEPT !.pc = "update", !.start = n, !.rt.targets = plan.goals]
                   /\ Become(t, l)
      BY <1>10 DEF AroundBegin
    <3>2. l.pc = "update" /\ l.start = seen
      BY <2>2, <3>1 DEF Local
    <3>3. OnWay(l)
      BY <3>2 DEF OnWay, Resting, Working, InPlanner
    <3>4. Fits(lastSent)
      BY <1>1, <1>5, <1>10 DEF AroundBegin, Begin
    <3> QED BY <1>10, <3>1, <3>3, <3>4, Quiet DEF AroundBegin
  <2> QED BY <2>1, <2>2
<1>11. ASSUME NEW goals \in Goals, UpdatePlan(t, goals) PROVE Agreed'
  <2>1. /\ self.pc = "update" /\ self.start = seen /\ Fits(lastSent)
        /\ lastSent' = <<>> /\ UNCHANGED <<holds, seen, trail>>
    BY <1>1, <1>5, <1>11 DEF UpdatePlan
  <2>2. Fits(rt.reserved)' /\ Covers(Way)'
    BY <1>2, <1>4, <1>6, <2>1 DEF Fits, Covers
  <2>3. PICK l : l = [self EXCEPT !.pc = "fetch"] /\ Become(t, l)
    BY <1>1, <1>11 DEF UpdatePlan, Goto
  <2>4. l.pc = "fetch" /\ l.start = seen
    BY <1>2, <2>1, <2>3 DEF LocalType
  <2>5. OnWay(l)'
    BY <2>1, <2>4 DEF OnWay, Resting, Working, InPlanner
  <2>6. l.pc \in Bare /\ lastSent' = <<>>
    BY <2>1, <2>4 DEF Bare
  <2> QED BY <2>2, <2>3, <2>5, <2>6, AgreedAgain
<1>12. ASSUME Fetch(t) PROVE Agreed'
  <2>1. PICK l : l = [self EXCEPT !.pc = "copy", !.id = plan.id] /\ Become(t, l) /\ self.pc = "fetch"
    BY <1>1, <1>12 DEF Fetch
  <2>2. l.pc = "copy" /\ l.start = seen /\ l.id = plan.id
    BY <1>2, <1>5, <2>1 DEF LocalType
  <2>3. OnWay(l)
    BY <2>2 DEF OnWay, Resting
  <2>4. Fits(lastSent) \/ (l.pc \in Bare /\ lastSent = <<>>)
    BY <1>5, <2>1, <2>2 DEF Bare
  <2> QED BY <1>12, <2>1, <2>3, <2>4, Quiet DEF Fetch
<1> QED BY <1>7, <1>8, <1>9, <1>10, <1>11, <1>12 DEF PlanStep

\* Windows are given up without loss only when nothing is ahead; what is stored fits the way.
LEMMA SharedAgreed ==
  ASSUME TypeInv, Turns, Agreed, NEW t \in Thread, Active(t), SharedStep(t)
  PROVE  upset' \/ Agreed'
<1>1. PICK self, w : self = thread[t] /\ w = Way
  OBVIOUS
<1>2. /\ self \in LocalType /\ self.rt \in RuntimeType /\ LocalOK(self) /\ OnWay(self)
      /\ self.rt.reserved \in Seq(Node)
      /\ rt \in RuntimeType /\ rt.reserved \in Seq(Node) /\ lastSent \in Seq(Node)
      /\ holds \in [Node -> {"none", "expires", "kept"}]
      /\ Fits(rt.reserved) /\ Covers(w)
  BY <1>1, AgreedNow
<1>3. w \in Seq(Node) /\ w # <<>> /\ seen \in Node /\ Fits(w)
  BY <1>1, <1>2, WayFacts, WayFits
<1>4. /\ Fits(lastSent) \/ (self.pc \in Bare /\ lastSent = <<>>) \/ self.pc = "commit"
  BY <1>1, LastNow
<1>5. ASSUME GiveUp(t) PROVE upset' \/ Agreed'
  <2>1. /\ self.pc \in {"idle_release", "reset", "super", "rest"} /\ self.start = seen
        /\ UNCHANGED <<plan, rt, lastSent, seen, trail>>
        /\ self.pc \in {"super", "rest"} => self.rt.reserved = w /\ self.id = plan.id
    BY <1>1, <1>2, <1>5 DEF GiveUp, AfterGiveUp, OnWay, Working, InPlanner
  <2>2. CASE GoesOn(lastSent, seen) \/ GoesOn(self.rt.reserved, seen)
    BY <1>1, <1>5, <2>1, <2>2 DEF GiveUp
  <2>3. CASE ~GoesOn(lastSent, seen) /\ ~GoesOn(self.rt.reserved, seen)
    <3>1. w = <<seen>>
      <4>1. CASE self.pc \in {"super", "rest"}
        BY <1>1, <1>3, <2>1, <2>3, <4>1, NothingAhead
      <4>2. CASE self.pc \in {"idle_release", "reset"}
        <5>1. Fits(lastSent)
          BY <1>4, <4>2 DEF Bare
        <5> QED BY <1>1, <1>2, <2>3, <5>1, NothingAhead
      <4> QED BY <2>1, <4>1, <4>2
    <3>2. holds' \in {KeepingOnly(seen), Keeping({seen})}
      BY <1>1, <1>5, <2>1 DEF GiveUp
    <3>3. holds[seen] = "kept" => holds'[seen] = "kept"
      BY <1>3, <3>2 DEF KeepingOnly, Keeping
    <3>4. Way' = w /\ \A s : Fits(s)' <=> Fits(s)
      BY <1>1, <2>1, SameWay
    <3>5. Covers(Way)'
      <4>1. \A n \in Range(w) : holds[n] = "kept" => holds'[n] = "kept"
        BY <3>1, <3>3 DEF Range
      <4> QED BY <1>2, <1>3, <2>1, <3>4, <4>1, StillCovers
    <3>6. PICK mismatch, l :
            /\ l = [self EXCEPT !.pc = AfterGiveUp[self.pc], !.rt.reserved = <<self.start>>,
                                !.rt.mismatch = mismatch]
            /\ Become(t, l)
      BY <1>1, <1>5 DEF GiveUp
    <3>7. /\ l.pc = AfterGiveUp[self.pc] /\ l.start = seen /\ l.id = self.id
          /\ l.rt.reserved = <<seen>>
      BY <1>2, <2>1, <3>6 DEF LocalType, RuntimeType
    <3>8. /\ l.pc \in {"idle_store", "reset_store", "super_sent", "rest_sent"}
          /\ l.pc \in {"super_sent", "rest_sent"} <=> self.pc \in {"super", "rest"}
      BY <2>1, <3>7 DEF AfterGiveUp
    <3>9. OnWay(l)'
      BY <2>1, <3>1, <3>4, <3>7, <3>8 DEF OnWay, Resting, Working, InPlanner
    <3>10. Fits(rt.reserved)'
      BY <1>2, <2>1, <3>4 DEF Fits
    <3>11. Fits(lastSent)' \/ (l.pc \in Bare /\ lastSent' = <<>>)
      BY <1>4, <2>1, <3>4, <3>8 DEF Bare, Fits
    <3> QED BY <3>5, <3>6, <3>9, <3>10, <3>11, AgreedAgain
  <2> QED BY <2>2, <2>3
<1>6. ASSUME StoreReserved(t) PROVE Agreed'
  <2>1. /\ self.pc \in {"store", "idle_store", "reset_store", "super_store"} /\ self.start = seen
        /\ UNCHANGED <<plan, lastSent, holds, seen, trail>>
        /\ self.pc = "super_store" => self.id = plan.id
    BY <1>1, <1>2, <1>6 DEF StoreReserved, AfterStore, OnWay, Working, InPlanner
  <2>2. /\ self.rt.reserved # <<>> /\ Fits(self.rt.reserved)
        /\ self.pc # "store" => w = <<seen>> /\ self.rt.reserved = <<seen>>
    <3>1. CASE self.pc = "store"
      BY <1>2, <3>1 DEF OnWay
    <3>2. CASE self.pc # "store"
      <4>1. w = <<seen>> /\ self.rt.reserved = <<seen>>
        BY <1>1, <1>2, <2>1, <3>2 DEF OnWay, Resting
      <4> QED BY <1>3, <4>1
    <3> QED BY <3>1, <3>2
  <2>3. rt'.reserved = rt.reserved \/ rt'.reserved = self.rt.reserved
    BY <1>1, <1>2, <1>6 DEF StoreReserved, RuntimeType
  <2>4. Way' = w
    <3>1. CASE rt'.reserved = rt.reserved
      BY <1>1, <2>1, <3>1, SameWay
    <3>2. CASE rt'.reserved = self.rt.reserved
      BY <1>1, <2>1, <2>2, <3>2 DEF Way, Fits
    <3> QED BY <2>3, <3>1, <3>2
  <2>5. \A s : Fits(s)' <=> Fits(s)
    BY <1>1, <2>1, <2>4 DEF Fits
  <2>6. Fits(rt.reserved)' /\ Fits(lastSent)' /\ Covers(Way)'
    <3>1. Fits(lastSent)
      BY <1>4, <2>1 DEF Bare
    <3>2. Fits(lastSent)' /\ Covers(Way)'
      BY <1>2, <2>1, <2>4, <2>5, <3>1 DEF Fits, Covers
    <3>3. PICK r : r = rt'.reserved /\ Fits(r)
      BY <1>2, <2>2, <2>3
    <3>4. Fits(r)'
      BY <2>5, <3>3
    <3> QED BY <3>2, <3>3, <3>4 DEF Fits
  <2>7. PICK l : l = [self EXCEPT !.pc = AfterStore[self.pc]] /\ Become(t, l)
    BY <1>1, <1>6 DEF StoreReserved, Goto
  <2>8. l.pc = AfterStore[self.pc] /\ l.start = seen /\ l.id = self.id /\ l.rt = self.rt
    BY <1>2, <2>1, <2>7 DEF LocalType
  <2>9. /\ l.pc \in {"read_sent", "idle_sent", "reset_sent", "plan"}
        /\ l.pc = "read_sent" <=> self.pc = "store"
        /\ l.pc = "plan" <=> self.pc = "super_store"
    BY <2>1, <2>8 DEF AfterStore
  <2>10. OnWay(l)'
    BY <2>1, <2>2, <2>4, <2>8, <2>9 DEF OnWay, Resting, Working, InPlanner
  <2> QED BY <2>6, <2>7, <2>10, AgreedAgain
<1>7. ASSUME SentOnlyHere(t) PROVE Agreed'
  <2>1. /\ self.pc \in {"idle_sent", "reset_sent", "super_sent", "rest_sent"} /\ self.start = seen
        /\ lastSent' = <<seen>> /\ UNCHANGED <<plan, rt, holds, seen, trail>>
        /\ w = <<seen>> /\ self.rt.reserved = <<seen>>
        /\ self.pc \in {"super_sent", "rest_sent"} => self.id = plan.id
    <3>1. self.pc \in {"idle_sent", "reset_sent", "super_sent", "rest_sent"}
      BY <1>1, <1>2, <1>7 DEF SentOnlyHere, AfterSent, OnWay
    <3>2. self.start = seen /\ w = <<seen>> /\ self.rt.reserved = <<seen>>
      BY <1>1, <1>2, <3>1 DEF OnWay, Resting
    <3>3. self.pc \in {"super_sent", "rest_sent"} => self.id = plan.id
      BY <1>2 DEF OnWay, Working, InPlanner
    <3> QED BY <1>1, <1>7, <3>1, <3>2, <3>3 DEF SentOnlyHere
  <2>2. Way' = w /\ \A s : Fits(s)' <=> Fits(s)
    BY <1>1, <2>1, SameWay
  <2>3. Fits(rt.reserved)' /\ Fits(lastSent)' /\ Covers(Way)'
    BY <1>2, <1>3, <2>1, <2>2 DEF Fits, Covers
  <2>4. PICK l : /\ l = IF self.pc = "idle_sent" THEN Local
                        ELSE [self EXCEPT !.pc = AfterSent[self.pc]]
                 /\ Become(t, l)
    BY <1>1, <1>7 DEF SentOnlyHere, Finish, Goto
  <2>5. OnWay(l)'
    <3>1. CASE self.pc = "idle_sent"
      BY <2>4, <3>1 DEF OnWay, Local, Resting, Working, InPlanner
    <3>2. CASE self.pc # "idle_sent"
      <4>1. l.pc = AfterSent[self.pc] /\ l.start = seen /\ l.id = self.id /\ l.rt = self.rt
        BY <1>2, <2>1, <2>4, <3>2 DEF LocalType
      <4>2. /\ l.pc \in {"refresh", "super_store", "rest_write"}
            /\ l.pc = "refresh" <=> self.pc = "reset_sent"
        BY <2>1, <3>2, <4>1 DEF AfterSent
      <4>3. Way' = <<seen>> /\ seen' = seen /\ plan' = plan /\ l.rt.reserved = Way'
        BY <1>1, <2>1, <2>2, <4>1
      <4>4. l.pc \in Working => l.id = plan.id
        BY <2>1, <4>1, <4>2 DEF AfterSent, Working, InPlanner
      <4> QED BY <4>1, <4>2, <4>3, <4>4 DEF OnWay, Resting
    <3> QED BY <3>1, <3>2
  <2> QED BY <2>3, <2>4, <2>5, AgreedAgain
<1> QED BY <1>5, <1>6, <1>7 DEF SharedStep

-----------------------------------------------------------------------------
(* The trail: the vehicle and the others; all steps.                        *)

\* A step that no thread makes, and that leaves every trail covered that was.
LEMMA AsideAgreed ==
  ASSUME TypeInv, Agreed, UNCHANGED <<plan, rt, lastSent, seen, thread>>,
         \A n \in Node : holds[n] = "kept" => holds'[n] = "kept",
         \A s \in Seq(Node) : Covers(s) => Covers(s)'
  PROVE  Agreed'
<1>1. Way' = Way /\ \A s : Fits(s)' <=> Fits(s)
  BY SameWay
<1>2. Way \in Seq(Node)
  BY WayFacts DEF Agreed
<1>3. Fits(rt.reserved)' /\ Covers(Way)'
  <2>1. Fits(rt.reserved)'
    BY <1>1 DEF Agreed, Fits
  <2>2. Covers(Way)'
    BY <1>1, <1>2 DEF Agreed, Covers
  <2> QED BY <2>1, <2>2
<1>4. ASSUME NEW t \in Thread PROVE OnWay(thread[t])'
  <2>1. PICK self : self = thread[t]
    OBVIOUS
  <2>2. /\ OnWay(self) /\ self.rt.reserved \in Seq(Node) /\ self.route \in Seq(Node) /\ LocalOK(self)
        /\ self.got \in Nat
    BY <2>1, TypedNow DEF Agreed, LocalType, RuntimeType
  <2>3. \A n \in Range(Way) : holds[n] = "kept" => holds'[n] = "kept"
    BY <1>2 DEF Range
  <2>4. self.pc = "reserve_trail" => \A m \in 1 .. self.got : holds'[Way[m]] = "kept"
    <3>1. SUFFICES ASSUME self.pc = "reserve_trail", NEW m \in 1 .. self.got
                   PROVE  holds'[Way[m]] = "kept"
      OBVIOUS
    <3>2. self.route = Way /\ holds[Way[m]] = "kept" /\ self.got <= Len(self.route)
      BY <2>2, <3>1 DEF OnWay, LocalOK, Counting
    <3>3. Way[m] \in Node
      BY <1>2, <2>2, <3>1, <3>2
    <3> QED BY <3>2, <3>3
  <2>5. self.pc = "publish" => \A n \in Range(Way) : holds'[n] = "kept"
    BY <2>2, <2>3 DEF OnWay
  <2>6. self.pc \in {"release", "write"} => Covers(self.rt.reserved)'
    <3>1. SUFFICES ASSUME self.pc \in {"release", "write"} PROVE Covers(self.rt.reserved)'
      OBVIOUS
    <3>2. PICK s : s = self.rt.reserved
      OBVIOUS
    <3>3. Covers(s)
      BY <2>2, <3>1, <3>2 DEF OnWay
    <3>4. Covers(s)'
      BY <2>2, <3>2, <3>3
    <3> QED BY <3>2, <3>4 DEF Covers
  <2>7. OnWay(self)'
    <3>1. self.pc = "store" => Fits(self.rt.reserved)'
      BY <1>1, <2>2 DEF OnWay, Fits
    <3> QED BY <1>1, <2>2, <2>4, <2>5, <2>6, <3>1 DEF OnWay
  <2> QED BY <2>1, <2>7 DEF OnWay
<1>5. \/ Fits(lastSent)'
      \/ \E t \in Thread : thread'[t].pc = "commit" \/ (thread'[t].pc \in Bare /\ lastSent' = <<>>)
  BY <1>1 DEF Agreed, Fits
<1> QED BY <1>3, <1>4, <1>5 DEF Agreed

\* The vehicle drives on, holds with a time to live end, other vehicles take and leave nodes.
LEMMA EnvironmentAgreed ==
  ASSUME TypeInv, Agreed, Environment \/ vars' = vars
  PROVE  Agreed'
<1>1. holds \in [Node -> {"none", "expires", "kept"}] /\ trail \in Seq(Node) \ {<<>>}
  BY DEF TypeInv, TypeOK
<1>2. CASE Drive
  <2>1. ASSUME NEW s \in Seq(Node), Covers(s) PROVE Covers(s)'
    <3>1. PICK i \in 1 .. Len(s) : \E j \in i .. Len(s) :
            /\ trail = SubSeq(s, i, j)
            /\ \A m \in 1 .. j : holds[s[m]] = "kept"
      BY <2>1 DEF Covers
    <3>2. PICK j \in i .. Len(s) :
            /\ trail = SubSeq(s, i, j)
            /\ \A m \in 1 .. j : holds[s[m]] = "kept"
      BY <3>1
    <3>3. /\ SubSeq(s, i, j) \in Seq(Node) /\ Len(SubSeq(s, i, j)) = j - i + 1
          /\ \A m \in 1 .. j - i + 1 : SubSeq(s, i, j)[m] = s[i + m - 1]
      BY <3>2
    <3>4. i + 1 \in 1 .. Len(s) /\ j \in i + 1 .. Len(s)
      BY <1>2, <3>2, <3>3 DEF Drive
    <3>5. trail' = SubSeq(s, i + 1, j)
      <4>1. PICK u : u = SubSeq(s, i + 1, j)
        OBVIOUS
      <4>2. /\ u \in Seq(Node) /\ Len(u) = j - i
            /\ \A m \in 1 .. j - i : u[m] = s[i + m]
        BY <3>4, <4>1
      <4>3. /\ Tail(trail) \in Seq(Node) /\ Len(Tail(trail)) = j - i
            /\ \A m \in 1 .. j - i : Tail(trail)[m] = trail[m + 1]
        BY <1>1, <1>2, <3>2, <3>3 DEF Drive
      <4>4. \A m \in 1 .. j - i : Tail(trail)[m] = u[m]
        BY <3>2, <3>3, <4>2, <4>3
      <4>5. PICK v : v = Tail(trail)
        OBVIOUS
      <4>6. v = u
        BY <4>2, <4>3, <4>4, <4>5
      <4> QED BY <1>2, <4>1, <4>5, <4>6 DEF Drive
    <3>6. holds' = holds
      BY <1>2 DEF Drive
    <3> QED BY <3>2, <3>4, <3>5, <3>6 DEF Covers
  <2> QED BY <1>2, <2>1, AsideAgreed DEF Drive
<1>3. ASSUME UNCHANGED <<plan, rt, lastSent, seen, thread, trail>>,
             \A n \in Node : holds[n] = "kept" => holds'[n] = "kept"
      PROVE  Agreed'
  <2>1. ASSUME NEW s \in Seq(Node), Covers(s) PROVE Covers(s)'
    BY <1>3, <2>1, StillCovers DEF Range
  <2> QED BY <1>3, <2>1, AsideAgreed
<1>4. ASSUME NEW n \in Node, Expire(n) PROVE Agreed'
  BY <1>1, <1>3, <1>4 DEF Expire
<1>5. ASSUME NEW n \in Node, OtherTakes(n) \/ OtherLeaves(n) PROVE Agreed'
  BY <1>3, <1>5 DEF OtherTakes, OtherLeaves
<1>6. CASE vars' = vars
  BY <1>3, <1>6 DEF vars
<1> QED BY <1>2, <1>4, <1>5, <1>6 DEF Environment

\* What was let go of is not forgotten.
LEMMA UpsetStays ==
  ASSUME upset, [Next]_vars
  PROVE  upset'
<1>1. ASSUME NEW t \in Thread, ReceiverStep(t) PROVE upset'
  BY <1>1
     DEF ReceiverStep, StatusArrives, Snapshot, Advance, DecideIdle, DecideTrim, DecideKeep,
         DecideReset, ReadSent, WriteSent, Refresh, Renew, TrailBegin, Build, Check, ReserveTrail,
         TrailFails, Record, Publish
<1>2. ASSUME NEW t \in Thread, PlannerStep(t) PROVE upset'
  BY <1>2
     DEF PlannerStep, ReplanBegin, Locate, Copy, Align, PlanNothing, PlanFails, PlanRoute, ReserveNode,
         Reserved, KeepOld, Release, WriteBack, CommitWindow
<1>3. ASSUME NEW t \in Thread, PlanStep(t) PROVE upset'
  BY <1>3 DEF PlanStep, CommitBegin, Committed, Clear, AroundBegin, UpdatePlan, Fetch
<1>4. ASSUME NEW t \in Thread, SharedStep(t) PROVE upset'
  BY <1>4 DEF SharedStep, GiveUp, StoreReserved, SentOnlyHere
<1>5. CASE Environment
  BY <1>5 DEF Environment, Drive, Expire, OtherTakes, OtherLeaves
<1>6. CASE UNCHANGED vars
  BY <1>6 DEF vars
<1> QED BY <1>1, <1>2, <1>3, <1>4, <1>5, <1>6 DEF Next

\* At first the way and the trail are the node the vehicle stands on.
LEMMA TrailInitially == Init => TrailInv
<1> SUFFICES ASSUME Init PROVE TrailInv
  OBVIOUS
<1>1. /\ rt.reserved = <<>> /\ lastSent = <<Home>> /\ seen = Home /\ trail = <<Home>> /\ blocked = {}
      /\ holds[Home] = "kept" /\ Home \in Node
      /\ \A t \in Thread : thread[t] = Local
  BY WindowAssumption DEF Init, NoRuntime
<1>2. Way = <<seen>>
  BY <1>1 DEF Way
<1>3. Fits(rt.reserved)
  BY <1>1, <1>2 DEF Fits, IsInjective
<1>4. Fits(lastSent)
  <2>1. Fits(Way)
    BY <1>3, TypesInitially, WayFits
  <2> QED BY <1>1, <1>2, <2>1
<1>5. Covers(Way)
  <2>1. PICK s : s = <<Home>>
    OBVIOUS
  <2>2. s \in Seq(Node) /\ Len(s) = 1 /\ s[1] = Home
    BY <1>1, <2>1
  <2>3. SubSeq(s, 1, 1) = s
    BY <2>2
  <2>4. Covers(s)
    BY <1>1, <2>1, <2>2, <2>3 DEF Covers
  <2> QED BY <1>1, <1>2, <2>1, <2>4
<1>6. ASSUME NEW t \in Thread PROVE OnWay(thread[t])
  BY <1>1 DEF OnWay, Local, Resting, Working, InPlanner
<1>7. NotShared /\ Turns
  BY <1>1 DEF NotShared, Turns, Local
<1> QED BY <1>3, <1>4, <1>5, <1>6, <1>7 DEF TrailInv, Agreed

\* Every step of a thread in its turn, and every step of the vehicle and the others.
LEMMA TrailInductive ==
  ASSUME Serial, PlansInv, TrailInv, [Next]_vars
  PROVE  TrailInv'
<1>1. TypeInv /\ NotShared /\ Turns
  BY DEF PlansInv, TrailInv
<1>2. NotShared' /\ Turns'
  BY <1>1, NotSharedNext, TurnsNext
<1>3. CASE upset
  BY <1>2, <1>3, UpsetStays DEF TrailInv
<1>4. CASE Agreed
  <2>1. ASSUME NEW t \in Thread, ReceiverStep(t) \/ PlannerStep(t) \/ PlanStep(t) \/ SharedStep(t)
        PROVE  upset' \/ Agreed'
    <3>1. Active(t)
      BY <2>1, ActiveStep
    <3>2. CASE ReceiverStep(t)
      BY <1>1, <1>4, <3>1, <3>2, ArriveAgreed, StatusAgreed, TrailAgreed DEF ReceiverStep
    <3>3. CASE PlannerStep(t)
      BY <1>1, <1>4, <3>1, <3>3, PlannerAgreed
    <3>4. CASE PlanStep(t)
      BY <1>1, <1>4, <3>1, <3>4, PlanAgreed
    <3>5. CASE SharedStep(t)
      BY <1>1, <1>4, <3>1, <3>5, SharedAgreed
    <3> QED BY <2>1, <3>2, <3>3, <3>4, <3>5
  <2>2. ASSUME Environment PROVE Agreed'
    BY <1>1, <1>4, <2>2, EnvironmentAgreed
  <2>3. ASSUME vars' = vars PROVE Agreed'
    BY <1>1, <1>4, <2>3, EnvironmentAgreed
  <2>4. upset' \/ Agreed'
    BY <2>1, <2>2, <2>3 DEF Next
  <2> QED BY <1>2, <2>4 DEF TrailInv
<1> QED BY <1>3, <1>4 DEF TrailInv

\* The way, the route last sent, what the threads carry, the holds and the trail agree as long
\* as the threads take turns, until a window is given up.
THEOREM TrailInvariance ==
  ASSUME Serial
  PROVE  Spec => []TrailInv
<1>1. PlansInv /\ TrailInv /\ [Next]_vars => TrailInv'
  BY TrailInductive
<1> QED BY <1>1, PlansInvariance, TrailInitially, PTL DEF Spec

\* If the threads take turns, every node the vehicle was sent to and has not passed is held for
\* it, on any map, whatever plans are committed and whatever other vehicles take: trimming,
\* planning, committing and renewing windows frees none of them, unless a window was given up,
\* the route last sent forgotten, or a window came back to a node it holds.
THEOREM TrailIsHeld ==
  ASSUME Serial
  PROVE  Spec => []TrailHeld
<1>1. ASSUME TypeInv, TrailInv PROVE TrailHeld
  <2>1. SUFFICES ASSUME Agreed PROVE Range(trail) \subseteq Held
    BY <1>1 DEF TrailInv, TrailHeld
  <2>2. PICK w : w = Way
    OBVIOUS
  <2>3. w \in Seq(Node) /\ Covers(w)
    BY <1>1, <2>1, <2>2, WayFacts DEF Agreed
  <2>4. PICK i \in 1 .. Len(w) : \E j \in i .. Len(w) :
          /\ trail = SubSeq(w, i, j)
          /\ \A m \in 1 .. j : holds[w[m]] = "kept"
    BY <2>3 DEF Covers
  <2>5. PICK j \in i .. Len(w) :
          /\ trail = SubSeq(w, i, j)
          /\ \A m \in 1 .. j : holds[w[m]] = "kept"
    BY <2>4
  <2>6. ASSUME NEW n \in Range(trail) PROVE n \in Held
    <3>1. DOMAIN trail = 1 .. j - i + 1
      BY <2>3, <2>5
    <3>2. PICK m \in 1 .. j - i + 1 : n = trail[m]
      BY <2>6, <3>1 DEF Range
    <3>3. n = w[i + m - 1] /\ i + m - 1 \in 1 .. j /\ i + m - 1 \in 1 .. Len(w)
      BY <2>3, <2>5, <3>2
    <3>4. n \in Node /\ holds[n] = "kept"
      BY <2>3, <2>5, <3>3
    <3> QED BY <3>4 DEF Held
  <2> QED BY <2>6
<1>2. TypeInv /\ TrailInv => TrailHeld
  BY <1>1
<1> QED BY <1>2, TypesInvariance, TrailInvariance, PTL

\* An answer goes on from the trail.
LEMMA Continued ==
  ASSUME Serial, PlansInv, TrailInv, Next
  PROVE  upset' \/ trail' = Tail(trail) \/ IsPrefix(trail, trail')
<1>1. TypeInv /\ trail \in Seq(Node) \ {<<>>}
  BY DEF PlansInv, TypeInv, TypeOK
<1>2. CASE upset
  BY <1>2, UpsetStays
<1>3. CASE trail' = trail
  BY <1>1, <1>3, PrefixIs
<1>4. ASSUME NEW t \in Thread, Publish(t), Agreed PROVE IsPrefix(trail, trail')
  <2>1. PICK w : w = Way
    OBVIOUS
  <2>2. w \in Seq(Node) /\ IsInjective(w) /\ Covers(w) /\ OnWay(thread[t])
    BY <1>1, <1>4, <2>1, WayFacts DEF Agreed
  <2>3. trail' = IF trail[1] \in Range(w) THEN From(w, trail[1]) ELSE trail
    BY <1>4, <2>1, <2>2 DEF Publish, OnWay
  <2>4. PICK i \in 1 .. Len(w) : \E j \in i .. Len(w) : trail = SubSeq(w, i, j)
    BY <2>2 DEF Covers
  <2>5. PICK j \in i .. Len(w) : trail = SubSeq(w, i, j)
    BY <2>4
  <2>6. PICK u : u = SubSeq(w, i, Len(w))
    OBVIOUS
  <2>7. trail[1] = w[i]
    BY <2>2, <2>5
  <2>8. trail' = u
    BY <2>2, <2>3, <2>6, <2>7, FromAt DEF Range
  <2>9. u \in Seq(Node) /\ Len(u) = Len(w) - i + 1 /\ \A m \in 1 .. Len(w) - i + 1 : u[m] = w[i + m - 1]
    BY <2>2, <2>6
  <2>10. Len(trail) = j - i + 1 /\ \A m \in 1 .. j - i + 1 : trail[m] = w[i + m - 1]
    BY <2>2, <2>5
  <2>11. Len(trail) <= Len(u) /\ \A m \in 1 .. Len(trail) : trail[m] = u[m]
    BY <2>9, <2>10
  <2> QED BY <1>1, <2>8, <2>9, <2>11, PrefixIs
<1>5. CASE Drive
  BY <1>5 DEF Drive
<1>6. ASSUME NEW t \in Thread, ReceiverStep(t) PROVE Publish(t) \/ trail' = trail
  BY <1>6
     DEF ReceiverStep, StatusArrives, Snapshot, Advance, DecideIdle, DecideTrim, DecideKeep,
         DecideReset, ReadSent, WriteSent, Refresh, Renew, TrailBegin, Build, Check, ReserveTrail,
         TrailFails, Record
<1>7. ASSUME NEW t \in Thread, PlannerStep(t) PROVE trail' = trail
  BY <1>7
     DEF PlannerStep, ReplanBegin, Locate, Copy, Align, PlanNothing, PlanFails, PlanRoute, ReserveNode,
         Reserved, KeepOld, Release, WriteBack, CommitWindow
<1>8. ASSUME NEW t \in Thread, PlanStep(t) PROVE trail' = trail
  BY <1>8 DEF PlanStep, CommitBegin, Committed, Clear, AroundBegin, UpdatePlan, Fetch
<1>9. ASSUME NEW t \in Thread, SharedStep(t) PROVE trail' = trail
  BY <1>9 DEF SharedStep, GiveUp, StoreReserved, SentOnlyHere
<1>10. ASSUME Environment PROVE Drive \/ trail' = trail
  BY <1>10 DEF Environment, Expire, OtherTakes, OtherLeaves
<1>11. upset \/ Agreed
  BY DEF TrailInv
<1> QED BY <1>2, <1>3, <1>4, <1>5, <1>6, <1>7, <1>8, <1>9, <1>10, <1>11 DEF Next

\* If the threads take turns, no answer takes back a point sent before: the trail changes only by
\* being driven and by being continued, with the exceptions of TrailIsHeld.
THEOREM NothingRetracted ==
  ASSUME Serial
  PROVE  Spec => NeverRetracted
<1>1. PlansInv /\ TrailInv /\ [Next]_vars
        => [upset' \/ trail' = Tail(trail) \/ IsPrefix(trail, trail')]_vars
  BY Continued
<1> QED BY <1>1, PlansInvariance, TrailInvariance, PTL DEF Spec, NeverRetracted

=============================================================================
