-------------------------- MODULE SchedulingDispatch --------------------------
(***************************************************************************)
(* How scheduling requests reach the scheduler.  The receiver splits a     *)
(* request by map and leaves each part in the map's one-place mailbox      *)
(* (schedulingLatest); a newer part replaces one that still waits, and a   *)
(* part that comes while the map's scheduler works is refused.  A map      *)
(* whose mailbox is filled while nobody serves it gets a job in the        *)
(* worker pool; the job takes parts out of the mailbox until it is empty.  *)
(* Meanwhile the map loader may replace the map.                           *)
(*                                                                         *)
(* Every critical section on the mailbox or the queue is one step, and so  *)
(* is each access to shared state outside it.  A worker that finds nothing *)
(* to do holds the queue's mutex until it sleeps: in between it is dozing. *)
(* What a scheduler computes is left out: it publishes a result, or        *)
(* returns without one.                                                    *)
(***************************************************************************)
EXTENDS Integers, Sequences, FiniteSets

CONSTANTS
  Request,     \* scheduling requests; each arrives once
  NoRequest,   \* no request
  Map,         \* map ids, positive numbers
  MapsOf,      \* MapsOf[r]: the sets of maps that the tasks of r may turn out to be on
  Worker,      \* threads of the pool
  MaxLoads     \* bound on how often a map is loaded

NoMap == 0

Part == Request \X (Map \cup {NoMap})

ASSUME DispatchAssumption ==
  /\ NoRequest \notin Request
  /\ Map \subseteq Nat \ {0}
  /\ IsFiniteSet(Map)
  /\ MapsOf \in [Request -> SUBSET SUBSET Map]
  /\ MaxLoads \in Nat

VARIABLES
  latest,      \* latest[m]: schedulingLatest
  active,      \* active[m]: schedulingWorkerActive
  busy,        \* busy[m]: schedulingBusy
  jobs,        \* schedulingQueue: the maps that wait for a thread of the pool
  receiver,    \* the receiver: pc, the request, the maps left, and the part it has to refuse
  worker,      \* worker[w]: pc, the map it serves, the request, the map data it works with
  loads,       \* loads[m]: how often the map was loaded; 0: not ready
  arrived,     \* history: the parts of the requests received so far
  replies,     \* history: how many results or refusals were published for a part
  silent       \* history: the parts that were given up without a word

vars == <<latest, active, busy, jobs, receiver, worker, loads, arrived, replies, silent>>

Receiver == [pc : {"idle", "slot", "submit", "notify", "refuse"}, req : Request \cup {NoRequest},
             maps : SUBSET Map, refused : Request \cup {NoRequest}]

IdleReceiver == [pc |-> "idle", req |-> NoRequest, maps |-> {}, refused |-> NoRequest]

WorkerState == [pc : {"idle", "dozing", "asleep", "loop", "taken", "busy", "called", "locked", "finish"},
                map : Map \cup {NoMap}, req : Request \cup {NoRequest}, data : 0 .. MaxLoads]

IdleWorker == [pc |-> "idle", map |-> NoMap, req |-> NoRequest, data |-> 0]

-----------------------------------------------------------------------------
(* The receiver.                                                            *)

\* The maps of a request are visited in ascending order.
CurrentMap == CHOOSE m \in receiver.maps : \A k \in receiver.maps : m <= k

\* On to the next map, or to the next message.
NextMap ==
  receiver' = IF receiver.maps = {CurrentMap} THEN IdleReceiver
              ELSE [receiver EXCEPT !.pc = "slot", !.maps = @ \ {CurrentMap},
                                    !.refused = NoRequest]

\* A message with tasks; split_scheduling_payloads_by_map finds the maps.
Receive(r, maps) ==
  /\ receiver.pc = "idle"
  /\ \A p \in arrived : p[1] # r
  /\ maps \in MapsOf[r] \ {{}}
  /\ receiver' = [IdleReceiver EXCEPT !.pc = "slot", !.req = r, !.maps = maps]
  /\ arrived' = arrived \cup {<<r, m>> : m \in maps}
  /\ UNCHANGED <<latest, active, busy, jobs, worker, loads, replies, silent>>

\* No map can be found for any task: refused at once.
RefuseUnresolved(r) ==
  /\ receiver.pc = "idle"
  /\ \A p \in arrived : p[1] # r
  /\ {} \in MapsOf[r]
  /\ arrived' = arrived \cup {<<r, NoMap>>}
  /\ replies' = [replies EXCEPT ![<<r, NoMap>>] = @ + 1]
  /\ UNCHANGED <<latest, active, busy, jobs, receiver, worker, loads, silent>>

\* Mutant: a job is started for every part, served or not.
PutMutant ==
  /\ receiver.pc = "slot"
  /\ ~busy[CurrentMap]
  /\ latest' = [latest EXCEPT ![CurrentMap] = receiver.req]
  /\ active' = [active EXCEPT ![CurrentMap] = TRUE]
  /\ receiver' = [receiver EXCEPT !.pc = "submit", !.refused = latest[CurrentMap]]
  /\ UNCHANGED <<busy, jobs, worker, loads, arrived, replies, silent>>

\* Mutant: what was in the mailbox is overwritten and forgotten.
PutForgetMutant ==
  /\ receiver.pc = "slot"
  /\ ~busy[CurrentMap]
  /\ latest' = [latest EXCEPT ![CurrentMap] = receiver.req]
  /\ active' = [active EXCEPT ![CurrentMap] = TRUE]
  /\ IF active[CurrentMap] THEN NextMap ELSE receiver' = [receiver EXCEPT !.pc = "submit"]
  /\ UNCHANGED <<busy, jobs, worker, loads, arrived, replies, silent>>

\* The mailbox takes the part; the part it held before will be refused as stale.
Put ==
  /\ receiver.pc = "slot"
  /\ ~busy[CurrentMap]
  /\ latest' = [latest EXCEPT ![CurrentMap] = receiver.req]
  /\ active' = [active EXCEPT ![CurrentMap] = TRUE]
  /\ IF active[CurrentMap] /\ latest[CurrentMap] = NoRequest
       THEN NextMap
       ELSE receiver' = [receiver EXCEPT !.pc = IF active[CurrentMap] THEN "refuse" ELSE "submit",
                                         !.refused = latest[CurrentMap]]
  /\ UNCHANGED <<busy, jobs, worker, loads, arrived, replies, silent>>

\* The map's scheduler works: the part itself will be refused.
PutBusy ==
  /\ receiver.pc = "slot"
  /\ busy[CurrentMap]
  /\ receiver' = [receiver EXCEPT !.pc = "refuse", !.refused = receiver.req]
  /\ UNCHANGED <<latest, active, busy, jobs, worker, loads, arrived, replies, silent>>

\* Nobody holds the queue's mutex between its look at the queue and its sleep.
QueueFree == \A w \in Worker : worker[w].pc # "dozing"

\* A job for the map goes into the queue of the pool ...
Submit ==
  /\ receiver.pc = "submit"
  /\ QueueFree
  /\ jobs' = Append(jobs, CurrentMap)
  /\ receiver' = [receiver EXCEPT !.pc = "notify"]
  /\ UNCHANGED <<latest, active, busy, worker, loads, arrived, replies, silent>>

\* ... and, the mutex left, a worker that sleeps is woken, if there is one.
Notify ==
  /\ receiver.pc = "notify"
  /\ IF \E w \in Worker : worker[w].pc = "asleep"
       THEN \E w \in Worker : /\ worker[w].pc = "asleep"
                              /\ worker' = [worker EXCEPT ![w].pc = "idle"]
       ELSE UNCHANGED worker
  /\ IF receiver.refused = NoRequest
       THEN NextMap
       ELSE receiver' = [receiver EXCEPT !.pc = "refuse"]
  /\ UNCHANGED <<latest, active, busy, jobs, loads, arrived, replies, silent>>

\* publish_rejected_allocation: busy_request or stale_request.
Refuse ==
  /\ receiver.pc = "refuse"
  /\ replies' = [replies EXCEPT ![<<receiver.refused, CurrentMap>>] = @ + 1]
  /\ NextMap
  /\ UNCHANGED <<latest, active, busy, jobs, worker, loads, arrived, silent>>

-----------------------------------------------------------------------------
(* The workers.                                                             *)

At(w, label) == worker[w].pc = label

MapOf(w) == worker[w].map

PartOf(w) == <<worker[w].req, worker[w].map>>

Goto(w, label) == worker' = [worker EXCEPT ![w].pc = label]

\* Mutant: a worker that comes back waits to be woken before it looks at the queue.
DozeMutant(w) ==
  /\ At(w, "idle")
  /\ QueueFree
  /\ Goto(w, "dozing")
  /\ UNCHANGED <<latest, active, busy, jobs, receiver, loads, arrived, replies, silent>>

\* The predicate of the wait is false ...
Doze(w) ==
  /\ At(w, "idle")
  /\ QueueFree
  /\ jobs = <<>>
  /\ Goto(w, "dozing")
  /\ UNCHANGED <<latest, active, busy, jobs, receiver, loads, arrived, replies, silent>>

\* ... and the wait begins and frees the mutex.
Sleep(w) ==
  /\ At(w, "dozing")
  /\ Goto(w, "asleep")
  /\ UNCHANGED <<latest, active, busy, jobs, receiver, loads, arrived, replies, silent>>

\* A condition variable may wake a thread for no reason; with no job the thread would
\* only test and sleep again.
WakeUp(w) ==
  /\ At(w, "asleep")
  /\ jobs # <<>>
  /\ Goto(w, "idle")
  /\ UNCHANGED <<latest, active, busy, jobs, receiver, loads, arrived, replies, silent>>

TakeJob(w) ==
  /\ At(w, "idle")
  /\ QueueFree
  /\ jobs # <<>>
  /\ worker' = [worker EXCEPT ![w] = [IdleWorker EXCEPT !.pc = "loop", !.map = Head(jobs)]]
  /\ jobs' = Tail(jobs)
  /\ UNCHANGED <<latest, active, busy, receiver, loads, arrived, replies, silent>>

\* Mutant: the mailbox keeps what was taken.
TakePartMutant(w) ==
  /\ At(w, "loop")
  /\ latest[MapOf(w)] # NoRequest
  /\ worker' = [worker EXCEPT ![w].pc = "taken", ![w].req = latest[MapOf(w)]]
  /\ UNCHANGED <<latest, active, busy, jobs, receiver, loads, arrived, replies, silent>>

\* Mutant: taken without asking whether there is anything to take.
TakePartUnaskedMutant(w) ==
  /\ At(w, "loop")
  /\ worker' = [worker EXCEPT ![w].pc = "taken", ![w].req = latest[MapOf(w)]]
  /\ latest' = [latest EXCEPT ![MapOf(w)] = NoRequest]
  /\ UNCHANGED <<active, busy, jobs, receiver, loads, arrived, replies, silent>>

TakePart(w) ==
  /\ At(w, "loop")
  /\ latest[MapOf(w)] # NoRequest
  /\ worker' = [worker EXCEPT ![w].pc = "taken", ![w].req = latest[MapOf(w)]]
  /\ latest' = [latest EXCEPT ![MapOf(w)] = NoRequest]
  /\ UNCHANGED <<active, busy, jobs, receiver, loads, arrived, replies, silent>>

\* The mailbox is empty: the job ends, in the critical section that saw it empty.
EndJob(w) ==
  /\ At(w, "loop")
  /\ latest[MapOf(w)] = NoRequest
  /\ active' = [active EXCEPT ![MapOf(w)] = FALSE]
  /\ worker' = [worker EXCEPT ![w] = IdleWorker]
  /\ UNCHANGED <<latest, busy, jobs, receiver, loads, arrived, replies, silent>>

\* schedulingBusy is set after the mailbox was left.
SetBusy(w) ==
  /\ At(w, "taken")
  /\ busy' = [busy EXCEPT ![MapOf(w)] = TRUE]
  /\ Goto(w, "busy")
  /\ UNCHANGED <<latest, active, jobs, receiver, loads, arrived, replies, silent>>

\* The call: *ctx->mapInfoPtr is taken as an argument, before the map's lock.
Call(w) ==
  /\ At(w, "busy")
  /\ worker' = [worker EXCEPT ![w].pc = "called", ![w].data = loads[MapOf(w)]]
  /\ UNCHANGED <<latest, active, busy, jobs, receiver, loads, arrived, replies, silent>>

\* The request's time stamp is not trusted: return without a result.
Distrust(w) ==
  /\ At(w, "called")
  /\ silent' = silent \cup {PartOf(w)}
  /\ Goto(w, "finish")
  /\ UNCHANGED <<latest, active, busy, jobs, receiver, loads, arrived, replies>>

\* The map's lock is taken for reading.
LockMap(w) ==
  /\ At(w, "called")
  /\ Goto(w, "locked")
  /\ UNCHANGED <<latest, active, busy, jobs, receiver, loads, arrived, replies, silent>>

\* The map is not ready, an exception is thrown, or the result cannot be sent.
GiveUp(w) ==
  /\ At(w, "locked")
  /\ silent' = silent \cup {PartOf(w)}
  /\ Goto(w, "finish")
  /\ UNCHANGED <<latest, active, busy, jobs, receiver, loads, arrived, replies>>

Publish(w) ==
  /\ At(w, "locked")
  /\ loads[MapOf(w)] > 0
  /\ replies' = [replies EXCEPT ![PartOf(w)] = @ + 1]
  /\ Goto(w, "finish")
  /\ UNCHANGED <<latest, active, busy, jobs, receiver, loads, arrived, silent>>

\* The guard's destructor; back to the mailbox.
ClearBusy(w) ==
  /\ At(w, "finish")
  /\ busy' = [busy EXCEPT ![MapOf(w)] = FALSE]
  /\ worker' = [worker EXCEPT ![w] = [IdleWorker EXCEPT !.pc = "loop", !.map = MapOf(w)]]
  /\ UNCHANGED <<latest, active, jobs, receiver, loads, arrived, replies, silent>>

-----------------------------------------------------------------------------

\* reload_context_map_payload replaces the map under its lock.
LoadMap(m) ==
  /\ loads[m] < MaxLoads
  /\ \A w \in Worker : ~(At(w, "locked") /\ MapOf(w) = m)
  /\ loads' = [loads EXCEPT ![m] = @ + 1]
  /\ UNCHANGED <<latest, active, busy, jobs, receiver, worker, arrived, replies, silent>>

ReceiverStep == Put \/ PutBusy \/ Submit \/ Notify \/ Refuse

WorkerStep(w) ==
  \/ Doze(w) \/ Sleep(w) \/ TakeJob(w) \/ TakePart(w) \/ EndJob(w) \/ SetBusy(w)
  \/ Call(w) \/ Distrust(w) \/ LockMap(w) \/ GiveUp(w) \/ Publish(w) \/ ClearBusy(w)

Init ==
  /\ latest = [m \in Map |-> NoRequest]
  /\ active = [m \in Map |-> FALSE]
  /\ busy = [m \in Map |-> FALSE]
  /\ jobs = <<>>
  /\ receiver = IdleReceiver
  /\ worker = [w \in Worker |-> IdleWorker]
  /\ loads = [m \in Map |-> 0]
  /\ arrived = {}
  /\ replies = [p \in Part |-> 0]
  /\ silent = {}

Next ==
  \/ \E r \in Request : RefuseUnresolved(r) \/ \E maps \in SUBSET Map : Receive(r, maps)
  \/ ReceiverStep
  \/ \E w \in Worker : WorkerStep(w) \/ WakeUp(w)
  \/ \E m \in Map : LoadMap(m)

Spec == Init /\ [][Next]_vars

\* Threads are scheduled, and a scheduler's computation comes to an end; messages and
\* maps need not come.
FairSpec == Spec /\ WF_vars(ReceiverStep) /\ \A w \in Worker : WF_vars(WorkerStep(w))

-----------------------------------------------------------------------------
(* Properties.                                                              *)

Serving(w) == worker[w].pc \notin {"idle", "dozing", "asleep"}

Working(w) == worker[w].pc \in {"taken", "busy", "called", "locked", "finish"}

\* Type invariant of the mailboxes, the receiver and the pool.
TypeOK ==
  /\ latest \in [Map -> Request \cup {NoRequest}]
  /\ active \in [Map -> BOOLEAN]
  /\ busy \in [Map -> BOOLEAN]
  /\ jobs \in Seq(Map)
  /\ receiver \in Receiver
  /\ receiver.pc # "idle" => receiver.req \in Request /\ receiver.maps # {}
  /\ receiver.pc = "refuse" => receiver.refused \in Request
  /\ worker \in [Worker -> WorkerState]
  /\ \A w \in Worker : /\ Serving(w) <=> MapOf(w) \in Map
                       /\ Working(w) <=> worker[w].req \in Request
  /\ loads \in [Map -> 0 .. MaxLoads]
  /\ arrived \subseteq Part
  /\ replies \in [Part -> Nat]
  /\ silent \subseteq Part

\* Who serves map m, or is going to: the receiver that has to submit the job, a job in
\* the queue, a worker.
Servers(m) ==
  {<<"receiver", r>> : r \in {r \in {receiver.req} : receiver.pc = "submit" /\ CurrentMap = m}}
  \cup {<<"job", i>> : i \in {i \in DOMAIN jobs : jobs[i] = m}}
  \cup {<<"worker", w>> : w \in {w \in Worker : MapOf(w) = m}}

\* A map marked as served has exactly one server and any other map none: two schedulers
\* never work on one map, and the busy flag is never cleared under a working one.
OneServerPerMap ==
  \A m \in Map :
    /\ Cardinality(Servers(m)) = IF active[m] THEN 1 ELSE 0
    /\ busy[m] => \E w \in Worker : MapOf(w) = m /\ Working(w)

\* The places a part of a request can be at.
Places(p) ==
  {x \in {"receiver", "refused", "mailbox", "replied", "silent"} :
     CASE x = "receiver" -> receiver.pc = "slot" /\ receiver.req = p[1] /\ p[2] \in receiver.maps
       [] x = "refused"  -> receiver.refused = p[1] /\ CurrentMap = p[2]
       [] x = "mailbox"  -> p[2] \in Map /\ latest[p[2]] = p[1]
       [] x = "replied"  -> replies[p] > 0
       [] x = "silent"   -> p \in silent}
  \cup {<<"later", r>> : r \in {r \in {receiver.req} :
          /\ receiver.pc \in {"submit", "notify", "refuse"}
          /\ r = p[1] /\ p[2] \in receiver.maps \ {CurrentMap}}}
  \cup {<<"worker", w>> : w \in {w \in Worker : Working(w) /\ ~At(w, "finish") /\ PartOf(w) = p}}

\* A part of a request is at one place at a time and never disappears: it waits, is
\* worked on, is to be refused, or was answered, or given up, for good.
NothingLost == \A p \in arrived : Cardinality(Places(p)) = 1

\* No part is answered twice, as a stale request and with a result, say.
AnsweredOnce == \A p \in Part : replies[p] <= 1

Settled(p) == replies[p] > 0 \/ p \in silent

\* Every part of every request is settled in the end: nothing stays in a mailbox that
\* nobody serves, and no job in the queue while all workers sleep.
EverySettled == \A p \in Part : p \in arrived ~> Settled(p)

=============================================================================
