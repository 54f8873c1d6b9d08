------------------------ MODULE ShortestPathUpdater -------------------------
(***************************************************************************)
(* ShortestPathUpdater: a table of travel times for one scheduling request.*)
(* A query answers from the table; a time that is not known is queued for  *)
(* the worker threads, and the caller goes on with an approximation.       *)
(*                                                                         *)
(* The client is the thread that serves the request: it creates the        *)
(* updater, asks, and destroys it.  The table and the queue have a mutex   *)
(* each; a critical section is one step.  A worker holds the queue's mutex *)
(* while it looks at the queue and from there until it sleeps: in between  *)
(* it is dozing.  shouldExit is an atomic that no mutex guards.            *)
(*                                                                         *)
(* The searches read nothing that changes, so each is part of the step     *)
(* that writes its result.                                                 *)
(***************************************************************************)
EXTENDS Integers, Sequences, SequencesExt, FiniteSets

CONSTANTS
  Node,            \* indices of the nodes
  Worker,          \* the threads of the pool
  Asked,           \* the pairs that are asked for
  MaxCalls,        \* bound on how many questions are asked
  Valid,           \* Valid[s, e]: isPathValid
  Batch,           \* Batch[s, e]: what batchQueryByNodeId may find for one target
  Found            \* Found[s, e]: what shortestPathFinder may find

UNCALCULATED == -1
UNREACHABLE == -2

Known == Nat \cup {UNREACHABLE}

ASSUME UpdaterAssumption ==
  /\ Node \subseteq Nat
  /\ Asked \subseteq Node \X Node
  /\ MaxCalls \in Nat
  /\ Valid \in [Node \X Node -> BOOLEAN]
  /\ Batch \in [Node \X Node -> (SUBSET Known) \ {{}}]
  /\ Found \in [Node \X Node -> (SUBSET Known) \ {{}}]
  /\ \A pair \in Node \X Node : pair[1] # pair[2] => 0 \notin Batch[pair] \cup Found[pair]
  /\ Worker # {}

NoRow == <<>>

VARIABLES
  matrix,      \* distanceMatrix: a row is made when its start is first asked for
  queue,       \* queryQueue
  worker,      \* worker[w]: pc and the pair it searches for
  client,      \* pc, kind of question, and the pair asked for
  shouldExit,
  calls        \* how many questions were asked

vars == <<matrix, queue, worker, client, shouldExit, calls>>

NoPair == <<0, 0>>

WorkerState == [pc : {"awake", "dozing", "asleep", "searching", "exited"},
                pair : Node \X Node \cup {NoPair}]

ClientState == [pc : {"idle", "row", "batch", "read", "deny", "enqueue", "notify", "value", "poll",
                      "exiting", "leaving", "destroy", "joining", "done"},
                wait : BOOLEAN, pair : Node \X Node \cup {NoPair}]

Value(pair) == matrix[pair[1]][pair[2]]

Set(pair, v) == matrix' = [matrix EXCEPT ![pair[1]][pair[2]] = v]

\* A time of zero, from a node to itself, does not count as known.
Usable(v) == v = UNREACHABLE \/ v > 0

\* No worker is between its look at the queue and its sleep.
QueueFree == \A w \in Worker : worker[w].pc # "dozing"

GotoClient(pc) == client' = [client EXCEPT !.pc = pc]

-----------------------------------------------------------------------------
(* The client.                                                              *)

\* queryByNodeId, or TravelSecondsWithWait, which runs a batch and then polls.
Ask(pair, wait) ==
  /\ client.pc = "idle"
  /\ calls < MaxCalls
  /\ client' = [pc |-> "row", wait |-> wait, pair |-> pair]
  /\ calls' = calls + 1
  /\ UNCHANGED <<matrix, queue, worker, shouldExit>>

\* Mutant: the row gets only the column asked for.
EnsureRowMutant ==
  LET s == client.pair[1] IN
  /\ client.pc = "row"
  /\ matrix' = IF matrix[s] # NoRow THEN matrix
               ELSE [matrix EXCEPT ![s] = [n \in {client.pair[2]} |-> UNCALCULATED]]
  /\ GotoClient(IF client.wait THEN "batch" ELSE "read")
  /\ UNCHANGED <<queue, worker, shouldExit, calls>>

\* ensureRowAllocated.
EnsureRow ==
  LET s == client.pair[1] IN
  /\ client.pc = "row"
  /\ matrix' = IF matrix[s] # NoRow THEN matrix
               ELSE [matrix EXCEPT ![s] = [n \in Node |-> UNCALCULATED]]
  /\ GotoClient(IF client.wait THEN "batch" ELSE "read")
  /\ UNCHANGED <<queue, worker, shouldExit, calls>>

\* Mutant: a target that was not reached is left as it is.
RunBatchMutant ==
  /\ client.pc = "batch"
  /\ \E v \in Batch[client.pair] :
       IF v = UNREACHABLE THEN UNCHANGED matrix ELSE Set(client.pair, v)
  /\ GotoClient("read")
  /\ UNCHANGED <<queue, worker, shouldExit, calls>>

\* batchQueryByNodeId.
RunBatch ==
  /\ client.pc = "batch"
  /\ \E v \in Batch[client.pair] : Set(client.pair, v)
  /\ GotoClient("read")
  /\ UNCHANGED <<queue, worker, shouldExit, calls>>

\* query: from the table if it can.
ReadCache ==
  /\ client.pc = "read"
  /\ GotoClient(IF Usable(Value(client.pair)) THEN "value"
                ELSE IF Valid[client.pair] THEN "enqueue" ELSE "deny")
  /\ UNCHANGED <<matrix, queue, worker, shouldExit, calls>>

\* The pair is not even connected.
Deny ==
  /\ client.pc = "deny"
  /\ Set(client.pair, UNREACHABLE)
  /\ GotoClient("value")
  /\ UNCHANGED <<queue, worker, shouldExit, calls>>

\* A pair that waits already is not queued again.
Enqueue ==
  /\ client.pc = "enqueue"
  /\ QueueFree
  /\ queue' = IF client.pair \in Range(queue) THEN queue ELSE Append(queue, client.pair)
  /\ GotoClient("notify")
  /\ UNCHANGED <<matrix, worker, shouldExit, calls>>

\* notify_one wakes a worker that sleeps, if there is one.
NotifyOne ==
  /\ client.pc = "notify"
  /\ IF \E w \in Worker : worker[w].pc = "asleep"
     THEN \E w \in Worker : /\ worker[w].pc = "asleep"
                            /\ worker' = [worker EXCEPT ![w].pc = "awake"]
     ELSE UNCHANGED worker
  /\ GotoClient("value")
  /\ UNCHANGED <<matrix, queue, shouldExit, calls>>

\* queryByNodeId answers with what the table holds now.
Answer ==
  /\ client.pc = "value"
  /\ GotoClient(IF client.wait /\ ~Usable(Value(client.pair)) THEN "poll" ELSE "idle")
  /\ UNCHANGED <<matrix, queue, worker, shouldExit, calls>>

\* TravelSecondsWithWait asks again until its time is up; then the pair counts as
\* unreachable.
Poll ==
  /\ client.pc = "poll"
  /\ GotoClient("read") \/ GotoClient("idle")
  /\ UNCHANGED <<matrix, queue, worker, shouldExit, calls>>

\* The end of the request: requestExit, which wakes nobody ...
RequestExit ==
  /\ client.pc = "idle"
  /\ shouldExit' = TRUE
  /\ GotoClient("exiting")
  /\ UNCHANGED <<matrix, queue, worker, calls>>

\* Mutant: a number is read without its mutex.
GetActiveWorkersMutant ==
  /\ client.pc = "exiting"
  /\ GotoClient("leaving")
  /\ UNCHANGED <<matrix, queue, worker, shouldExit, calls>>

\* ... and getActiveWorkers, which waits for the queue's mutex.  It is asked 200 times, for
\* the number never becomes zero; but after the first time no worker dozes any more.
GetActiveWorkers ==
  /\ client.pc = "exiting"
  /\ QueueFree
  /\ GotoClient("leaving")
  /\ UNCHANGED <<matrix, queue, worker, shouldExit, calls>>

\* Without requestExit: an exception, or an updater that the filter, or an emergency, makes
\* for its own use.
Unwind ==
  /\ client.pc = "idle"
  /\ GotoClient("leaving")
  /\ UNCHANGED <<matrix, queue, worker, shouldExit, calls>>

Destroy ==
  /\ client.pc = "leaving"
  /\ shouldExit' = TRUE
  /\ GotoClient("destroy")
  /\ UNCHANGED <<matrix, queue, worker, calls>>

\* notify_all reaches those that sleep, not one that is about to.
NotifyAll ==
  /\ client.pc = "destroy"
  /\ worker' = [w \in Worker |-> IF worker[w].pc = "asleep" THEN [worker[w] EXCEPT !.pc = "awake"]
                                 ELSE worker[w]]
  /\ GotoClient("joining")
  /\ UNCHANGED <<matrix, queue, shouldExit, calls>>

Join ==
  /\ client.pc = "joining"
  /\ \A w \in Worker : worker[w].pc = "exited"
  /\ GotoClient("done")
  /\ UNCHANGED <<matrix, queue, worker, shouldExit, calls>>

-----------------------------------------------------------------------------
(* A worker.                                                                *)

\* Mutant: a search is over when it has been taken.
TakeMutant(w) ==
  /\ worker[w].pc = "awake"
  /\ QueueFree
  /\ queue # <<>>
  /\ queue' = Tail(queue)
  /\ worker' = [worker EXCEPT ![w] = [pc |-> "awake", pair |-> NoPair]]
  /\ UNCHANGED <<matrix, client, shouldExit, calls>>

Take(w) ==
  /\ worker[w].pc = "awake"
  /\ QueueFree
  /\ queue # <<>>
  /\ queue' = Tail(queue)
  /\ worker' = [worker EXCEPT ![w] = [pc |-> "searching", pair |-> Head(queue)]]
  /\ UNCHANGED <<matrix, client, shouldExit, calls>>

\* Mutant: an exit does not wait for the queue.
ExitMutant(w) ==
  /\ worker[w].pc = "awake"
  /\ QueueFree
  /\ shouldExit
  /\ worker' = [worker EXCEPT ![w].pc = "exited"]
  /\ UNCHANGED <<matrix, queue, client, shouldExit, calls>>

\* What is queued is searched for even when nobody will ask any more.
Exit(w) ==
  /\ worker[w].pc = "awake"
  /\ QueueFree
  /\ queue = <<>>
  /\ shouldExit
  /\ worker' = [worker EXCEPT ![w].pc = "exited"]
  /\ UNCHANGED <<matrix, queue, client, shouldExit, calls>>

\* The predicate of the wait is false ...
Doze(w) ==
  /\ worker[w].pc = "awake"
  /\ QueueFree
  /\ queue = <<>>
  /\ ~shouldExit
  /\ worker' = [worker EXCEPT ![w].pc = "dozing"]
  /\ UNCHANGED <<matrix, queue, client, shouldExit, calls>>

\* ... and the wait begins and frees the mutex.
Sleep(w) ==
  /\ worker[w].pc = "dozing"
  /\ worker' = [worker EXCEPT ![w].pc = "asleep"]
  /\ UNCHANGED <<matrix, queue, client, shouldExit, calls>>

\* A condition variable may wake a thread for no reason.
WakeUp(w) ==
  /\ worker[w].pc = "asleep"
  /\ worker' = [worker EXCEPT ![w].pc = "awake"]
  /\ UNCHANGED <<matrix, queue, client, shouldExit, calls>>

\* Mutant: the worker waits to be woken before it looks at the queue again.
SearchMutant(w) ==
  LET pair == worker[w].pair IN
  /\ worker[w].pc = "searching"
  /\ \E v \in Found[pair] : Set(pair, v)
  /\ worker' = [worker EXCEPT ![w] = [pc |-> "asleep", pair |-> NoPair]]
  /\ UNCHANGED <<queue, client, shouldExit, calls>>

\* The end of shortestPathFinder, or of the search by an exception.
Search(w) ==
  LET pair == worker[w].pair IN
  /\ worker[w].pc = "searching"
  /\ \E v \in Found[pair] : Set(pair, v)
  /\ worker' = [worker EXCEPT ![w] = [pc |-> "awake", pair |-> NoPair]]
  /\ UNCHANGED <<queue, client, shouldExit, calls>>

-----------------------------------------------------------------------------

\* The constructor has started the workers and initializeMatrix has been called.
Init ==
  /\ matrix = [n \in Node |-> NoRow]
  /\ queue = <<>>
  /\ worker = [w \in Worker |-> [pc |-> "awake", pair |-> NoPair]]
  /\ client = [pc |-> "idle", wait |-> FALSE, pair |-> NoPair]
  /\ shouldExit = FALSE
  /\ calls = 0

\* A call goes on to its end.
CallStep == EnsureRow \/ RunBatch \/ ReadCache \/ Deny \/ Enqueue \/ NotifyOne \/ Answer \/ Poll

EndStep == GetActiveWorkers \/ Destroy \/ NotifyAll \/ Join

WorkerStep(w) == Take(w) \/ Exit(w) \/ Doze(w) \/ Sleep(w) \/ Search(w)

Next ==
  \/ \E pair \in Asked, wait \in BOOLEAN : Ask(pair, wait)
  \/ CallStep
  \/ RequestExit
  \/ Unwind
  \/ EndStep
  \/ \E w \in Worker : WorkerStep(w) \/ WakeUp(w)

Spec == Init /\ [][Next]_vars

\* Threads are scheduled, and a call that has begun goes on.
FairSpec ==
  /\ Spec
  /\ WF_vars(CallStep)
  /\ WF_vars(EndStep)
  /\ \A w \in Worker : WF_vars(WorkerStep(w))

-----------------------------------------------------------------------------

\* Rows are made whole, and threads and client are where they can be.
TypeOK ==
  /\ matrix \in [Node -> {NoRow} \cup [Node -> Known \cup {UNCALCULATED}]]
  /\ queue \in Seq(Node \X Node)
  /\ worker \in [Worker -> WorkerState]
  /\ client \in ClientState
  /\ shouldExit \in BOOLEAN
  /\ calls \in 0 .. MaxCalls

\* No wakeup of a query is lost: while a pair waits in the queue, some worker is awake or
\* will come back from a search, or the client is about to wake one.
QueueIsServed ==
  queue # <<>> => \/ client.pc = "notify"
                  \/ \E w \in Worker : worker[w].pc \in {"awake", "searching"}

\* When the destructor returns, every pair that was queued has been searched for.
DrainedAtEnd == client.pc = "done" => queue = <<>>

\* TravelSecondsWithWait never has to wait for a worker: its batch has settled the pair,
\* unless the pair is a node and itself, whose time of zero is never taken for known.
WaitsOnlyAtHome == client.pc = "poll" => client.pair[1] = client.pair[2]

Settled(pair) == matrix[pair[1]] # NoRow /\ Value(pair) # UNCALCULATED

\* A pair that was queued gets a time, or the verdict that there is none.
EveryPairSettled ==
  \A pair \in Asked : pair \in Range(queue) ~> Settled(pair)

\* A request that asks its workers to exit first does come to its end: to read how many are
\* active it takes the queue's mutex, so none is left between its look at the flag and its
\* sleep when the destructor notifies.
RequestedExitReturns == client.pc = "exiting" ~> client.pc = "done"

\* The destructor wakes the workers and returns.
DestructorReturns == client.pc = "joining" ~> client.pc = "done"

=============================================================================
