---------------------------- MODULE QueryWorker -----------------------------
(***************************************************************************)
(* The in-process query queue (QueueChannel) and the worker that drains it *)
(* (QueryWorker) in server and desktop mode.  The channel holds messages   *)
(* no loop has asked for (queue) and the resolvers of the loops that asked *)
(* when there was nothing to give (waiting).  start() spawns processLoop   *)
(* calls; each asks for a message, executes it, yields to the event loop   *)
(* and calls itself again, re-reading the running flag after every await.  *)
(*                                                                         *)
(* A step of this module is the code between two awaits.  What executing a *)
(* message does is left to AsyncQueryServer.                               *)
(***************************************************************************)
EXTENDS Integers, Sequences, FiniteSets, Functions

CONSTANTS
  Jobs,         \* job ids; submitAsyncQuery draws them with randomUUID
  Loops,        \* processLoop call chains the process may ever spawn (a bound)
  Concurrency,  \* ASYNC_QUERY_WORKER_CONCURRENCY, any number an operator sets
  NoJob         \* the value of `held` for a loop without a message

ASSUME JobsAssumption == NoJob \notin Jobs
ASSUME LoopsAssumption == IsFiniteSet(Loops)
ASSUME ConcurrencyAssumption == Concurrency \in Int

VARIABLES
  queue,    \* QueueChannel.queue: job ids, oldest first
  waiting,  \* QueueChannel.waiting: the loops whose dequeue() is unresolved
  running,  \* QueryWorker.running
  pc,       \* pc[l]: the await loop l is suspended at
  held      \* held[l]: the message dequeue() resolved with, while l uses it

vars == <<queue, waiting, running, pc, held>>

LoopState ==
  {"unborn",     \* not spawned
   "top",        \* about to enter processLoop
   "parked",     \* awaiting dequeue(), its resolver is in `waiting`
   "holding",    \* dequeue() resolved, the loop has not resumed yet
   "executing",  \* awaiting executor.execute()
   "resting",    \* execute() settled
   "ended"}      \* returned because the worker was not running

Carrying == {"holding", "executing"}

\* Messages in the hands of a loop, and all messages in the process.
InHand == {held[l] : l \in {k \in Loops : pc[k] \in Carrying}}
InSystem == Range(queue) \cup InHand

\* Math.max(1, Math.floor(this.concurrency))
WorkerCount == IF Concurrency < 1 THEN 1 ELSE Concurrency

TypeOK ==
  /\ queue \in Seq(Jobs)
  /\ waiting \in Seq(Loops)
  /\ running \in BOOLEAN
  /\ pc \in [Loops -> LoopState]
  /\ held \in [Loops -> Jobs \cup {NoJob}]

Init ==
  /\ queue = <<>>
  /\ waiting = <<>>
  /\ running = FALSE
  /\ pc = [l \in Loops |-> "unborn"]
  /\ held = [l \in Loops |-> NoJob]

-----------------------------------------------------------------------------
\* Mutants: plausible bugs, used only to show that the properties notice them.

\* push() appends although a loop waits.
Enqueue_NoHandOff(j) ==
  /\ j \notin InSystem
  /\ queue' = Append(queue, j)
  /\ UNCHANGED <<waiting, running, pc, held>>

\* push() appends the message to the wrong array.
Enqueue_WrongArray(j) ==
  /\ j \notin InSystem
  /\ waiting' = Append(waiting, j)
  /\ UNCHANGED <<queue, running, pc, held>>

\* push() resolves the first waiter and leaves its resolver in the array.
Enqueue_KeepsResolver(j) ==
  /\ j \notin InSystem
  /\ \/ /\ waiting # <<>>
        /\ pc' = [pc EXCEPT ![Head(waiting)] = "holding"]
        /\ held' = [held EXCEPT ![Head(waiting)] = j]
        /\ UNCHANGED <<queue, waiting>>
     \/ /\ waiting = <<>>
        /\ queue' = Append(queue, j)
        /\ UNCHANGED <<waiting, pc, held>>
  /\ UNCHANGED running

\* pop() takes the newest message (Array.pop for Array.shift).
Dequeue_Newest(l) ==
  /\ pc[l] = "top"
  /\ running
  /\ queue # <<>>
  /\ queue' = SubSeq(queue, 1, Len(queue) - 1)
  /\ pc' = [pc EXCEPT ![l] = "holding"]
  /\ held' = [held EXCEPT ![l] = queue[Len(queue)]]
  /\ UNCHANGED <<waiting, running>>

\* pop() reads the first message without removing it.
Dequeue_Peeks(l) ==
  /\ pc[l] = "top"
  /\ running
  /\ queue # <<>>
  /\ pc' = [pc EXCEPT ![l] = "holding"]
  /\ held' = [held EXCEPT ![l] = Head(queue)]
  /\ UNCHANGED <<queue, waiting, running>>

\* The catch block of processLoop ends the loop.
Continue_EndsLoop(l) ==
  /\ pc[l] = "resting"
  /\ pc' = [pc EXCEPT ![l] = "ended"]
  /\ UNCHANGED <<queue, waiting, running, held>>

-----------------------------------------------------------------------------
\* QueueChannel.push: the oldest waiter gets the message, else it is queued.
Enqueue(j) ==
  /\ j \notin InSystem
  /\ \/ /\ waiting # <<>>
        /\ waiting' = Tail(waiting)
        /\ pc' = [pc EXCEPT ![Head(waiting)] = "holding"]
        /\ held' = [held EXCEPT ![Head(waiting)] = j]
        /\ UNCHANGED queue
     \/ /\ waiting = <<>>
        /\ queue' = Append(queue, j)
        /\ UNCHANGED <<waiting, pc, held>>
  /\ UNCHANGED running

\* start(): nothing keeps a second call, or a call after stop(), from adding
\* loops to those that still exist.
Start ==
  /\ running' = TRUE
  /\ \E fresh \in SUBSET {l \in Loops : pc[l] = "unborn"} :
       /\ Cardinality(fresh) = WorkerCount
       /\ pc' = [l \in Loops |-> IF l \in fresh THEN "top" ELSE pc[l]]
  /\ UNCHANGED <<queue, waiting, held>>

Stop ==
  /\ running
  /\ running' = FALSE
  /\ UNCHANGED <<queue, waiting, pc, held>>

\* processLoop is entered and the worker is not running.
Quit(l) ==
  /\ pc[l] = "top"
  /\ ~running
  /\ pc' = [pc EXCEPT ![l] = "ended"]
  /\ UNCHANGED <<queue, waiting, running, held>>

\* QueueChannel.pop finds a message ...
Dequeue(l) ==
  /\ pc[l] = "top"
  /\ running
  /\ queue # <<>>
  /\ queue' = Tail(queue)
  /\ pc' = [pc EXCEPT ![l] = "holding"]
  /\ held' = [held EXCEPT ![l] = Head(queue)]
  /\ UNCHANGED <<waiting, running>>

\* ... or leaves a resolver behind.
Park(l) ==
  /\ pc[l] = "top"
  /\ running
  /\ queue = <<>>
  /\ waiting' = Append(waiting, l)
  /\ pc' = [pc EXCEPT ![l] = "parked"]
  /\ UNCHANGED <<queue, running, held>>

\* The loop resumes with a message and calls executor.execute.
Begin(l) ==
  /\ pc[l] = "holding"
  /\ running
  /\ pc' = [pc EXCEPT ![l] = "executing"]
  /\ UNCHANGED <<queue, waiting, running, held>>

\* The loop resumes with a message after stop(): it returns, and the message,
\* already taken from the queue, is gone.
Drop(l) ==
  /\ pc[l] = "holding"
  /\ ~running
  /\ pc' = [pc EXCEPT ![l] = "ended"]
  /\ held' = [held EXCEPT ![l] = NoJob]
  /\ UNCHANGED <<queue, waiting, running>>

\* executor.execute settles, either way.
Finish(l) ==
  /\ pc[l] = "executing"
  /\ pc' = [pc EXCEPT ![l] = "resting"]
  /\ held' = [held EXCEPT ![l] = NoJob]
  /\ UNCHANGED <<queue, waiting, running>>

\* The end of the try block and the catch block: call processLoop again after
\* setImmediate, unless the worker was stopped.
Continue(l) ==
  /\ pc[l] = "resting"
  /\ pc' = [pc EXCEPT ![l] = IF running THEN "top" ELSE "ended"]
  /\ UNCHANGED <<queue, waiting, running, held>>

\* The process ends; the next one starts with fresh memory.
Reboot ==
  /\ queue' = <<>>
  /\ waiting' = <<>>
  /\ running' = FALSE
  /\ pc' = [l \in Loops |-> "unborn"]
  /\ held' = [l \in Loops |-> NoJob]

LoopStep(l) ==
  \/ Quit(l)
  \/ Dequeue(l)
  \/ Park(l)
  \/ Begin(l)
  \/ Drop(l)
  \/ Finish(l)
  \/ Continue(l)

Next ==
  \/ \E j \in Jobs : Enqueue(j)
  \/ \E l \in Loops : LoopStep(l)
  \/ Start
  \/ Stop
  \/ Reboot

\* A loop that can resume does: its promises are settled and the event loop
\* runs their reactions; a query is assumed to end, execute() has no timeout.
Fairness == \A l \in Loops : WF_vars(LoopStep(l))

SafetySpec == Init /\ [][Next]_vars
Spec == SafetySpec /\ Fairness
-----------------------------------------------------------------------------
\* The resolvers in `waiting` are those of the parked loops, each once: a
\* resolver called twice, or one whose loop moved on, would swallow a message.
WaitersAreParked ==
  /\ IsInjective(waiting)
  /\ Range(waiting) = {l \in Loops : pc[l] = "parked"}

\* No lost wake-up: a message never sits in the queue while a loop waits for
\* one (push serves waiters first, pop waits only on an empty queue).
NoIdleLoopWhileQueued == queue = <<>> \/ waiting = <<>>

\* A message is in one place: once in the queue, or in the hands of one loop.
OnePlace ==
  /\ IsInjective(queue)
  /\ \A l \in Loops : pc[l] \in Carrying <=> held[l] # NoJob
  /\ \A k, l \in Loops : held[k] = held[l] /\ held[k] # NoJob => k = l
  /\ \A l \in Loops : held[l] \notin Range(queue)

\* Jobs are taken up in the order of enqueue() and by one loop each: queue and
\* loops implement FifoDispatch.
F == INSTANCE FifoDispatch WITH pending <- queue, active <- InHand
TakenInOrder == F!Spec

\* While the worker runs, every queued message is eventually taken by a loop.
QueuedIsTaken ==
  \A j \in Jobs :
    running /\ j \in Range(queue) ~> ~running \/ j \notin Range(queue)
=============================================================================
