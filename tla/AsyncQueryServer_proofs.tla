----------------------- MODULE AsyncQueryServer_proofs ----------------------
(***************************************************************************)
(* Proofs about AsyncQueryServer, for any number of jobs, clients, loops   *)
(* and restarts.  The server drives its queue and worker as QueryWorker    *)
(* says, so what QueryWorker_proofs shows of them holds here; on top of it *)
(* comes an invariant that relates where a job's message is to what the    *)
(* cache and the clients know of the job.                                  *)
(***************************************************************************)
EXTENDS AsyncQueryServer, QueryWorker_proofs, FiniteSetTheorems

-----------------------------------------------------------------------------
(* The server's queue and worker behave as QueryWorker says. *)

LEMMA StepIsWorkerStep == [ServerNext]_serverVars => [Next]_vars
<1> SUFFICES ASSUME [ServerNext]_serverVars PROVE [Next]_vars
  OBVIOUS
<1>1. ASSUME NEW j \in Jobs,
             SubmitStore(j) \/ SubmitEnqueue(j) \/ Expire(j) \/ TimerFires(j)
      PROVE  [Next]_vars
  BY <1>1 DEF SubmitStore, SubmitEnqueue, Expire, TimerFires, Next
<1>2. ASSUME NEW c \in Clients, PollStep(c) \/ GiveUp(c) PROVE UNCHANGED vars
  BY <1>2 DEF PollStep, PollGet, PollDelete, PollReply, PollRefused, GiveUp
<1>3. ASSUME NEW l \in Loops, ServerLoopStep(l) PROVE [Next]_vars
  <2>1. LoopStep(l)
    BY <1>3 DEF ServerLoopStep, Advance, Execute, Settle, LoopStep
  <2> QED BY <2>1 DEF Next
<1>4. StartApi \/ Restart => Start \/ Reboot
  BY DEF StartApi, Restart
<1>5. CASE UNCHANGED serverVars
  BY <1>5 DEF serverVars
<1> QED BY <1>1, <1>2, <1>3, <1>4, <1>5 DEF ServerNext, Next

\* Every behaviour of the server is one of QueryWorker.
THEOREM ServerIsWorker == ServerSafetySpec => SafetySpec
<1>1. ServerInit => Init
  BY DEF ServerInit
<1> QED BY <1>1, StepIsWorkerStep, PTL DEF ServerSafetySpec, SafetySpec

LEMMA WorkerIInv == ServerSafetySpec => []IInv
<1>1. SafetySpec => []IInv
  BY InitIInv, NextIInv, TypeCorrect, PTL DEF SafetySpec
<1> QED BY <1>1, ServerIsWorker, PTL

-----------------------------------------------------------------------------
(* Type correctness. *)

LEMMA ServerTypeInit == ServerInit => ServerTypeOK
BY TypeInit DEF ServerInit, ServerTypeOK, SubmitState, ClientState, Fetching

LEMMA HeldIsJob ==
  ASSUME IInv, NEW l \in Loops, pc[l] \in Carrying
  PROVE  held[l] \in Jobs
BY DEF IInv, OnePlace, TypeOK

LEMMA ServerTypeStep == ServerTypeOK /\ IInv /\ [ServerNext]_serverVars => ServerTypeOK'
<1> SUFFICES ASSUME ServerTypeOK, IInv, [ServerNext]_serverVars PROVE ServerTypeOK'
  OBVIOUS
<1>0. TypeOK'
  BY TypeStep, StepIsWorkerStep DEF ServerTypeOK
<1> USE <1>0 DEF ServerTypeOK, SubmitState, Status, Settled, cacheVars, clientVars
<1>1. ASSUME NEW j \in Jobs,
             SubmitStore(j) \/ SubmitEnqueue(j) \/ Expire(j) \/ TimerFires(j)
      PROVE  ServerTypeOK'
  BY <1>1 DEF SubmitStore, SubmitEnqueue, Expire, TimerFires, Store, Delete
<1>2. ASSUME NEW c \in Clients, PollStep(c) \/ GiveUp(c) PROVE ServerTypeOK'
  BY <1>2, JobOfAssumption
     DEF PollStep, PollGet, PollDelete, PollReply, PollRefused, GiveUp, Delete, ClientState, Fetching
<1>3. ASSUME NEW l \in Loops, ServerLoopStep(l) PROVE ServerTypeOK'
  <2>1. CASE Advance(l)
    BY <2>1 DEF Advance
  <2>2. CASE Execute(l)
    BY <2>2, HeldIsJob DEF Execute, Store, Begin, Carrying
  <2>3. CASE Settle(l)
    BY <2>3, HeldIsJob DEF Settle, Store, Finish, Carrying
  <2> QED BY <1>3, <2>1, <2>2, <2>3 DEF ServerLoopStep
<1>4. CASE StartApi
  BY <1>4 DEF StartApi
<1>5. CASE Restart
  BY <1>5 DEF Restart, ClientState, Fetching
<1>6. CASE UNCHANGED serverVars
  BY <1>6 DEF serverVars
<1> QED BY <1>1, <1>2, <1>3, <1>4, <1>5, <1>6 DEF ServerNext

\* Every variable of the server keeps its type.
THEOREM ServerTypeCorrect == ServerSafetySpec => []ServerTypeOK
BY ServerTypeInit, ServerTypeStep, WorkerIInv, PTL DEF ServerSafetySpec

-----------------------------------------------------------------------------
(* Concurrency: the loops that live are those of the one start(). *)

Born == {l \in Loops : pc[l] # "unborn"}

\* Loops come into being only when the process does, all of them at once.
ConcurrencyIInv ==
  /\ running => Cardinality(Born) = WorkerCount
  /\ ~running => Born = {}

\* The steps of a loop neither spawn loops nor start or stop the worker.
LEMMA LoopStepSpawnsNone ==
  ASSUME TypeOK, NEW l \in Loops, ServerLoopStep(l)
  PROVE  Born' = Born /\ running' = running
<1>1. ASSUME NEW s \in LoopState, s # "unborn", pc[l] # "unborn",
             pc' = [pc EXCEPT ![l] = s]
      PROVE  Born' = Born
  BY <1>1 DEF Born, TypeOK
<1>2. running' = running
  BY DEF ServerLoopStep, Advance, Execute, Settle, Dequeue, Park, Continue, Begin, Finish
<1>3. CASE Dequeue(l)
  BY <1>1, <1>3 DEF Dequeue, LoopState
<1>4. CASE Park(l)
  BY <1>1, <1>4 DEF Park, LoopState
<1>5. CASE Continue(l)
  BY <1>1, <1>5 DEF Continue, LoopState
<1>6. CASE Begin(l)
  BY <1>1, <1>6 DEF Begin, LoopState
<1>7. CASE Finish(l)
  BY <1>1, <1>7 DEF Finish, LoopState
<1> QED BY <1>2, <1>3, <1>4, <1>5, <1>6, <1>7 DEF ServerLoopStep, Advance, Execute, Settle

\* Enqueueing hands a message to a loop that is there, if to any.
LEMMA EnqueueSpawnsNone ==
  ASSUME IInv, NEW j \in Jobs, Enqueue(j)
  PROVE  Born' = Born /\ running' = running
<1>1. running' = running
  BY DEF Enqueue
<1>2. CASE waiting = <<>>
  BY <1>1, <1>2 DEF Enqueue, Born
<1>3. CASE waiting # <<>>
  <2> DEFINE w == Head(waiting)
  <2>1. w \in Loops /\ pc[w] = "parked"
    BY <1>3, TailDistinct DEF IInv, TypeOK, WaitersAreParked
  <2>2. pc' = [pc EXCEPT ![w] = "holding"]
    BY <1>3 DEF Enqueue
  <2> HIDE DEF w
  <2> QED BY <1>1, <2>1, <2>2 DEF Born, IInv, TypeOK
<1> QED BY <1>2, <1>3

LEMMA ConcurrencyStep ==
  ConcurrencyIInv /\ IInv /\ [ServerNext]_serverVars => ConcurrencyIInv'
<1> SUFFICES ASSUME ConcurrencyIInv, IInv, [ServerNext]_serverVars PROVE ConcurrencyIInv'
  OBVIOUS
<1>0. ASSUME Born' = Born, running' = running PROVE ConcurrencyIInv'
  BY <1>0 DEF ConcurrencyIInv
<1>1. ASSUME NEW j \in Jobs,
             SubmitStore(j) \/ SubmitEnqueue(j) \/ Expire(j) \/ TimerFires(j)
      PROVE  ConcurrencyIInv'
  <2>1. CASE SubmitEnqueue(j)
    BY <1>0, <2>1, EnqueueSpawnsNone DEF SubmitEnqueue
  <2>2. CASE UNCHANGED vars
    BY <1>0, <2>2 DEF vars, Born
  <2> QED BY <1>1, <2>1, <2>2 DEF SubmitStore, Expire, TimerFires
<1>2. ASSUME NEW c \in Clients, PollStep(c) \/ GiveUp(c) PROVE ConcurrencyIInv'
  <2>1. UNCHANGED vars
    BY <1>2 DEF PollStep, PollGet, PollDelete, PollReply, PollRefused, GiveUp
  <2> QED BY <1>0, <2>1 DEF vars, Born
<1>3. ASSUME NEW l \in Loops, ServerLoopStep(l) PROVE ConcurrencyIInv'
  BY <1>0, <1>3, LoopStepSpawnsNone DEF IInv
<1>4. CASE StartApi
  <2>1. PICK fresh \in SUBSET {l \in Loops : pc[l] = "unborn"} :
          /\ Cardinality(fresh) = WorkerCount
          /\ pc' = [l \in Loops |-> IF l \in fresh THEN "top" ELSE pc[l]]
    BY <1>4 DEF StartApi, Start
  <2>2. Born = {} /\ running'
    BY <1>4 DEF StartApi, Start, ConcurrencyIInv
  <2>3. Born' = fresh
    BY <2>1, <2>2 DEF Born
  <2> QED BY <2>1, <2>2, <2>3 DEF ConcurrencyIInv
<1>5. CASE Restart
  BY <1>5 DEF Restart, Reboot, ConcurrencyIInv, Born
<1>6. CASE UNCHANGED serverVars
  BY <1>0, <1>6 DEF serverVars, vars, Born
<1> QED BY <1>1, <1>2, <1>3, <1>4, <1>5, <1>6 DEF ServerNext

\* Never more loops than configured, restarts included.
THEOREM ConcurrencyIsBounded == ServerSafetySpec => []UpToConfiguredConcurrency
<1>1. ServerInit => ConcurrencyIInv
  BY DEF ServerInit, Init, ConcurrencyIInv, Born
<1>2. ConcurrencyIInv => UpToConfiguredConcurrency
  <2> SUFFICES ASSUME ConcurrencyIInv PROVE UpToConfiguredConcurrency
    OBVIOUS
  <2> DEFINE Live == {l \in Loops : pc[l] \notin {"unborn", "ended"}}
  <2>1. Live \subseteq Born /\ Born \subseteq Loops
    BY DEF Born
  <2>2. IsFiniteSet(Born)
    BY <2>1, LoopsAssumption, FS_Subset
  <2>3. Cardinality(Live) <= Cardinality(Born)
    BY <2>1, <2>2, FS_Subset
  <2>4. Cardinality(Live) \in Nat /\ Cardinality(Born) \in Nat
    BY <2>1, <2>2, FS_Subset, FS_CardinalityType
  <2>5. WorkerCount \in Nat /\ (Born = {} => Cardinality(Born) = 0)
    BY FS_EmptySet, ConcurrencyAssumption DEF WorkerCount
  <2> HIDE DEF Live
  <2>6. Cardinality(Born) <= WorkerCount
    BY <2>4, <2>5 DEF ConcurrencyIInv
  <2>7. Cardinality(Live) <= WorkerCount
    BY <2>3, <2>4, <2>5, <2>6
  <2> QED BY <2>7 DEF UpToConfiguredConcurrency, Live
<1> QED BY <1>1, <1>2, ConcurrencyStep, WorkerIInv, PTL DEF ServerSafetySpec

-----------------------------------------------------------------------------
(* How the worker's steps move the jobs' messages. *)

\* A new message is on the way, queued or handed to a loop.
LEMMA EnqueueMoves ==
  ASSUME IInv, NEW j \in Jobs, Enqueue(j)
  PROVE  \A k \in Jobs : /\ OnTheWay(k)' <=> OnTheWay(k) \/ k = j
                         /\ Executing(k)' <=> Executing(k)
<1>1. CASE waiting # <<>>
  <2> DEFINE w == Head(waiting)
  <2>1. w \in Loops /\ pc[w] = "parked"
    BY <1>1, TailDistinct DEF IInv, TypeOK, WaitersAreParked
  <2>2. /\ queue' = queue
        /\ pc' = [pc EXCEPT ![w] = "holding"]
        /\ held' = [held EXCEPT ![w] = j]
    BY <1>1 DEF Enqueue
  <2> HIDE DEF w
  <2>3. /\ pc'[w] = "holding" /\ held'[w] = j
        /\ \A l \in Loops : l # w => pc'[l] = pc[l] /\ held'[l] = held[l]
    BY <2>1, <2>2 DEF IInv, TypeOK
  <2> QED BY <2>1, <2>2, <2>3 DEF OnTheWay, Executing
<1>2. CASE waiting = <<>>
  <2>1. queue' = Append(queue, j) /\ UNCHANGED <<pc, held>>
    BY <1>2 DEF Enqueue
  <2>2. Range(queue') = Range(queue) \cup {j}
    BY <2>1, AppendDistinct DEF IInv, TypeOK, OnePlace, Enqueue, InSystem
  <2> QED BY <2>1, <2>2 DEF OnTheWay, Executing
<1> QED BY <1>1, <1>2

\* Taking a message from the queue leaves it on the way.
LEMMA AdvanceMoves ==
  ASSUME IInv, NEW l \in Loops, Dequeue(l) \/ Park(l) \/ Continue(l)
  PROVE  \A k \in Jobs : /\ OnTheWay(k)' <=> OnTheWay(k)
                         /\ Executing(k)' <=> Executing(k)
<1>1. CASE Dequeue(l)
  <2> DEFINE h == Head(queue)
  <2>1. Range(Tail(queue)) = Range(queue) \ {h} /\ h \in Range(queue)
    BY <1>1, TailDistinct DEF IInv, TypeOK, OnePlace, Dequeue
  <2>2. /\ queue' = Tail(queue)
        /\ pc' = [pc EXCEPT ![l] = "holding"]
        /\ held' = [held EXCEPT ![l] = h]
        /\ pc[l] = "top"
    BY <1>1 DEF Dequeue
  <2> HIDE DEF h
  <2>3. /\ pc'[l] = "holding" /\ held'[l] = h
        /\ \A m \in Loops : m # l => pc'[m] = pc[m] /\ held'[m] = held[m]
    BY <2>2 DEF IInv, TypeOK
  <2> QED BY <2>1, <2>2, <2>3 DEF OnTheWay, Executing
<1>2. CASE Park(l) \/ Continue(l)
  <2>1. /\ queue' = queue /\ held' = held
        /\ pc[l] \notin Carrying /\ pc'[l] \notin Carrying
        /\ \A m \in Loops : m # l => pc'[m] = pc[m]
    BY <1>2 DEF Park, Continue, IInv, TypeOK, Carrying
  <2> QED BY <2>1 DEF OnTheWay, Executing, Carrying
<1> QED BY <1>1, <1>2

\* Execution takes over exactly the message the loop holds.
LEMMA BeginMoves ==
  ASSUME IInv, NEW l \in Loops, Begin(l)
  PROVE  /\ held[l] \in Jobs /\ OnTheWay(held[l])
         /\ \A k \in Jobs : /\ OnTheWay(k)' <=> OnTheWay(k) /\ k # held[l]
                            /\ Executing(k)' <=> Executing(k) \/ k = held[l]
<1>1. /\ pc[l] = "holding" /\ pc'[l] = "executing" /\ held' = held /\ queue' = queue
      /\ \A m \in Loops : m # l => pc'[m] = pc[m]
  BY DEF Begin, IInv, TypeOK
<1>2. /\ held[l] \in Jobs /\ held[l] \notin Range(queue)
      /\ \A m \in Loops : held[m] = held[l] => m = l
  BY <1>1, HeldIsJob DEF IInv, OnePlace, Carrying
<1> QED BY <1>1, <1>2 DEF OnTheWay, Executing

\* When it ends the message is nowhere.
LEMMA FinishMoves ==
  ASSUME IInv, NEW l \in Loops, Finish(l)
  PROVE  /\ held[l] \in Jobs /\ Executing(held[l])
         /\ \A k \in Jobs : /\ OnTheWay(k)' <=> OnTheWay(k)
                            /\ Executing(k)' <=> Executing(k) /\ k # held[l]
         /\ ~OnTheWay(held[l])
<1>1. /\ pc[l] = "executing" /\ pc'[l] = "resting" /\ queue' = queue
      /\ \A m \in Loops : m # l => pc'[m] = pc[m] /\ held'[m] = held[m]
  BY DEF Finish, IInv, TypeOK
<1>2. /\ held[l] \in Jobs /\ held[l] \notin Range(queue)
      /\ \A m \in Loops : held[m] = held[l] => m = l
  BY <1>1, HeldIsJob DEF IInv, OnePlace, Carrying
<1> QED BY <1>1, <1>2 DEF OnTheWay, Executing

LEMMA StartMoves ==
  ASSUME IInv, Start
  PROVE  \A k \in Jobs : /\ OnTheWay(k)' <=> OnTheWay(k)
                         /\ Executing(k)' <=> Executing(k)
<1>1. /\ queue' = queue /\ held' = held
      /\ \A l \in Loops : /\ pc'[l] = "holding" <=> pc[l] = "holding"
                          /\ pc'[l] = "executing" <=> pc[l] = "executing"
  BY DEF Start
<1> QED BY <1>1 DEF OnTheWay, Executing

LEMMA RebootMoves ==
  ASSUME Reboot
  PROVE  \A k \in Jobs : ~OnTheWay(k)' /\ ~Executing(k)'
<1>1. Range(<<>>) = {}
  BY DEF Range
<1> QED BY <1>1 DEF Reboot, OnTheWay, Executing

LEMMA NothingMoves ==
  ASSUME UNCHANGED vars
  PROVE  \A k \in Jobs : /\ OnTheWay(k)' <=> OnTheWay(k)
                         /\ Executing(k)' <=> Executing(k)
BY DEF vars, OnTheWay, Executing, Range

-----------------------------------------------------------------------------
(* What the cache and the clients know of a job, by where its message is. *)

\* A client's request has read the job's answer.
Taken(j) == \E c \in Clients : JobOf[c] = j /\ client[c] \in {"deleting"} \cup Fetching

\* Where its message is and how far its submission got decide what a job's
\* record can be and whether a client can have read its answer.
JobIInv(j) ==
  /\ OnTheWay(j) => submit[j] = "accepted" /\ record[j] \in {"none", "pending"} /\ ~Taken(j)
  /\ Executing(j) => submit[j] = "accepted" /\ record[j] \in {"none", "processing"} /\ ~Taken(j)
  /\ submit[j] = "new" => record[j] = "none"
  /\ submit[j] = "recorded" => record[j] \in {"none", "pending"}
  /\ submit[j] = "recorded" /\ j \notin lapsed => record[j] = "pending"
  /\ Taken(j) => submit[j] = "accepted" /\ record[j] \in {"none"} \cup Settled
  /\ Fetched(j) => record[j] = "none"
  /\ Remembered(j)

ServerIInv ==
  /\ ServerTypeOK
  /\ overdue \subseteq lapsed
  /\ \A j \in Jobs : JobIInv(j)
  /\ NotFoundIsExcused

LEMMA ServerInitIInv == ServerInit => ServerIInv
<1> SUFFICES ASSUME ServerInit PROVE ServerIInv
  OBVIOUS
<1>1. ServerTypeOK
  BY ServerTypeInit
<1>2. \A j \in Jobs : ~OnTheWay(j) /\ ~Executing(j)
  BY DEF ServerInit, Init, OnTheWay, Executing, Range
<1>3. \A j \in Jobs : ~Taken(j) /\ ~Fetched(j)
  BY DEF ServerInit, Taken, Fetched, Fetching
<1> QED BY <1>1, <1>2, <1>3 DEF ServerInit, ServerIInv, JobIInv, Remembered, NotFoundIsExcused

LEMMA ClientsUnchanged ==
  ASSUME client' = client
  PROVE  \A k \in Jobs : (Taken(k)' <=> Taken(k)) /\ (Fetched(k)' <=> Fetched(k))
BY DEF Taken, Fetched

LEMMA FetchedIsTaken == \A k \in Jobs : Fetched(k) => Taken(k)
BY DEF Taken, Fetched

\* When no client moves and no history shrinks, NotFoundIsExcused stays true.
LEMMA ExcusesLast ==
  ASSUME NotFoundIsExcused, client' = client, lapsed \subseteq lapsed'
  PROVE  NotFoundIsExcused'
BY ClientsUnchanged, JobOfAssumption DEF NotFoundIsExcused

\* Submission and the passing of time.
LEMMA JobStepIInv ==
  ASSUME IInv, ServerIInv, ServerTypeOK', NEW j \in Jobs,
         SubmitStore(j) \/ SubmitEnqueue(j) \/ Expire(j) \/ TimerFires(j)
  PROVE  ServerIInv'
<1> USE DEF ServerIInv
<1>1. /\ client' = client /\ lapsed \subseteq lapsed' /\ overdue' \subseteq lapsed'
  BY DEF SubmitStore, SubmitEnqueue, Expire, TimerFires, Store, Delete, clientVars, cacheVars
<1>2. ASSUME NEW k \in Jobs PROVE JobIInv(k)'
  <2> USE DEF JobIInv, Remembered
  <2>0. JobIInv(k) /\ JobIInv(j)
    OBVIOUS
  <2>1. CASE SubmitStore(j)
    <3>1. /\ UNCHANGED vars /\ lapsed' = lapsed
          /\ submit[j] = "new"
          /\ submit'[k] = IF k = j THEN "recorded" ELSE submit[k]
          /\ record'[k] = IF k = j THEN "pending" ELSE record[k]
      BY <2>1 DEF SubmitStore, Store, ServerTypeOK
    <3> QED BY <1>1, <2>0, <3>1, NothingMoves, ClientsUnchanged, FetchedIsTaken
  <2>2. CASE SubmitEnqueue(j)
    <3>1. /\ record' = record /\ lapsed' = lapsed
          /\ submit[j] = "recorded" /\ Enqueue(j)
          /\ submit'[k] = IF k = j THEN "accepted" ELSE submit[k]
      BY <2>2 DEF SubmitEnqueue, cacheVars, ServerTypeOK
    <3> QED BY <1>1, <2>0, <3>1, EnqueueMoves, ClientsUnchanged, FetchedIsTaken
  <2>3. CASE Expire(j)
    <3>1. record' = record /\ submit' = submit /\ UNCHANGED vars
      BY <2>3 DEF Expire
    <3> QED BY <1>1, <2>0, <3>1, NothingMoves, ClientsUnchanged
  <2>4. CASE TimerFires(j)
    <3>1. /\ submit' = submit /\ UNCHANGED vars
          /\ lapsed' = lapsed /\ j \in lapsed
          /\ record'[k] = IF k = j THEN "none" ELSE record[k]
      BY <2>4 DEF TimerFires, Delete, ServerTypeOK
    <3> QED BY <1>1, <2>0, <3>1, NothingMoves, ClientsUnchanged
  <2> QED BY <2>1, <2>2, <2>3, <2>4
<1> QED BY <1>1, <1>2, ExcusesLast
-----------------------------------------------------------------------------
(* The steps of clients, loops and the process. *)

\* Polling touches neither queue nor loops; it reads an answer only when the
\* job is settled, and then no message of the job is left to record anything.
LEMMA ClientStepIInv ==
  ASSUME IInv, ServerIInv, ServerTypeOK', NEW c \in Clients, PollStep(c) \/ GiveUp(c)
  PROVE  ServerIInv'
<1> DEFINE j == JobOf[c]
<1> USE DEF ServerIInv
<1>1. /\ submit' = submit /\ lapsed' = lapsed /\ overdue' \subseteq overdue
      /\ UNCHANGED vars
      /\ j \in Jobs /\ submit[j] = "accepted"
  <2>1. client[c] \in {"deleting"} \cup Fetching => submit[j] = "accepted"
    BY JobOfAssumption DEF JobIInv, Taken
  <2> QED BY <2>1, JobOfAssumption
          DEF PollStep, PollGet, PollDelete, PollReply, PollRefused, GiveUp, Delete, cacheVars, Fetching
<1>2. \E s \in ClientState : client' = [client EXCEPT ![c] = s]
  BY DEF PollStep, PollGet, PollDelete, PollReply, PollRefused, GiveUp, ClientState, Fetching
<1>3. /\ \A b \in Clients : b # c => client'[b] = client[b]
      /\ client'[c] \in ClientState
  BY <1>2 DEF ServerTypeOK
<1>4. \A k \in Jobs : k # j => /\ record'[k] = record[k]
                               /\ Taken(k)' <=> Taken(k)
                               /\ Fetched(k)' <=> Fetched(k)
  <2>1. \A k \in Jobs : k # j => record'[k] = record[k]
    BY <1>1 DEF PollStep, PollGet, PollDelete, PollReply, PollRefused, GiveUp, Delete,
                cacheVars, ServerTypeOK
  <2> QED BY <1>3, <2>1 DEF Taken, Fetched
\* What happens to the polled job itself.
<1>5. /\ Fetched(j) => Fetched(j)'
      /\ \/ record'[j] = record[j] /\ (Taken(j)' <=> Taken(j)) /\ (Fetched(j)' <=> Fetched(j))
         \/ record'[j] = record[j] /\ record[j] \in Settled /\ (Fetched(j)' <=> Fetched(j))
         \/ record'[j] = "none" /\ (Taken(j)' <=> Taken(j)) /\ j \in lapsed
         \/ record'[j] = "none" /\ Taken(j) /\ Taken(j)' /\ Fetched(j)'
  <2>1. CASE PollGet(c)
    <3>1. client[c] = "polling" /\ client'[c] \in {"notFound", "deleting"}
      BY <1>2, <2>1 DEF PollGet, ServerTypeOK
    <3>2. Fetched(j)' <=> Fetched(j)
      BY <1>3, <3>1 DEF Fetched, Fetching
    <3>3. CASE client'[c] = "notFound"
      <4>1. Taken(j)' <=> Taken(j)
        BY <1>3, <3>1, <3>3 DEF Taken, Fetching
      <4>2. record'[j] = record[j] \/ (record'[j] = "none" /\ j \in lapsed)
        BY <1>1, <2>1 DEF PollGet, Delete, cacheVars, ServerTypeOK
      <4> QED BY <3>2, <4>1, <4>2
    <3>4. CASE client'[c] = "deleting"
      <4>1. record' = record /\ record[j] \in Settled
        BY <2>1, <3>4 DEF PollGet, cacheVars, ServerTypeOK
      <4> QED BY <3>2, <4>1
    <3> QED BY <3>1, <3>3, <3>4
  <2>2. CASE PollDelete(c)
    <3>1. client[c] = "deleting" /\ client'[c] = "replying" /\ record'[j] = "none"
      BY <1>1, <2>2 DEF PollDelete, Delete, ServerTypeOK
    <3>2. Taken(j) /\ Taken(j)' /\ Fetched(j)'
      BY <3>1 DEF Taken, Fetched, Fetching
    <3> QED BY <3>1, <3>2
  <2>3. CASE PollReply(c)
    <3>1. /\ client[c] \in Fetching /\ client'[c] \in Fetching /\ record' = record
      BY <2>3 DEF PollReply, cacheVars, Fetching, ServerTypeOK
    <3>2. (Taken(j)' <=> Taken(j)) /\ (Fetched(j)' <=> Fetched(j))
      BY <1>3, <3>1 DEF Taken, Fetched
    <3> QED BY <3>1, <3>2
  <2>4. CASE GiveUp(c)
    <3>1. client[c] = "polling" /\ client'[c] = "gaveUp" /\ record' = record
      BY <2>4 DEF GiveUp, cacheVars, ServerTypeOK
    <3>2. (Taken(j)' <=> Taken(j)) /\ (Fetched(j)' <=> Fetched(j))
      BY <1>3, <3>1 DEF Taken, Fetched, Fetching
    <3> QED BY <3>1, <3>2
  <2> QED BY <2>1, <2>2, <2>3, <2>4 DEF PollStep, PollRefused
<1> HIDE DEF j
<1>6. ASSUME NEW k \in Jobs PROVE JobIInv(k)'
  <2>1. JobIInv(k) /\ JobIInv(j)
    BY <1>1
  <2>2. CASE k # j
    BY <1>1, <1>4, <2>1, <2>2, NothingMoves DEF JobIInv, Remembered
  <2>3. CASE k = j
    <3>1. record[j] \in Settled => ~OnTheWay(j) /\ ~Executing(j)
      BY <2>1 DEF JobIInv, Settled
    <3>2. Fetched(j) => Taken(j)
      BY <1>1, FetchedIsTaken
    <3> QED BY <1>1, <1>5, <2>1, <2>3, <3>1, <3>2, NothingMoves DEF JobIInv, Remembered
  <2> QED BY <2>2, <2>3
<1>7. NotFoundIsExcused'
  <2>1. \A k \in Jobs : Fetched(k) => Fetched(k)'
    BY <1>4, <1>5
  <2>2. client'[c] = "notFound" => client[c] = "notFound" \/ j \in lapsed \/ Fetched(j)
    <3>1. client'[c] = "notFound" /\ client[c] # "notFound" => record[j] = "none" \/ j \in overdue
      BY <1>2 DEF PollStep, PollGet, PollDelete, PollReply, PollRefused, GiveUp, ServerTypeOK, j
    <3>2. record[j] = "none" => j \in lapsed \/ Fetched(j)
      BY <1>1 DEF JobIInv, Remembered, Settled
    <3> QED BY <3>1, <3>2
  <2> QED BY <1>1, <1>3, <2>1, <2>2, JobOfAssumption DEF NotFoundIsExcused, j
<1> QED BY <1>1, <1>6, <1>7
\* The steps of a loop that involve the cache move the message along with the
\* record.
LEMMA LoopStepIInv ==
  ASSUME IInv, ServerIInv, ServerTypeOK', NEW l \in Loops, ServerLoopStep(l)
  PROVE  ServerIInv'
<1> USE DEF ServerIInv
<1>1. submit' = submit /\ client' = client /\ lapsed' = lapsed /\ overdue' = overdue
  BY DEF ServerLoopStep, Advance, Execute, Settle, Store, clientVars, cacheVars
<1>2. ASSUME NEW k \in Jobs PROVE JobIInv(k)'
  <2> USE DEF JobIInv, Remembered
  <2>0. JobIInv(k)
    OBVIOUS
  <2>1. CASE Advance(l)
    <3>1. record' = record
      BY <2>1 DEF Advance, cacheVars
    <3> QED BY <1>1, <2>0, <2>1, <3>1, AdvanceMoves, ClientsUnchanged DEF Advance
  <2>2. CASE Execute(l)
    <3>1. /\ Begin(l) /\ held[l] \in Jobs
          /\ record'[k] = IF k = held[l] THEN "processing" ELSE record[k]
      BY <2>2, BeginMoves DEF Execute, Store, ServerTypeOK
    <3>2. k = held[l] => OnTheWay(k)
      BY <3>1, BeginMoves
    <3> QED BY <1>1, <2>0, <3>1, <3>2, BeginMoves, ClientsUnchanged, FetchedIsTaken
  <2>3. CASE Settle(l)
    <3>1. /\ Finish(l) /\ held[l] \in Jobs
          /\ \E s \in Settled : record'[k] = IF k = held[l] THEN s ELSE record[k]
      BY <2>3, FinishMoves DEF Settle, Store, ServerTypeOK
    <3>2. k = held[l] => Executing(k) /\ ~OnTheWay(k)
      BY <3>1, FinishMoves
    <3> QED BY <1>1, <2>0, <3>1, <3>2, FinishMoves, ClientsUnchanged, FetchedIsTaken DEF Settled
  <2> QED BY <2>1, <2>2, <2>3 DEF ServerLoopStep
<1> QED BY <1>1, <1>2, ExcusesLast

\* With the process go the messages, the records and what had been read.
LEMMA RestartIInv ==
  ASSUME IInv, ServerIInv, ServerTypeOK', Restart
  PROVE  ServerIInv'
<1> USE DEF ServerIInv
<1>1. /\ \A k \in Jobs : record'[k] = "none"
      /\ \A k \in Jobs : ~OnTheWay(k)' /\ ~Executing(k)'
      /\ overdue' \subseteq lapsed' /\ lapsed \subseteq lapsed'
  BY RebootMoves DEF Restart
<1>2. \A b \in Clients : /\ client'[b] \in Fetching <=> client[b] \in Fetching
                         /\ client'[b] # "deleting"
                         /\ client'[b] = "notFound" <=> client[b] = "notFound"
  BY DEF Restart, Fetching
<1>3. \A k \in Jobs : (Fetched(k)' <=> Fetched(k)) /\ (Taken(k)' => Taken(k))
  BY <1>2 DEF Taken, Fetched
<1>4. \A k \in Jobs : JobIInv(k)'
  <2>1. \A k \in Jobs : /\ submit[k] = "accepted" => submit'[k] = "accepted" /\ k \in lapsed'
                        /\ submit'[k] \in {"new", "accepted"} => submit'[k] = submit[k]
                        /\ submit'[k] # "recorded"
    BY DEF Restart
  <2> QED BY <1>1, <1>3, <2>1 DEF JobIInv, Remembered
<1>5. NotFoundIsExcused'
  BY <1>1, <1>2, <1>3, JobOfAssumption DEF NotFoundIsExcused
<1> QED BY <1>1, <1>4, <1>5

LEMMA ServerNextIInv ==
  IInv /\ ServerIInv /\ ServerTypeOK' /\ [ServerNext]_serverVars => ServerIInv'
<1> SUFFICES ASSUME IInv, ServerIInv, ServerTypeOK', [ServerNext]_serverVars PROVE ServerIInv'
  OBVIOUS
<1>1. ASSUME UNCHANGED <<submit, record, overdue, client, lapsed>>,
             \A k \in Jobs : /\ OnTheWay(k)' <=> OnTheWay(k)
                             /\ Executing(k)' <=> Executing(k)
      PROVE  ServerIInv'
  <2>1. NotFoundIsExcused'
    BY <1>1, ExcusesLast DEF ServerIInv
  <2>2. \A k \in Jobs : JobIInv(k)'
    BY <1>1, ClientsUnchanged DEF ServerIInv, JobIInv, Remembered
  <2> QED BY <1>1, <2>1, <2>2 DEF ServerIInv
<1>2. CASE StartApi
  BY <1>1, <1>2, StartMoves DEF StartApi, cacheVars, clientVars
<1>3. CASE UNCHANGED serverVars
  BY <1>1, <1>3, NothingMoves DEF serverVars, cacheVars, clientVars
<1> QED BY <1>2, <1>3, JobStepIInv, ClientStepIInv, LoopStepIInv, RestartIInv DEF ServerNext

LEMMA ServerInvariant == ServerSafetySpec => []ServerIInv
<1>1. ServerSafetySpec => [](IInv /\ ServerTypeOK)
  BY WorkerIInv, ServerTypeCorrect, PTL
<1> QED BY <1>1, ServerInitIInv, ServerNextIInv, PTL DEF ServerSafetySpec

\* An acknowledged job is always accounted for, by its message, by a loop that
\* executes it or by its answer, until it is fetched, expires or the process ends.
THEOREM JobsAreRemembered == ServerSafetySpec => []NoJobForgotten
<1>1. ServerIInv => NoJobForgotten
  BY DEF ServerIInv, JobIInv, NoJobForgotten
<1> QED BY <1>1, ServerInvariant, PTL

\* Once a client's request took an answer out of the cache, no executor writes
\* the job's record again.
THEOREM RetrievalIsFinal == ServerSafetySpec => []RetrievedStaysGone
<1>1. ServerIInv => RetrievedStaysGone
  BY DEF ServerIInv, JobIInv, RetrievedStaysGone
<1> QED BY <1>1, ServerInvariant, PTL

\* No client is told "not found" about a job that is still being worked on.
THEOREM NotFoundIsJustified == ServerSafetySpec => []NotFoundIsExcused
<1>1. ServerIInv => NotFoundIsExcused
  BY DEF ServerIInv
<1> QED BY <1>1, ServerInvariant, PTL
-----------------------------------------------------------------------------
(* The server implements JobLifecycle. *)

Answered == {j \in Jobs : Fetched(j)}

LEMMA StepKeepsLifecycle ==
  IInv /\ ServerIInv /\ ServerTypeOK' /\ [ServerNext]_serverVars => [L!Next]_(L!vars)
<1> SUFFICES ASSUME IInv, ServerIInv, ServerTypeOK', [ServerNext]_serverVars
             PROVE  [L!Next]_(L!vars)
  OBVIOUS
<1> USE DEF ServerIInv
<1>1. /\ UNCHANGED <<record, Answered>> => [L!Next]_(L!vars)
      /\ UNCHANGED Answered /\ (\E gone \in SUBSET Jobs :
           record' = [k \in Jobs |-> IF k \in gone THEN "none" ELSE record[k]]) => L!Next
  BY DEF L!vars, L!Next, L!Discard, Answered
<1>2. client' = client => UNCHANGED Answered
  BY ClientsUnchanged DEF Answered
<1>3. ASSUME NEW k \in Jobs, record' = [record EXCEPT ![k] = "none"], UNCHANGED Answered
      PROVE  L!Next
  <2>1. record' = [i \in Jobs |-> IF i \in {k} THEN "none" ELSE record[i]]
    BY <1>3 DEF ServerTypeOK
  <2> QED BY <1>1, <1>3, <2>1
\* A store() for a job whose answer nobody took.
<1>4. ASSUME NEW k \in Jobs, NEW from, NEW s, ~Fetched(k), record[k] \in from,
             record' = [record EXCEPT ![k] = s], client' = client
      PROVE  L!Record(k, from, s)
  BY <1>2, <1>4 DEF L!Record, Answered
<1>5. ASSUME NEW j \in Jobs, SubmitStore(j) PROVE L!Next
  <2>1. record[j] \in {"none"} /\ ~Fetched(j)
    BY <1>5, FetchedIsTaken DEF SubmitStore, JobIInv
  <2>2. L!Submit(j)
    BY <1>4, <1>5, <2>1 DEF SubmitStore, Store, clientVars, L!Submit
  <2> QED BY <2>2 DEF L!Next
<1>6. ASSUME NEW j \in Jobs, SubmitEnqueue(j) \/ Expire(j) PROVE [L!Next]_(L!vars)
  BY <1>1, <1>2, <1>6 DEF SubmitEnqueue, Expire, clientVars, cacheVars
<1>7. ASSUME NEW j \in Jobs, TimerFires(j) PROVE L!Next
  BY <1>2, <1>3, <1>7 DEF TimerFires, Delete, clientVars
<1>8. ASSUME NEW l \in Loops, Execute(l) PROVE L!Next
  <2>1. /\ held[l] \in Jobs /\ record[held[l]] \in {"none", "pending"}
        /\ ~Fetched(held[l])
    BY <1>8, BeginMoves, FetchedIsTaken DEF Execute, JobIInv
  <2>2. L!Begin(held[l])
    BY <1>4, <1>8, <2>1 DEF Execute, Store, clientVars, L!Begin
  <2> QED BY <2>1, <2>2 DEF L!Next
<1>9. ASSUME NEW l \in Loops, Settle(l) PROVE L!Next
  <2>1. /\ held[l] \in Jobs /\ record[held[l]] \in {"none", "processing"}
        /\ ~Fetched(held[l])
    BY <1>9, FinishMoves, FetchedIsTaken DEF Settle, JobIInv
  <2>2. L!Settle(held[l])
    BY <1>4, <1>9, <2>1 DEF Settle, Store, clientVars, L!Settle, L!Settled, Settled
  <2> QED BY <2>1, <2>2 DEF L!Next
<1>10. ASSUME NEW l \in Loops, Advance(l) PROVE [L!Next]_(L!vars)
  BY <1>1, <1>2, <1>10 DEF Advance, clientVars, cacheVars
<1>11. ASSUME NEW c \in Clients, PollDelete(c) PROVE L!Next
  <2> DEFINE j == JobOf[c]
  <2>1. /\ j \in Jobs /\ client[c] = "deleting"
        /\ client' = [client EXCEPT ![c] = "replying"]
        /\ record' = [record EXCEPT ![j] = "none"]
    BY <1>11, JobOfAssumption DEF PollDelete, Delete
  <2>2. Taken(j)
    BY <2>1 DEF Taken
  <2>3. record[j] \in {"none"} \cup Settled
    BY <2>1, <2>2 DEF JobIInv
  <2>4. /\ client'[c] = "replying"
        /\ \A b \in Clients : b # c => client'[b] = client[b]
    BY <2>1 DEF ServerTypeOK
  <2>5. ASSUME NEW k \in Jobs PROVE Fetched(k)' <=> Fetched(k) \/ k = j
    BY <2>1, <2>4 DEF Fetched, Fetching
  <2>6. Answered' = Answered \cup {j}
    BY <2>1, <2>5 DEF Answered
  <2>7. L!Deliver(j)
    BY <2>1, <2>3, <2>6 DEF L!Deliver, L!Settled, Settled, Answered
  <2> QED BY <2>1, <2>7 DEF L!Next
\* The other steps of a client take nothing out of the cache for it.
<1>12. ASSUME NEW c \in Clients, PollGet(c) \/ PollReply(c) \/ GiveUp(c)
       PROVE  [L!Next]_(L!vars)
  <2>1. /\ client'[c] \in Fetching <=> client[c] \in Fetching
        /\ \A b \in Clients : b # c => client'[b] = client[b]
    BY <1>12 DEF PollGet, PollReply, GiveUp, Fetching, ServerTypeOK
  <2>2. UNCHANGED Answered
    BY <2>1 DEF Answered, Fetched
  <2>3. record' = record \/ record' = [record EXCEPT ![JobOf[c]] = "none"]
    BY <1>12 DEF PollGet, PollReply, GiveUp, Delete, cacheVars
  <2> QED BY <1>1, <1>3, <2>2, <2>3, JobOfAssumption
<1>13. CASE Restart
  <2>1. \A b \in Clients : client'[b] \in Fetching <=> client[b] \in Fetching
    BY <1>13 DEF Restart, Fetching
  <2>2. UNCHANGED Answered
    BY <2>1 DEF Answered, Fetched
  <2>3. record' = [k \in Jobs |-> IF k \in Jobs THEN "none" ELSE record[k]]
    BY <1>13 DEF Restart
  <2> QED BY <1>1, <2>2, <2>3
<1>14. CASE StartApi
  BY <1>1, <1>2, <1>14 DEF StartApi, clientVars, cacheVars
<1>15. CASE UNCHANGED serverVars
  BY <1>1, <1>2, <1>15 DEF serverVars, clientVars, cacheVars
<1> QED BY <1>5, <1>6, <1>7, <1>8, <1>9, <1>10, <1>11, <1>12, <1>13, <1>14, <1>15
        DEF ServerNext, PollStep, PollRefused, ServerLoopStep

\* Routes, cache, queue, worker and executor implement JobLifecycle: a record
\* only moves forward, and never appears again once its answer was taken.
THEOREM ServerImplementsLifecycle == ServerSafetySpec => ImplementsLifecycle
<1>1. ServerInit => L!Init
  BY DEF ServerInit, L!Init, Fetched, Fetching
<1>2. ServerSafetySpec => [](IInv /\ ServerIInv /\ ServerTypeOK)
  BY WorkerIInv, ServerInvariant, ServerTypeCorrect, PTL
<1> QED BY <1>1, <1>2, StepKeepsLifecycle, PTL
        DEF ServerSafetySpec, ImplementsLifecycle, L!Spec
=============================================================================
