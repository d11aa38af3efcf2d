-------------------------- MODULE AsyncQueryServer --------------------------
(***************************************************************************)
(* The asynchronous query API in server and desktop mode: one process with *)
(* the routes of queryAsync.ts, the in-process queue and worker (module    *)
(* QueryWorker, which this one extends), the executor that records each    *)
(* job's progress, and the InProcessResultCache with its expiry; around    *)
(* it, the browsers that submit a query and poll for its result.           *)
(*                                                                         *)
(* A step is the code between two awaits.  The process may end at any time *)
(* and be started again; memory does not survive it.  startApi never calls *)
(* QueryWorker.stop(), so the steps that only follow it are left out.      *)
(***************************************************************************)
EXTENDS QueryWorker

CONSTANTS
  Clients,     \* pollForResult calls
  JobOf,       \* JobOf[c]: the job that c polls
  MaxRestarts  \* a bound on process restarts

ASSUME JobOfAssumption == JobOf \in [Clients -> Jobs]

VARIABLES
  submit,   \* submit[j]: how far submitAsyncQuery got with j
  record,   \* record[j]: the status of j's QueryJob in the cache, or "none"
  overdue,  \* jobs whose record's expiresAt has passed
  timers,   \* jobs with an entry in InProcessResultCache.timeouts
  client,   \* client[c]: what c, and the request serving it, are at
  seen,     \* seen[c]: the status in the job object getAsyncResult read for c
  restarts, \* how often the process ended
  lapsed    \* history: jobs that expired or were lost with a process

cacheVars == <<record, overdue, timers>>
clientVars == <<client, seen>>
serverVars == <<vars, submit, cacheVars, clientVars, restarts, lapsed>>

Settled == {"completed", "failed"}
Status == {"pending", "processing"} \cup Settled

SubmitState ==
  {"new",       \* not submitted
   "recorded",  \* stored as pending, enqueue() not called yet
   "accepted",  \* enqueued, the client knows the job id
   "aborted"}   \* the process ended in between

\* The request has taken the job out of the cache for this client.
Fetching == {"replying", "result", "error", "lost"}

ClientState ==
  {"polling",    \* between two GET requests, or waiting for a job id
   "deleting",   \* its request read a settled job and is about to delete it
   "replying",   \* ... deleted it and is about to answer
   "result",     \* resolved with the metrics (200)
   "error",      \* rejected with the query's error (500)
   "lost",       \* rejected, the answer did not arrive
   "notFound",   \* rejected with "not found" (204)
   "gaveUp"}     \* rejected after the timeout or a failed request

Waiting(c) == client[c] \in {"polling", "deleting", "replying"}

ServerTypeOK ==
  /\ TypeOK
  /\ submit \in [Jobs -> SubmitState]
  /\ record \in [Jobs -> Status \cup {"none"}]
  /\ overdue \subseteq Jobs
  /\ timers \subseteq Jobs
  /\ client \in [Clients -> ClientState]
  /\ seen \in [Clients -> Status \cup {"none"}]
  /\ restarts \in Nat
  /\ lapsed \subseteq Jobs

ServerInit ==
  /\ Init
  /\ submit = [j \in Jobs |-> "new"]
  /\ record = [j \in Jobs |-> "none"]
  /\ overdue = {}
  /\ timers = {}
  /\ client = [c \in Clients |-> "polling"]
  /\ seen = [c \in Clients |-> "none"]
  /\ restarts = 0
  /\ lapsed = {}

\* The clients whose request took job j out of the cache.
Fetched(j) == \E c \in Clients : JobOf[c] = j /\ client[c] \in Fetching

-----------------------------------------------------------------------------
\* InProcessResultCache.

\* Mutant: no setTimeout, an expired record goes only when somebody polls it.
Store_NoTimer(j, status) ==
  /\ record' = [record EXCEPT ![j] = status]
  /\ UNCHANGED <<overdue, timers>>

\* store(): a record that is still there keeps its expiresAt (so an overdue one
\* stays overdue); the timer is armed anew either way.
Store(j, status) ==
  /\ record' = [record EXCEPT ![j] = status]
  /\ timers' = timers \cup {j}
  /\ UNCHANGED overdue

\* delete(), and what get() does to an expired record.
Delete(j) ==
  /\ record' = [record EXCEPT ![j] = "none"]
  /\ overdue' = overdue \ {j}
  /\ timers' = timers \ {j}

\* expiresAt of j's record passes.
Expire(j) ==
  /\ record[j] # "none"
  /\ j \notin overdue
  /\ overdue' = overdue \cup {j}
  /\ lapsed' = lapsed \cup {j}
  /\ UNCHANGED <<vars, submit, record, timers, clientVars, restarts>>

\* The callback of store()'s setTimeout.  It was armed no earlier than expiresAt
\* was set, with the same delay.
TimerFires(j) ==
  /\ j \in timers
  /\ j \in overdue
  /\ Delete(j)
  /\ UNCHANGED <<vars, submit, clientVars, restarts, lapsed>>

-----------------------------------------------------------------------------
\* Routes.

\* Mutant: the job is enqueued without having been recorded.
SubmitStore_NoRecord(j) ==
  /\ running
  /\ submit[j] = "new"
  /\ submit' = [submit EXCEPT ![j] = "recorded"]
  /\ UNCHANGED <<vars, cacheVars, clientVars, restarts, lapsed>>

\* submitAsyncQuery up to the first await: the job is recorded as pending.
SubmitStore(j) ==
  /\ running
  /\ submit[j] = "new"
  /\ Store(j, "pending")
  /\ submit' = [submit EXCEPT ![j] = "recorded"]
  /\ UNCHANGED <<vars, clientVars, restarts, lapsed>>

\* The rest of it: enqueue, and 202 with the job id.
SubmitEnqueue(j) ==
  /\ submit[j] = "recorded"
  /\ Enqueue(j)
  /\ submit' = [submit EXCEPT ![j] = "accepted"]
  /\ UNCHANGED <<cacheVars, clientVars, restarts, lapsed>>

\* Mutant: only the pending status keeps a client waiting.
PollGet_TakesProcessing(c) ==
  LET j == JobOf[c] IN
  /\ running
  /\ submit[j] = "accepted"
  /\ client[c] = "polling"
  /\ record[j] # "pending"
  /\ client' = [client EXCEPT ![c] = IF record[j] = "none" THEN "notFound" ELSE "deleting"]
  /\ seen' = [seen EXCEPT ![c] = record[j]]
  /\ UNCHANGED <<vars, submit, cacheVars, restarts, lapsed>>

\* Mutant: the failed status is answered like the pending one.
PollGet_NoFailed(c) ==
  LET j == JobOf[c] IN
  /\ running
  /\ submit[j] = "accepted"
  /\ client[c] = "polling"
  /\ record[j] \in {"none", "completed"}
  /\ client' = [client EXCEPT ![c] = IF record[j] = "none" THEN "notFound" ELSE "deleting"]
  /\ seen' = [seen EXCEPT ![c] = record[j]]
  /\ UNCHANGED <<vars, submit, cacheVars, restarts, lapsed>>

\* pollForResult sends a GET and getAsyncResult calls resultCache.get: an
\* expired job is removed and not found, a settled one is about to be taken
\* out, and a pending or processing one changes nothing (202, poll again).
PollGet(c) ==
  LET j == JobOf[c] IN
  /\ running
  /\ submit[j] = "accepted"
  /\ client[c] = "polling"
  /\ \/ /\ record[j] = "none"
        /\ client' = [client EXCEPT ![c] = "notFound"]
        /\ UNCHANGED <<cacheVars, seen>>
     \/ /\ j \in overdue
        /\ Delete(j)
        /\ client' = [client EXCEPT ![c] = "notFound"]
        /\ UNCHANGED seen
     \/ /\ record[j] \in Settled
        /\ j \notin overdue
        /\ client' = [client EXCEPT ![c] = "deleting"]
        /\ seen' = [seen EXCEPT ![c] = record[j]]
        /\ UNCHANGED cacheVars
  /\ UNCHANGED <<vars, submit, restarts, lapsed>>

\* getAsyncResult calls resultCache.delete, whatever is there by now.
PollDelete(c) ==
  /\ client[c] = "deleting"
  /\ Delete(JobOf[c])
  /\ client' = [client EXCEPT ![c] = "replying"]
  /\ UNCHANGED <<vars, submit, seen, restarts, lapsed>>

\* The response is sent, and arrives unless the connection is gone.
PollReply(c) ==
  /\ client[c] = "replying"
  /\ \E answer \in {IF seen[c] = "completed" THEN "result" ELSE "error", "lost"} :
       client' = [client EXCEPT ![c] = answer]
  /\ UNCHANGED <<vars, submit, cacheVars, seen, restarts, lapsed>>

\* pollForResult gives up: its timeout passed, or the GET failed.
GiveUp(c) ==
  /\ submit[JobOf[c]] = "accepted"
  /\ client[c] = "polling"
  /\ client' = [client EXCEPT ![c] = "gaveUp"]
  /\ UNCHANGED <<vars, submit, cacheVars, seen, restarts, lapsed>>

\* Polling a process that is not there: the GET fails.
PollRefused(c) == ~running /\ GiveUp(c)

-----------------------------------------------------------------------------
\* Worker loops and executor.

\* Mutant: the executor does not record that it starts.
Execute_NoRecord(l) ==
  /\ Begin(l)
  /\ UNCHANGED <<submit, cacheVars, clientVars, restarts, lapsed>>

\* Mutant: a rejected query is logged and not recorded.
Settle_SwallowsError(l) ==
  /\ Finish(l)
  /\ Store(held[l], "completed") \/ UNCHANGED cacheVars
  /\ UNCHANGED <<submit, clientVars, restarts, lapsed>>

\* Mutant: the job id is read after the loop let go of the message.
Settle_LateJobId(l) ==
  /\ Finish(l)
  /\ \E s \in Settled : Store(held'[l], s)
  /\ UNCHANGED <<submit, clientVars, restarts, lapsed>>

\* A loop takes a message and the executor records the job as processing.
Execute(l) ==
  /\ Begin(l)
  /\ Store(held[l], "processing")
  /\ UNCHANGED <<submit, clientVars, restarts, lapsed>>

\* queryService.execute resolves or rejects and the executor records it.
Settle(l) ==
  /\ Finish(l)
  /\ \E s \in Settled : Store(held[l], s)
  /\ UNCHANGED <<submit, clientVars, restarts, lapsed>>

Advance(l) ==
  /\ Dequeue(l) \/ Park(l) \/ Continue(l)
  /\ UNCHANGED <<submit, cacheVars, clientVars, restarts, lapsed>>

-----------------------------------------------------------------------------
\* startApi: queue, cache, executor and worker come up together.
StartApi ==
  /\ ~running
  /\ Start
  /\ UNCHANGED <<submit, cacheVars, clientVars, restarts, lapsed>>

\* The process ends.  Queue, loops, records and open requests go with it.
Restart ==
  /\ running
  /\ restarts < MaxRestarts
  /\ restarts' = restarts + 1
  /\ Reboot
  /\ record' = [j \in Jobs |-> "none"]
  /\ overdue' = {}
  /\ timers' = {}
  /\ submit' = [j \in Jobs |-> IF submit[j] = "recorded" THEN "aborted" ELSE submit[j]]
  /\ client' = [c \in Clients |-> IF client[c] = "deleting" THEN "gaveUp"
                                 ELSE IF client[c] = "replying" THEN "lost"
                                 ELSE client[c]]
  /\ lapsed' = lapsed \cup {j \in Jobs : submit[j] = "accepted"}
  /\ UNCHANGED seen

ServerLoopStep(l) == Advance(l) \/ Execute(l) \/ Settle(l)
PollStep(c) == PollGet(c) \/ PollDelete(c) \/ PollReply(c) \/ PollRefused(c)

ServerNext ==
  \/ \E j \in Jobs : SubmitStore(j) \/ SubmitEnqueue(j) \/ Expire(j) \/ TimerFires(j)
  \/ \E c \in Clients : PollStep(c) \/ GiveUp(c)
  \/ \E l \in Loops : ServerLoopStep(l)
  \/ StartApi
  \/ Restart

\* The event loop runs what is ready: resumed loops, open requests, timers that
\* are due; a query ends.  A client that has not given up polls again.  Nothing
\* makes clients submit or give up, records expire, the process end or come back.
ServerFairness ==
  /\ \A l \in Loops : WF_serverVars(ServerLoopStep(l))
  /\ \A c \in Clients : WF_serverVars(PollStep(c))
  /\ \A j \in Jobs : WF_serverVars(TimerFires(j))

ServerSafetySpec == ServerInit /\ [][ServerNext]_serverVars
ServerSpec == ServerSafetySpec /\ ServerFairness
-----------------------------------------------------------------------------
\* Where a job's message can be.
OnTheWay(j) == j \in Range(queue) \/ \E l \in Loops : pc[l] = "holding" /\ held[l] = j
Executing(j) == \E l \in Loops : pc[l] = "executing" /\ held[l] = j

Remembered(j) ==
  submit[j] = "accepted" /\ j \notin lapsed /\ ~Fetched(j) =>
    \/ record[j] = "pending" /\ OnTheWay(j)
    \/ record[j] = "processing" /\ Executing(j)
    \/ record[j] \in Settled

\* A job whose submission was acknowledged is never forgotten: until a client
\* fetched it, or it expired or its process ended, either it is recorded as
\* pending and its message is on the way to the executor, or it is recorded as
\* processing and a loop executes it, or its answer is in the cache.
NoJobForgotten == \A j \in Jobs : Remembered(j)

\* A result that was retrieved stays deleted: no late store() of an executor
\* brings the record of a fetched job back.
RetrievedStaysGone == \A j \in Jobs : Fetched(j) => record[j] = "none"

\* 204 means what the API documents: the job expired, was lost with its process,
\* or another request fetched it.
NotFoundIsExcused ==
  \A c \in Clients : client[c] = "notFound" => JobOf[c] \in lapsed \/ Fetched(JobOf[c])

\* "executing async query jobs with up to the configured concurrency": also
\* after a restart no more loops live, and each executes one query at a time,
\* than the operator allows.  It takes a process that calls start() once: loops
\* parked across a stop() would go on after the next start(), with the new ones.
UpToConfiguredConcurrency ==
  Cardinality({l \in Loops : pc[l] \notin {"unborn", "ended"}}) <= WorkerCount

\* Routes, cache, queue, worker and executor together keep the promises of
\* JobLifecycle.
L == INSTANCE JobLifecycle WITH status <- record, answered <- {j \in Jobs : Fetched(j)}
ImplementsLifecycle == L!Spec

\* A client that keeps polling an acknowledged job is answered in the end.
PollingIsAnswered ==
  \A c \in Clients : submit[JobOf[c]] = "accepted" /\ Waiting(c) ~> ~Waiting(c)

\* An expired record does not stay in memory, also when nobody polls for it.
ExpiredIsRemoved == \A j \in Jobs : j \in overdue ~> j \notin overdue
=============================================================================
