-------------------------- MODULE AsyncQueryLambda --------------------------
(***************************************************************************)
(* The asynchronous query API in AWS Lambda mode: the API function records *)
(* a job and sends its message to SQS, invocations of the executor         *)
(* function (queryExecution) take batches of messages, run the queries and *)
(* record each job's progress in a DynamoDB table, and the API function    *)
(* hands the answer to the polling client.                                 *)
(*                                                                         *)
(* Every DynamoDB call is a step of its own: DynamoResultCache.store finds *)
(* the old item, deletes it and puts the new one.  Calls may fail without  *)
(* effect, invocations may be cut short (lambda timeout, start-up failure) *)
(* and SQS delivers a message again when its invocation did not end well,  *)
(* and now and then although somebody still works on it.  A message holds  *)
(* until the event source deletes it; retention is not modelled.           *)
(***************************************************************************)
EXTENDS Integers, Sequences, FiniteSets, Functions

CONSTANTS
  Jobs,         \* job ids; each is polled by the client that submitted it
  Execs,        \* executor invocations at a time
  BatchSize,    \* the event source's BatchSize (SAM: 1, CDK's default: 10)
  SharedCache,  \* cacheFactory's choice for the API function: TRUE when its
                \* environment has ASYNC_QUERY_RESULT_TTL
  MaxTroubles   \* a bound on the crashes, failed calls and duplicate deliveries

ASSUME SharedCacheAssumption == SharedCache \in BOOLEAN
ASSUME BatchSizeAssumption == BatchSize \in Nat \ {0}
ASSUME MaxTroublesAssumption == MaxTroubles \in Nat

VARIABLES
  submit,   \* submit[j]: how far submitAsyncQuery got
  local,    \* jobs pending in the API function's InProcessResultCache
  table,    \* table[j]: the status of j's item in DynamoDB, or "none"
  overdue,  \* jobs whose item has an expiresAt in the past
  message,  \* message[j]: j's message in SQS
  invocation, \* invocation[e]: what executor e is doing
  client,   \* client[j]: what the client polling j, and its request, are at
  troubles, \* how much went wrong so far
  lapsed,   \* history: jobs whose item's expiresAt has passed once
  again,    \* history: jobs whose message was delivered more than once
  copied,   \* history: ... while an earlier delivery was still worked on
  failed    \* history: jobs whose execute() rejected (batchItemFailures)

submitVars == <<submit, local>>
tableVars == <<table, overdue>>
sqsVars == <<message, invocation, again, copied, failed>>
vars == <<submitVars, tableVars, sqsVars, client, troubles, lapsed>>

Settled == {"completed", "failed"}
Status == {"pending", "processing"} \cup Settled

SubmitState ==
  {"new", "recorded", "accepted",
   "rejected"}  \* a call failed or the function ended: no job id for the client

MessageState == {"unsent", "queued", "deleted"}

ClientState ==
  {"polling", "deleting",
   "fetched",  \* the answer was taken out of the cache for the client
   "notFound", "gaveUp"}
Fetched(j) == client[j] = "fetched"

\* An invocation of queryExecution.  `batch` is event.Records, `rest` what is
\* left of it, `at` the call to make next, `status` the status being stored and
\* `old` the item that store() found: its expiresAt is kept.
Old == {"none", "fresh", "overdue"}
Invocation ==
  [at : {"find", "delete", "put", "query", "return"},
   batch : SUBSET Jobs, rest : Seq(Jobs), status : Status, old : Old]
Idle == [at |-> "idle", batch |-> {}, rest |-> <<>>, status |-> "processing", old |-> "none"]

TypeOK ==
  /\ submit \in [Jobs -> SubmitState]
  /\ local \subseteq Jobs
  /\ table \in [Jobs -> Status \cup {"none"}]
  /\ overdue \subseteq {j \in Jobs : table[j] # "none"}
  /\ message \in [Jobs -> MessageState]
  /\ \A e \in Execs :
       /\ invocation[e] \in Invocation \cup {Idle}
       /\ Range(invocation[e].rest) \subseteq invocation[e].batch
       /\ invocation[e].at \in {"find", "delete", "put", "query"} => invocation[e].rest # <<>>
  /\ client \in [Jobs -> ClientState]
  /\ troubles \in 0..MaxTroubles
  /\ \A history \in {lapsed, again, copied, failed} : history \subseteq Jobs

Init ==
  /\ submit = [j \in Jobs |-> "new"]
  /\ local = {}
  /\ table = [j \in Jobs |-> "none"]
  /\ overdue = {}
  /\ message = [j \in Jobs |-> "unsent"]
  /\ invocation = [e \in Execs |-> Idle]
  /\ client = [j \in Jobs |-> "polling"]
  /\ troubles = 0
  /\ lapsed = {}
  /\ again = {}
  /\ copied = {}
  /\ failed = {}

-----------------------------------------------------------------------------
\* The table and what goes wrong.

Put(j, status, old) ==
  /\ table' = [table EXCEPT ![j] = status]
  /\ overdue' = IF old = "overdue" THEN overdue \cup {j} ELSE overdue \ {j}

DeleteItem(j) ==
  /\ table' = [table EXCEPT ![j] = "none"]
  /\ overdue' = overdue \ {j}

Trouble(n) ==
  /\ troubles + n <= MaxTroubles
  /\ troubles' = troubles + n

\* expiresAt passes.  It is a field of the job: insertOne gives the item a TTL
\* attribute only for a field named expireAt, so DynamoDB removes nothing.
Expire(j) ==
  /\ table[j] # "none"
  /\ j \notin overdue
  /\ overdue' = overdue \cup {j}
  /\ lapsed' = lapsed \cup {j}
  /\ UNCHANGED <<submitVars, table, sqsVars, client, troubles>>

-----------------------------------------------------------------------------
\* Routes, in the API function.

\* store() as pending.  Nobody else knows the fresh id, so of its calls only
\* the put has an effect.
SubmitStore(j) ==
  /\ submit[j] = "new"
  /\ submit' = [submit EXCEPT ![j] = "recorded"]
  /\ \/ /\ SharedCache
        /\ Put(j, "pending", "none")
        /\ UNCHANGED local
     \/ /\ ~SharedCache
        /\ local' = local \cup {j}
        /\ UNCHANGED tableVars
  /\ UNCHANGED <<sqsVars, client, troubles, lapsed>>

\* SqsQueue.enqueue, and 202 with the job id.
SubmitSend(j) ==
  /\ submit[j] = "recorded"
  /\ submit' = [submit EXCEPT ![j] = "accepted"]
  /\ message' = [message EXCEPT ![j] = "queued"]
  /\ UNCHANGED <<local, tableVars, invocation, again, copied, failed, client, troubles, lapsed>>

\* A call of the submission fails.  What it has recorded stays behind.
SubmitFails(j) ==
  /\ submit[j] \in {"new", "recorded"}
  /\ submit' = [submit EXCEPT ![j] = "rejected"]
  /\ Trouble(1)
  /\ UNCHANGED <<local, tableVars, sqsVars, client, lapsed>>

\* Mutant: only the pending status keeps a client waiting.
PollGet_TakesProcessing(j) ==
  /\ submit[j] = "accepted"
  /\ client[j] = "polling"
  /\ table[j] \in {"processing"} \cup Settled
  /\ client' = [client EXCEPT ![j] = "deleting"]
  /\ UNCHANGED <<submitVars, tableVars, sqsVars, troubles, lapsed>>

\* Mutant: the failed status is answered like the pending one.
PollGet_NoFailed(j) ==
  /\ submit[j] = "accepted"
  /\ client[j] = "polling"
  /\ SharedCache
  /\ table[j] \in {"none", "completed"}
  /\ client' = [client EXCEPT ![j] = IF table[j] = "none" \/ j \in overdue
                                    THEN "notFound" ELSE "deleting"]
  /\ UNCHANGED <<submitVars, tableVars, sqsVars, troubles, lapsed>>

\* getAsyncResult's resultCache.get.  With a cache per API function instance,
\* another instance than the submitting one knows nothing of the job.
PollGet(j) ==
  /\ submit[j] = "accepted"
  /\ client[j] = "polling"
  /\ \/ /\ SharedCache => table[j] = "none" \/ j \in overdue
        /\ client' = [client EXCEPT ![j] = "notFound"]
     \/ /\ SharedCache
        /\ table[j] \in Settled
        /\ j \notin overdue
        /\ client' = [client EXCEPT ![j] = "deleting"]
  /\ UNCHANGED <<submitVars, tableVars, sqsVars, troubles, lapsed>>

\* resultCache.delete, and the response, which may or may not arrive.
PollDelete(j) ==
  /\ client[j] = "deleting"
  /\ DeleteItem(j)
  /\ client' = [client EXCEPT ![j] = "fetched"]
  /\ UNCHANGED <<submitVars, sqsVars, troubles, lapsed>>

\* The client's timeout passes, or its request fails.
GiveUp(j) ==
  /\ submit[j] = "accepted"
  /\ client[j] \in {"polling", "deleting"}
  /\ client' = [client EXCEPT ![j] = "gaveUp"]
  /\ UNCHANGED <<submitVars, tableVars, sqsVars, troubles, lapsed>>

-----------------------------------------------------------------------------
\* The executor function.

Busy(e) == invocation[e] # Idle
Current(e) == Head(invocation[e].rest)
At(e, call) == Busy(e) /\ invocation[e].at = call

\* Mutant: the loop runs once too often.
NextRecord_NoEnd(e) ==
  [invocation EXCEPT ![e].rest = Tail(invocation[e].rest),
                     ![e].at = "find",
                     ![e].status = "processing"]

\* The loop over event.Records: the next message, or the end.
NextRecord(e) ==
  LET rest == Tail(invocation[e].rest) IN
  [invocation EXCEPT ![e].rest = rest,
                     ![e].at = IF rest = <<>> THEN "return" ELSE "find",
                     ![e].status = "processing"]

WorkedOn(j) == \E e \in Execs : j \in invocation[e].batch

\* Mutant: messages are deleted when they are received.
Invoke_DeletesFirst(e) ==
  /\ ~Busy(e)
  /\ \E j \in Jobs :
       /\ message[j] = "queued"
       /\ ~WorkedOn(j)
       /\ message' = [message EXCEPT ![j] = "deleted"]
       /\ invocation' = [invocation EXCEPT ![e] =
            [at |-> "find", batch |-> {j}, rest |-> <<j>>, status |-> "processing", old |-> "none"]]
  /\ UNCHANGED <<submitVars, tableVars, again, copied, failed, client, troubles, lapsed>>

\* SQS hands out a batch.  A message somebody still works on may be among it.
Invoke(e) ==
  /\ ~Busy(e)
  /\ \E n \in 1..BatchSize :
     \E batch \in [1..n -> {j \in Jobs : message[j] = "queued"}] :
       /\ IsInjective(batch)
       /\ LET copies == {j \in Range(batch) : WorkedOn(j)} IN
            /\ Trouble(Cardinality(copies))
            /\ copied' = copied \cup copies
            /\ again' = again \cup copies
       /\ invocation' = [invocation EXCEPT ![e] =
            [at |-> "find", batch |-> Range(batch), rest |-> batch,
             status |-> "processing", old |-> "none"]]
  /\ UNCHANGED <<submitVars, tableVars, message, failed, client, lapsed>>

\* store(): collection.findOne ...
Find(e) ==
  /\ At(e, "find")
  /\ invocation' = [invocation EXCEPT ![e].at = "delete", ![e].old =
       IF Current(e) \in overdue THEN "overdue"
       ELSE IF table[Current(e)] = "none" THEN "none" ELSE "fresh"]
  /\ UNCHANGED <<submitVars, tableVars, message, again, copied, failed, client, troubles, lapsed>>

\* ... collection.deleteOne ...
DeleteOld(e) ==
  /\ At(e, "delete")
  /\ DeleteItem(Current(e))
  /\ invocation' = [invocation EXCEPT ![e].at = "put"]
  /\ UNCHANGED <<submitVars, message, again, copied, failed, client, troubles, lapsed>>

\* Mutant: the handler looks at event.Records[0] only.
PutNew_FirstOnly(e) ==
  /\ At(e, "put")
  /\ Put(Current(e), invocation[e].status, invocation[e].old)
  /\ invocation' = [invocation EXCEPT ![e].at =
       IF invocation[e].status = "processing" THEN "query" ELSE "return"]
  /\ UNCHANGED <<submitVars, message, again, copied, failed, client, troubles, lapsed>>

\* ... and collection.insertOne.
PutNew(e) ==
  /\ At(e, "put")
  /\ Put(Current(e), invocation[e].status, invocation[e].old)
  /\ invocation' = IF invocation[e].status = "processing"
                    THEN [invocation EXCEPT ![e].at = "query"]
                    ELSE NextRecord(e)
  /\ UNCHANGED <<submitVars, message, again, copied, failed, client, troubles, lapsed>>

\* queryService.execute resolves or rejects.
Query(e) ==
  /\ At(e, "query")
  /\ \E s \in Settled :
       invocation' = [invocation EXCEPT ![e].at = "find", ![e].status = s]
  /\ UNCHANGED <<submitVars, tableVars, message, again, copied, failed, client, troubles, lapsed>>

\* A DynamoDB call fails.  When the result was being stored, execute() catches
\* that and stores the job as failed; otherwise it rejects, and queryExecution
\* notes a failure and goes on with the next message.
CallFails(e) ==
  /\ At(e, "find") \/ At(e, "delete") \/ At(e, "put")
  /\ Trouble(1)
  /\ \/ /\ invocation[e].status = "completed"
        /\ invocation' = [invocation EXCEPT ![e].at = "find", ![e].status = "failed"]
        /\ UNCHANGED failed
     \/ /\ invocation[e].status # "completed"
        /\ invocation' = NextRecord(e)
        /\ failed' = failed \cup {Current(e)}
  /\ UNCHANGED <<submitVars, tableVars, message, again, copied, client, lapsed>>

\* The handler returns and the event source deletes the batch, all of it: the
\* event source mapping does not ask for batchItemFailures.
Return(e) ==
  /\ At(e, "return")
  /\ message' = [j \in Jobs |-> IF j \in invocation[e].batch THEN "deleted" ELSE message[j]]
  /\ invocation' = [invocation EXCEPT ![e] = Idle]
  /\ UNCHANGED <<submitVars, tableVars, again, copied, failed, client, troubles, lapsed>>

\* The invocation is cut short; its messages become visible again.
Crash(e) ==
  /\ Busy(e)
  /\ Trouble(1)
  /\ again' = again \cup {j \in invocation[e].batch : message[j] = "queued"}
  /\ invocation' = [invocation EXCEPT ![e] = Idle]
  /\ UNCHANGED <<submitVars, tableVars, message, copied, failed, client, lapsed>>

-----------------------------------------------------------------------------
PollStep(j) == PollGet(j) \/ PollDelete(j)
ExecStep(e) == Find(e) \/ DeleteOld(e) \/ PutNew(e) \/ Query(e) \/ Return(e)

Next ==
  \/ \E j \in Jobs : \/ SubmitStore(j) \/ SubmitSend(j) \/ SubmitFails(j)
                     \/ PollStep(j) \/ GiveUp(j) \/ Expire(j)
  \/ \E e \in Execs : Invoke(e) \/ ExecStep(e) \/ CallFails(e) \/ Crash(e)

\* SQS hands out its messages, an invocation goes on unless it is cut short, and
\* a client that has not given up polls again.
Fairness ==
  /\ \A e \in Execs : WF_vars(Invoke(e)) /\ WF_vars(ExecStep(e))
  /\ \A j \in Jobs : WF_vars(PollStep(j))

SafetySpec == Init /\ [][Next]_vars
Spec == SafetySpec /\ Fairness
-----------------------------------------------------------------------------
\* An accepted job survives any invocation that is cut short: its message is
\* deleted only after its answer was stored.  The exceptions: the answer was
\* fetched, execute() rejected, or two invocations worked on the job at once.
AcceptedIsNotLost ==
  \A j \in Jobs : submit[j] = "accepted" =>
    \/ message[j] = "queued"
    \/ table[j] \in Settled
    \/ Fetched(j) \/ j \in failed \cup copied

\* A retrieved answer stays deleted unless SQS delivered the message again.
RetrievedStaysGone ==
  \A j \in Jobs : Fetched(j) /\ j \notin again => table[j] = "none"

\* Every accepted job is worked off in the end, however often an invocation is
\* cut short.  The exceptions are those of AcceptedIsNotLost.
AcceptedIsSettled ==
  \A j \in Jobs :
    submit[j] = "accepted" ~>
      table[j] \in Settled \/ Fetched(j) \/ j \in failed \cup copied

\* "Client -> GET -> Result Cache -> Response": once the answer of a job is
\* stored, a client that keeps polling gets it, unless the job expires or SQS
\* has it executed again.  It takes a cache that both functions share.
AnswerReachesClient ==
  \A j \in Jobs :
    client[j] = "polling" /\ submit[j] = "accepted" /\ table[j] \in Settled
      ~> client[j] \in {"fetched", "gaveUp"} \/ j \in lapsed \cup again

-----------------------------------------------------------------------------
\* What the documentation says and the deployed system does not do.

\* 204 stands for "Job not found or expired", and polling returns 202 from the
\* submission on.
NotFoundIsExcused ==
  \A j \in Jobs : client[j] = "notFound" => j \in lapsed \/ Fetched(j)

\* "DynamoDB as the result cache with TTL-based expiry".
ExpiredIsRemoved == \A j \in Jobs : j \in overdue ~> j \notin overdue

\* "batch item failures for any jobs that could not be executed" are for SQS to
\* deliver again.
FailedIsDeliveredAgain ==
  \A j \in Jobs : j \in failed /\ message[j] = "deleted" => table[j] \in Settled
=============================================================================
