---------------------------- MODULE JobLifecycle ----------------------------
(***************************************************************************)
(* What the asynchronous query API promises about one job, whatever runs   *)
(* it: its record goes from pending to processing to completed or failed   *)
(* and never back, expiry and restarts may take the record away at any     *)
(* time, and once an answer has been given to a client nothing about the   *)
(* job is ever recorded again.                                             *)
(***************************************************************************)
CONSTANT Jobs

VARIABLES
  status,   \* the record's status, "none" when there is no record
  answered  \* jobs whose result or failure was taken out for a client

vars == <<status, answered>>

Settled == {"completed", "failed"}

Init ==
  /\ status = [j \in Jobs |-> "none"]
  /\ answered = {}

Record(j, from, to) ==
  /\ j \notin answered
  /\ status[j] \in from
  /\ status' = [status EXCEPT ![j] = to]
  /\ UNCHANGED answered

Submit(j) == Record(j, {"none"}, "pending")

\* A record that expired while the job waited or ran is written anew.
Begin(j) == Record(j, {"none", "pending"}, "processing")
Settle(j) == \E s \in Settled : Record(j, {"none", "processing"}, s)

\* The answer is taken out of the record's place; it may have expired since.
Deliver(j) ==
  /\ status[j] \in {"none"} \cup Settled
  /\ status' = [status EXCEPT ![j] = "none"]
  /\ answered' = answered \cup {j}

\* Expiry takes one record, the end of the process all of them.
Discard ==
  /\ \E gone \in SUBSET Jobs :
       status' = [j \in Jobs |-> IF j \in gone THEN "none" ELSE status[j]]
  /\ UNCHANGED answered

Next ==
  \/ \E j \in Jobs : Submit(j) \/ Begin(j) \/ Settle(j) \/ Deliver(j)
  \/ Discard

Spec == Init /\ [][Next]_vars
=============================================================================
