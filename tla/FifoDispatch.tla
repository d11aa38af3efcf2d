---------------------------- MODULE FifoDispatch ----------------------------
(***************************************************************************)
(* What the in-process query queue and its workers promise together: jobs  *)
(* are taken up in the order in which they were offered, each by one       *)
(* worker, and a job leaves the system only after a worker took it or when *)
(* the process, and everything it keeps in memory, is gone.                *)
(***************************************************************************)
EXTENDS Sequences, Functions

CONSTANT Jobs

VARIABLES
  pending,  \* jobs offered and not yet taken, oldest first
  active    \* jobs a worker has taken and not yet let go of

vars == <<pending, active>>

Init ==
  /\ pending = <<>>
  /\ active = {}

\* A new job goes to the back of the line, or straight to a worker when there
\* is no line: it never overtakes a job that was offered before it.
Offer(j) ==
  /\ j \notin Range(pending) \cup active
  /\ \/ /\ pending' = Append(pending, j)
        /\ UNCHANGED active
     \/ /\ pending = <<>>
        /\ active' = active \cup {j}
        /\ UNCHANGED pending

Take ==
  /\ pending # <<>>
  /\ pending' = Tail(pending)
  /\ active' = active \cup {Head(pending)}

LetGo(j) ==
  /\ j \in active
  /\ active' = active \ {j}
  /\ UNCHANGED pending

Lose ==
  /\ pending' = <<>>
  /\ active' = {}

Next ==
  \/ \E j \in Jobs : Offer(j) \/ LetGo(j)
  \/ Take
  \/ Lose

Spec == Init /\ [][Next]_vars
=============================================================================
