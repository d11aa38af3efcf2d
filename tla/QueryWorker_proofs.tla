-------------------------- MODULE QueryWorker_proofs ------------------------
(***************************************************************************)
(* Proofs about QueryWorker, for any number of jobs, loops and restarts of *)
(* the worker: type correctness, the safety of the hand-over between queue *)
(* and loops, and the implementation of FifoDispatch.                      *)
(***************************************************************************)
EXTENDS QueryWorker, TLAPS

-----------------------------------------------------------------------------
(* What Append and Tail do to the elements of a sequence without duplicates. *)

\* Range of a sequence, element by element.
LEMMA RangeOfSeq ==
  ASSUME NEW S, NEW s \in Seq(S), NEW x
  PROVE  x \in Range(s) <=> \E i \in 1..Len(s) : s[i] = x
<1>1. DOMAIN s = 1..Len(s)
  OBVIOUS
<1>2. x \in Range(s) <=> \E i \in DOMAIN s : s[i] = x
  BY DEF Range
<1> QED BY <1>1, <1>2

\* Appending an element the sequence does not have keeps it free of duplicates.
LEMMA AppendDistinct ==
  ASSUME NEW S, NEW s \in Seq(S), NEW x \in S,
         IsInjective(s), x \notin Range(s)
  PROVE  /\ Append(s, x) \in Seq(S)
         /\ IsInjective(Append(s, x))
         /\ Range(Append(s, x)) = Range(s) \cup {x}
<1> DEFINE t == Append(s, x)
<1>1. /\ t \in Seq(S) /\ Len(t) = Len(s) + 1
      /\ \A i \in 1..Len(s) : t[i] = s[i]
      /\ t[Len(s) + 1] = x
      /\ DOMAIN s = 1..Len(s) /\ DOMAIN t = 1..(Len(s) + 1)
      /\ Len(s) \in Nat
  OBVIOUS
<1>2. \A i \in 1..Len(s) : s[i] # x
  BY RangeOfSeq
<1>3. IsInjective(t)
  BY <1>1, <1>2 DEF IsInjective
<1>4. Range(t) = Range(s) \cup {x}
  <2> HIDE DEF t
  <2>1. ASSUME NEW y PROVE y \in Range(t) <=> y \in Range(s) \cup {x}
    BY <1>1, RangeOfSeq
  <2> QED BY <2>1
<1> QED BY <1>1, <1>3, <1>4

\* Without duplicates, Tail removes exactly the head.
LEMMA TailDistinct ==
  ASSUME NEW S, NEW s \in Seq(S), s # <<>>, IsInjective(s)
  PROVE  /\ Tail(s) \in Seq(S)
         /\ Head(s) \in S
         /\ Head(s) \in Range(s)
         /\ IsInjective(Tail(s))
         /\ Range(Tail(s)) = Range(s) \ {Head(s)}
<1> DEFINE t == Tail(s)
<1>1. /\ t \in Seq(S) /\ Len(t) = Len(s) - 1
      /\ \A i \in 1..Len(t) : t[i] = s[i + 1]
      /\ Head(s) = s[1]
      /\ DOMAIN s = 1..Len(s) /\ DOMAIN t = 1..Len(t)
      /\ Len(s) \in Nat /\ Len(s) # 0 /\ Len(t) \in Nat
  OBVIOUS
<1>2. IsInjective(t)
  BY <1>1 DEF IsInjective
<1>3. Range(t) = Range(s) \ {Head(s)}
  <2> HIDE DEF t
  <2>1. ASSUME NEW y \in Range(t) PROVE y \in Range(s) \ {Head(s)}
    <3>1. PICK i \in 1..Len(t) : t[i] = y
      BY <1>1, RangeOfSeq
    <3>2. s[i + 1] = y /\ i + 1 \in 1..Len(s) /\ i + 1 # 1 /\ 1 \in 1..Len(s)
      BY <1>1, <3>1
    <3> QED BY <1>1, <3>2, RangeOfSeq DEF IsInjective
  <2>2. ASSUME NEW y \in Range(s) \ {Head(s)} PROVE y \in Range(t)
    <3>1. PICK i \in 1..Len(s) : s[i] = y
      BY RangeOfSeq
    <3>2. i - 1 \in 1..Len(t) /\ t[i - 1] = y
      BY <1>1, <3>1
    <3> QED BY <1>1, <3>2, RangeOfSeq
  <2> QED BY <2>1, <2>2
<1>4. Head(s) \in Range(s)
  BY <1>1, RangeOfSeq
<1> QED BY <1>1, <1>2, <1>3, <1>4

-----------------------------------------------------------------------------
(* Type correctness. *)

LEMMA TypeInit == Init => TypeOK
<1>1. Init => queue \in Seq(Jobs) BY DEF Init
<1>2. Init => waiting \in Seq(Loops) BY DEF Init
<1>3. Init => running \in BOOLEAN BY DEF Init
<1>4. Init => pc \in [Loops -> LoopState] BY DEF Init, LoopState
<1>5. Init => held \in [Loops -> Jobs \cup {NoJob}] BY DEF Init
<1> QED BY <1>1, <1>2, <1>3, <1>4, <1>5 DEF TypeOK

LEMMA TypeStep == TypeOK /\ [Next]_vars => TypeOK'
<1> SUFFICES ASSUME TypeOK, [Next]_vars PROVE TypeOK'
  OBVIOUS
<1> USE DEF TypeOK, LoopState
<1>1. ASSUME NEW j \in Jobs, Enqueue(j) PROVE TypeOK'
  <2>1. CASE waiting # <<>>
    <3>1. Head(waiting) \in Loops /\ Tail(waiting) \in Seq(Loops)
      BY <2>1
    <3> QED BY <1>1, <2>1, <3>1 DEF Enqueue
  <2>2. CASE waiting = <<>>
    <3>1. Append(queue, j) \in Seq(Jobs)
      OBVIOUS
    <3> QED BY <1>1, <2>2, <3>1 DEF Enqueue
  <2> QED BY <2>1, <2>2
<1>2. ASSUME NEW l \in Loops, LoopStep(l) PROVE TypeOK'
  <2>1. CASE Quit(l) BY <2>1 DEF Quit
  <2>2. CASE Dequeue(l) BY <2>2 DEF Dequeue
  <2>3. CASE Park(l) BY <2>3 DEF Park
  <2>4. CASE Begin(l) BY <2>4 DEF Begin
  <2>5. CASE Drop(l) BY <2>5 DEF Drop
  <2>6. CASE Finish(l) BY <2>6 DEF Finish
  <2>7. CASE Continue(l) BY <2>7 DEF Continue
  <2> QED BY <1>2, <2>1, <2>2, <2>3, <2>4, <2>5, <2>6, <2>7 DEF LoopStep
<1>3. CASE Start BY <1>3 DEF Start
<1>4. CASE Stop BY <1>4 DEF Stop
<1>5. CASE Reboot
  <2>1. queue' \in Seq(Jobs) BY <1>5 DEF Reboot
  <2>2. waiting' \in Seq(Loops) BY <1>5 DEF Reboot
  <2>3. running' \in BOOLEAN BY <1>5 DEF Reboot
  <2>4. pc' \in [Loops -> LoopState] BY <1>5 DEF Reboot
  <2>5. held' \in [Loops -> Jobs \cup {NoJob}] BY <1>5 DEF Reboot
  <2> QED BY <2>1, <2>2, <2>3, <2>4, <2>5
<1>6. CASE UNCHANGED vars BY <1>6 DEF vars
<1> QED BY <1>1, <1>2, <1>3, <1>4, <1>5, <1>6 DEF Next

\* Every variable keeps its type: in particular a resolved dequeue() always
\* names a loop of the worker and carries a job.
THEOREM TypeCorrect == SafetySpec => []TypeOK
BY TypeInit, TypeStep, PTL DEF SafetySpec

-----------------------------------------------------------------------------
(* The hand-over between the queue and the loops. *)

IInv == TypeOK /\ WaitersAreParked /\ NoIdleLoopWhileQueued /\ OnePlace

LEMMA InitIInv == Init => IInv
<1> SUFFICES ASSUME Init PROVE IInv
  OBVIOUS
<1>1. TypeOK
  BY TypeInit
<1>2. Range(<<>>) = {} /\ IsInjective(<<>>)
  BY DEF Range, IsInjective
<1>3. WaitersAreParked
  BY <1>2 DEF Init, WaitersAreParked
<1>4. NoIdleLoopWhileQueued
  BY DEF Init, NoIdleLoopWhileQueued
<1>5. OnePlace
  BY <1>2 DEF Init, OnePlace, Carrying
<1> QED BY <1>1, <1>3, <1>4, <1>5 DEF IInv

\* push(): a message not yet in the process goes to one place, and the loop it
\* is handed to stops waiting.
LEMMA EnqueueIInv ==
  ASSUME IInv, TypeOK', NEW j \in Jobs, Enqueue(j)
  PROVE  IInv'
<1> USE DEF IInv
<1>1. j \notin Range(queue) /\ \A l \in Loops : held[l] # j
  BY JobsAssumption DEF Enqueue, InSystem, InHand, OnePlace
<1>2. CASE waiting # <<>>
  <2> DEFINE w == Head(waiting)
  <2>1. /\ w \in Loops /\ w \in Range(waiting)
        /\ IsInjective(Tail(waiting))
        /\ Range(Tail(waiting)) = Range(waiting) \ {w}
    BY <1>2, TailDistinct DEF TypeOK, WaitersAreParked
  <2>2. /\ waiting' = Tail(waiting) /\ queue' = queue
        /\ pc' = [pc EXCEPT ![w] = "holding"]
        /\ held' = [held EXCEPT ![w] = j]
    BY <1>2 DEF Enqueue
  <2>3. pc[w] = "parked"
    BY <2>1 DEF WaitersAreParked
  <2> HIDE DEF w
  <2>4. WaitersAreParked'
    BY <2>1, <2>2, <2>3 DEF WaitersAreParked, TypeOK, IsInjective
  <2>5. NoIdleLoopWhileQueued'
    BY <1>2, <2>2 DEF NoIdleLoopWhileQueued
  <2>6. OnePlace'
    BY <1>1, <2>1, <2>2, <2>3, JobsAssumption DEF OnePlace, TypeOK, Carrying, IsInjective
  <2> QED BY <2>4, <2>5, <2>6
<1>3. CASE waiting = <<>>
  <2>1. queue' = Append(queue, j) /\ UNCHANGED <<waiting, pc, held>>
    BY <1>3 DEF Enqueue
  <2>2. IsInjective(queue') /\ Range(queue') = Range(queue) \cup {j}
    BY <1>1, <2>1, AppendDistinct DEF TypeOK, OnePlace
  <2>3. WaitersAreParked'
    BY <2>1 DEF WaitersAreParked, IsInjective
  <2>4. NoIdleLoopWhileQueued'
    BY <1>3, <2>1 DEF NoIdleLoopWhileQueued
  <2>5. OnePlace'
    BY <1>1, <2>1, <2>2 DEF OnePlace, IsInjective
  <2> QED BY <2>3, <2>4, <2>5
<1> QED BY <1>2, <1>3

\* pop() with a message to give.
LEMMA DequeueIInv ==
  ASSUME IInv, TypeOK', NEW l \in Loops, Dequeue(l)
  PROVE  IInv'
<1> USE DEF IInv
<1>1. /\ Head(queue) \in Jobs /\ Head(queue) \in Range(queue)
      /\ IsInjective(Tail(queue))
      /\ Range(Tail(queue)) = Range(queue) \ {Head(queue)}
  BY TailDistinct DEF Dequeue, TypeOK, OnePlace
<1> DEFINE h == Head(queue)
<1>2. /\ queue' = Tail(queue) /\ waiting' = waiting
      /\ pc' = [pc EXCEPT ![l] = "holding"]
      /\ held' = [held EXCEPT ![l] = h]
      /\ pc[l] = "top" /\ queue # <<>>
  BY DEF Dequeue
<1> HIDE DEF h
<1>3. WaitersAreParked'
  BY <1>2 DEF WaitersAreParked, TypeOK, IsInjective
<1>4. NoIdleLoopWhileQueued'
  BY <1>2 DEF NoIdleLoopWhileQueued
<1>5. h # NoJob /\ \A k \in Loops : held[k] # h
  BY <1>1, JobsAssumption DEF OnePlace, h
<1>6. h \notin Range(queue') /\ Range(queue') \subseteq Range(queue) /\ IsInjective(queue')
  BY <1>1, <1>2 DEF h
<1>7. OnePlace'
  BY <1>2, <1>5, <1>6 DEF OnePlace, TypeOK, Carrying
<1> QED BY <1>3, <1>4, <1>7

\* pop() without one: the loop's resolver joins the line.
LEMMA ParkIInv ==
  ASSUME IInv, TypeOK', NEW l \in Loops, Park(l)
  PROVE  IInv'
<1> USE DEF IInv
<1>1. l \notin Range(waiting)
  BY DEF WaitersAreParked, Park
<1>2. IsInjective(waiting') /\ Range(waiting') = Range(waiting) \cup {l}
  BY <1>1, AppendDistinct DEF Park, TypeOK, WaitersAreParked
<1>3. WaitersAreParked'
  BY <1>2 DEF WaitersAreParked, Park, TypeOK
<1>4. NoIdleLoopWhileQueued'
  BY DEF NoIdleLoopWhileQueued, Park
<1>5. OnePlace'
  BY DEF OnePlace, Park, TypeOK, Carrying, IsInjective
<1> QED BY <1>3, <1>4, <1>5

\* The steps of a loop that leave the channel alone.
LEMMA LoopIInv ==
  ASSUME IInv, TypeOK', NEW l \in Loops,
         Quit(l) \/ Begin(l) \/ Drop(l) \/ Finish(l) \/ Continue(l)
  PROVE  IInv'
<1> USE DEF IInv
<1>1. /\ queue' = queue /\ waiting' = waiting
      /\ pc[l] # "parked" /\ pc'[l] # "parked"
      /\ \A k \in Loops : k # l => pc'[k] = pc[k] /\ held'[k] = held[k]
      /\ \/ held'[l] = held[l] /\ (pc'[l] \in Carrying <=> pc[l] \in Carrying)
         \/ held'[l] = NoJob /\ pc'[l] \notin Carrying
  BY DEF Quit, Begin, Drop, Finish, Continue, TypeOK, Carrying
<1>2. WaitersAreParked'
  BY <1>1 DEF WaitersAreParked, IsInjective
<1>3. NoIdleLoopWhileQueued'
  BY <1>1 DEF NoIdleLoopWhileQueued
<1>4. NoJob \notin Range(queue)
  BY JobsAssumption, RangeOfSeq DEF TypeOK
<1>5. OnePlace'
  BY <1>1, <1>4 DEF OnePlace, IsInjective
<1> QED BY <1>2, <1>3, <1>5

LEMMA NextIInv == IInv /\ TypeOK' /\ [Next]_vars => IInv'
<1> SUFFICES ASSUME IInv, TypeOK', [Next]_vars PROVE IInv'
  OBVIOUS
<1>1. ASSUME NEW j \in Jobs, Enqueue(j) PROVE IInv'
  BY <1>1, EnqueueIInv
<1>2. ASSUME NEW l \in Loops, LoopStep(l) PROVE IInv'
  BY <1>2, DequeueIInv, ParkIInv, LoopIInv DEF LoopStep
<1>3. CASE Start
  <2>1. PICK fresh \in SUBSET {l \in Loops : pc[l] = "unborn"} :
          pc' = [l \in Loops |-> IF l \in fresh THEN "top" ELSE pc[l]]
    BY <1>3 DEF Start
  <2>2. \A l \in Loops : /\ pc'[l] = "parked" <=> pc[l] = "parked"
                         /\ pc'[l] \in Carrying <=> pc[l] \in Carrying
    BY <2>1 DEF Carrying
  <2> QED BY <1>3, <2>2
          DEF Start, IInv, WaitersAreParked, NoIdleLoopWhileQueued, OnePlace, IsInjective
<1>4. CASE Stop
  BY <1>4 DEF Stop, IInv, WaitersAreParked, NoIdleLoopWhileQueued, OnePlace, IsInjective
<1>5. CASE Reboot
  <2>1. Range(<<>>) = {} /\ IsInjective(<<>>)
    BY DEF Range, IsInjective
  <2> QED BY <1>5, <2>1
          DEF Reboot, IInv, WaitersAreParked, NoIdleLoopWhileQueued, OnePlace, Carrying
<1>6. CASE UNCHANGED vars
  BY <1>6 DEF vars, IInv, WaitersAreParked, NoIdleLoopWhileQueued, OnePlace, IsInjective
<1> QED BY <1>1, <1>2, <1>3, <1>4, <1>5, <1>6 DEF Next

\* Queue and loops never disagree about who waits, no loop waits while a message
\* is queued, and no message is in two places.
THEOREM HandOver ==
  SafetySpec => [](WaitersAreParked /\ NoIdleLoopWhileQueued /\ OnePlace)
<1>1. IInv => WaitersAreParked /\ NoIdleLoopWhileQueued /\ OnePlace
  BY DEF IInv
<1> QED BY <1>1, InitIInv, NextIInv, TypeCorrect, PTL DEF SafetySpec

\* Each resolver in QueueChannel's waiting list belongs to the loop parked at it, in
\* the same order, also after stop() and a second start().
THEOREM WaitersArePaired == SafetySpec => []WaitersAreParked
BY HandOver, PTL

\* push hands a message to a waiting loop at once: the queue is empty while one waits.
THEOREM NothingIdles == SafetySpec => []NoIdleLoopWhileQueued
BY HandOver, PTL
-----------------------------------------------------------------------------
(* Queue and loops implement FifoDispatch. *)

\* InHand only looks at the loops that carry a message.
LEMMA InHandDef ==
  ASSUME NEW x
  PROVE  /\ x \in InHand <=> \E l \in Loops : pc[l] \in Carrying /\ x = held[l]
         /\ x \in InHand' <=> \E l \in Loops : pc'[l] \in Carrying /\ x = held'[l]
BY DEF InHand

LEMMA InHandUnchanged ==
  ASSUME \A l \in Loops : /\ pc'[l] \in Carrying <=> pc[l] \in Carrying
                          /\ held'[l] = held[l]
  PROVE  InHand' = InHand
BY InHandDef

\* A loop without a message gets one.
LEMMA InHandGrows ==
  ASSUME TypeOK, NEW l \in Loops, NEW x, pc[l] \notin Carrying,
         pc' = [pc EXCEPT ![l] = "holding"], held' = [held EXCEPT ![l] = x]
  PROVE  InHand' = InHand \cup {x}
<1>1. /\ pc'[l] \in Carrying /\ held'[l] = x
      /\ \A k \in Loops : k # l => pc'[k] = pc[k] /\ held'[k] = held[k]
  BY DEF TypeOK, Carrying
<1>2. ASSUME NEW y PROVE y \in InHand' <=> y \in InHand \cup {x}
  BY <1>1, InHandDef
<1> QED BY <1>2

\* A loop lets go of its message.
LEMMA InHandShrinks ==
  ASSUME TypeOK, OnePlace, NEW l \in Loops, pc[l] \in Carrying, pc'[l] \notin Carrying,
         \A k \in Loops : k # l => pc'[k] = pc[k] /\ held'[k] = held[k]
  PROVE  InHand' = InHand \ {held[l]} /\ held[l] \in Jobs \cap InHand
<1>1. \A k \in Loops : pc[k] \in Carrying /\ held[k] = held[l] => k = l
  BY DEF OnePlace
<1>2. ASSUME NEW y PROVE y \in InHand' <=> y \in InHand \ {held[l]}
  BY <1>1, InHandDef
<1>3. held[l] \in Jobs /\ held[l] \in InHand
  BY InHandDef DEF OnePlace, TypeOK
<1> QED BY <1>2, <1>3

LEMMA StepRefines == IInv /\ [Next]_vars => [F!Next]_(F!vars)
<1> SUFFICES ASSUME IInv, [Next]_vars PROVE [F!Next]_(F!vars)
  OBVIOUS
<1> USE DEF F!vars
<1>1. ASSUME NEW j \in Jobs, Enqueue(j) PROVE F!Offer(j)
  <2>0. F!Range(queue) = Range(queue)
    BY DEF F!Range, Range
  <2>1. CASE waiting # <<>>
    <3> DEFINE w == Head(waiting)
    <3>1. w \in Loops /\ pc[w] = "parked"
      BY <2>1, TailDistinct DEF IInv, TypeOK, WaitersAreParked
    <3>2. queue = <<>> /\ queue' = queue
      BY <1>1, <2>1 DEF Enqueue, IInv, NoIdleLoopWhileQueued
    <3>3. InHand' = InHand \cup {j}
      BY <1>1, <2>1, <3>1, InHandGrows DEF Enqueue, IInv, Carrying
    <3> QED BY <1>1, <2>0, <3>2, <3>3 DEF F!Offer, Enqueue, InSystem
  <2>2. CASE waiting = <<>>
    <3>1. InHand' = InHand
      BY <1>1, <2>2, InHandUnchanged DEF Enqueue
    <3> QED BY <1>1, <2>0, <2>2, <3>1 DEF F!Offer, Enqueue, InSystem
  <2> QED BY <2>1, <2>2
<1>2. ASSUME NEW l \in Loops, Dequeue(l) PROVE F!Take
  <2>1. InHand' = InHand \cup {Head(queue)}
    BY <1>2, InHandGrows DEF Dequeue, IInv, Carrying
  <2> QED BY <1>2, <2>1 DEF F!Take, Dequeue
<1>3. ASSUME NEW l \in Loops, Drop(l) \/ Finish(l)
      PROVE  \E j \in Jobs : F!LetGo(j)
  <2>1. /\ queue' = queue /\ pc[l] \in Carrying /\ pc'[l] \notin Carrying
        /\ \A k \in Loops : k # l => pc'[k] = pc[k] /\ held'[k] = held[k]
    BY <1>3 DEF Drop, Finish, IInv, TypeOK, Carrying
  <2>2. InHand' = InHand \ {held[l]} /\ held[l] \in Jobs \cap InHand
    BY <2>1, InHandShrinks DEF IInv
  <2> QED BY <2>1, <2>2 DEF F!LetGo
<1>4. ASSUME NEW l \in Loops, Quit(l) \/ Park(l) \/ Begin(l) \/ Continue(l)
      PROVE  UNCHANGED <<queue, InHand>>
  <2>1. /\ \A k \in Loops : pc'[k] \in Carrying <=> pc[k] \in Carrying
        /\ held' = held /\ queue' = queue
    BY <1>4 DEF Quit, Park, Begin, Continue, IInv, TypeOK, Carrying
  <2> QED BY <2>1, InHandUnchanged
<1>5. CASE Start
  <2>1. /\ \A k \in Loops : pc'[k] \in Carrying <=> pc[k] \in Carrying
        /\ held' = held /\ queue' = queue
    BY <1>5 DEF Start, Carrying
  <2> QED BY <2>1, InHandUnchanged
<1>6. CASE Stop
  BY <1>6, InHandUnchanged DEF Stop
<1>7. CASE Reboot
  <2>1. ASSUME NEW y PROVE y \notin InHand'
    BY <1>7, InHandDef DEF Reboot, Carrying
  <2> QED BY <1>7, <2>1 DEF Reboot, F!Next, F!Lose
<1>8. CASE UNCHANGED vars
  BY <1>8, InHandUnchanged DEF vars
<1>9. ASSUME NEW l \in Loops, LoopStep(l) PROVE [F!Next]_(F!vars)
  BY <1>2, <1>3, <1>4, <1>9 DEF LoopStep, F!Next
<1>10. ASSUME NEW j \in Jobs, Enqueue(j) PROVE [F!Next]_(F!vars)
  BY <1>1, <1>10 DEF F!Next
<1> QED BY <1>5, <1>6, <1>7, <1>8, <1>9, <1>10 DEF Next

\* Jobs leave the queue in the order in which they entered it and each goes to
\* one loop, whatever start() and stop() calls come in between.
THEOREM WorkerImplementsFifo == SafetySpec => TakenInOrder
<1>1. Init => F!Init
  BY InHandDef DEF Init, F!Init, Carrying
<1>2. SafetySpec => []IInv
  BY InitIInv, NextIInv, TypeCorrect, PTL DEF SafetySpec
<1> QED BY <1>1, <1>2, StepRefines, PTL DEF SafetySpec, TakenInOrder, F!Spec
=============================================================================
