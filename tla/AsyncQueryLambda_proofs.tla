----------------------- MODULE AsyncQueryLambda_proofs ----------------------
(***************************************************************************)
(* Proofs about AsyncQueryLambda, for any number of jobs, invocations,     *)
(* batch sizes and troubles: type correctness, and that neither a crash,   *)
(* nor a failed call, nor a second delivery makes an accepted job vanish   *)
(* or brings a retrieved answer back.                                      *)
(***************************************************************************)
EXTENDS AsyncQueryLambda, FiniteSetTheorems, SequenceTheorems, TLAPS

-----------------------------------------------------------------------------
(* What becomes of one invocation record. *)

Left(e) == Range(invocation[e].rest)

\* The loop of an invocation: it is at a call exactly while messages are left,
\* no message twice, and all of its messages have been sent.
Loop(e) ==
  /\ invocation[e].rest # <<>> <=> invocation[e].at \in {"find", "delete", "put", "query"}
  /\ IsInjective(invocation[e].rest)
  /\ Left(e) \subseteq invocation[e].batch
  /\ invocation[e].status \in {"processing"} \cup Settled
  /\ \A j \in invocation[e].batch : message[j] # "unsent"

\* Where a job's submission, its message and its client stand.
Stages(j) ==
  /\ message[j] = "unsent" <=> submit[j] # "accepted"
  /\ client[j] # "polling" => submit[j] = "accepted"
  /\ submit[j] # "accepted" => table[j] \notin Settled

Types ==
  /\ TypeOK
  /\ invocation \in [Execs -> Invocation \cup {Idle}]
  /\ copied \subseteq again
  /\ \A e \in Execs : Loop(e)
  /\ \A j \in Jobs : Stages(j)

\* A record with the fields of an invocation; Idle has them too.
Record ==
  [at : {"find", "delete", "put", "query", "return", "idle"},
   batch : SUBSET Jobs, rest : Seq(Jobs), status : Status, old : Old]

LEMMA IdleFields ==
  /\ Idle \in Record
  /\ Idle.at = "idle" /\ Idle.batch = {} /\ Idle.rest = <<>> /\ Idle.status = "processing"
  /\ Range(Idle.rest) = {} /\ IsInjective(Idle.rest)
<1>1. Idle.at = "idle" /\ Idle.batch = {} /\ Idle.rest = <<>> /\ Idle.status = "processing" /\ Idle.old = "none"
  BY DEF Idle
<1>2. Idle \in Record
  BY <1>1 DEF Idle, Record, Status, Old
<1>3. Range(Idle.rest) = {} /\ IsInjective(Idle.rest)
  <2>1. DOMAIN Idle.rest = {}
    BY <1>1
  <2> QED BY <2>1 DEF Range, IsInjective
<1> QED BY <1>1, <1>2, <1>3

LEMMA InvocationFields ==
  ASSUME NEW r \in Invocation \cup {Idle}
  PROVE  /\ r \in Record
         /\ r # Idle => r \in Invocation
         /\ r.at # "idle" => r \in Invocation
         /\ r = Idle => r.at = "idle" /\ r.batch = {} /\ r.rest = <<>> /\ r.status = "processing"
<1>1. CASE r = Idle
  BY <1>1, IdleFields
<1>2. CASE r \in Invocation
  BY <1>2, IdleFields DEF Invocation, Record
<1> QED BY <1>1, <1>2

\* The head of a sequence without duplicates, and its tail.
LEMMA TailDistinct ==
  ASSUME NEW S, NEW s \in Seq(S), s # <<>>, IsInjective(s)
  PROVE  /\ Tail(s) \in Seq(S)
         /\ Head(s) \in S
         /\ Head(s) \in Range(s)
         /\ IsInjective(Tail(s))
         /\ Range(Tail(s)) = Range(s) \ {Head(s)}
<1> DEFINE t == Tail(s)
<1>1. /\ t \in Seq(S) /\ Len(t) = Len(s) - 1
      /\ \A i \in 1..Len(t) : t[i] = s[i + 1]
      /\ Head(s) = s[1]
      /\ DOMAIN s = 1..Len(s) /\ DOMAIN t = 1..Len(t)
      /\ Len(s) \in Nat /\ Len(s) # 0 /\ Len(t) \in Nat
  OBVIOUS
<1> HIDE DEF t
<1>2. IsInjective(t)
  BY <1>1 DEF IsInjective
<1>3. Range(t) = Range(s) \ {Head(s)}
  <2>1. ASSUME NEW y \in Range(t) PROVE y \in Range(s) \ {Head(s)}
    <3>1. PICK i \in 1..Len(t) : t[i] = y
      BY <1>1, <2>1 DEF Range
    <3>2. s[i + 1] = y /\ i + 1 \in 1..Len(s) /\ i + 1 # 1 /\ 1 \in 1..Len(s)
      BY <1>1, <3>1
    <3> QED BY <1>1, <3>2 DEF IsInjective, Range
  <2>2. ASSUME NEW y \in Range(s) \ {Head(s)} PROVE y \in Range(t)
    <3>1. PICK i \in 1..Len(s) : s[i] = y
      BY <1>1, <2>2 DEF Range
    <3>2. i - 1 \in 1..Len(t) /\ t[i - 1] = y
      BY <1>1, <2>2, <3>1
    <3> QED BY <1>1, <3>2 DEF Range
  <2> QED BY <2>1, <2>2
<1>4. Head(s) \in Range(s) /\ Head(s) \in S
  <2>1. 1 \in 1..Len(s) BY <1>1
  <2>2. s[1] \in S BY <2>1, ElementOfSeq
  <2> QED BY <1>1, <2>1, <2>2 DEF Range
<1> QED BY <1>1, <1>2, <1>3, <1>4 DEF t

-----------------------------------------------------------------------------
(* What a step does to the invocations, seen from outside: whose batch a     *)
(* job is in and who has it still to do.                                     *)

Others(e) == \A f \in Execs \ {e} : invocation'[f] = invocation[f]

\* e stays with its current message.
Stays(e) ==
  /\ Others(e)
  /\ invocation'[e].batch = invocation[e].batch
  /\ Range(invocation'[e].rest) = Left(e)

\* e is done with its current message.
Moves(e) ==
  /\ Others(e)
  /\ invocation'[e].batch = invocation[e].batch
  /\ Range(invocation'[e].rest) = Left(e) \ {Current(e)}

\* e ends.
Ends(e) == Others(e) /\ invocation'[e] = Idle

\* What the typing of an invocation asks of it after the step.
Sound(e) ==
  LET r == invocation'[e] IN
  /\ r \in Invocation \cup {Idle}
  /\ r.rest # <<>> <=> r.at \in {"find", "delete", "put", "query"}
  /\ IsInjective(r.rest)
  /\ Range(r.rest) \subseteq r.batch
  /\ r.status \in {"processing"} \cup Settled

\* Whoever has a call to make has a current message.
LEMMA AtCall ==
  ASSUME Types, NEW e \in Execs, At(e, "find") \/ At(e, "delete") \/ At(e, "put") \/ At(e, "query")
  PROVE  /\ invocation[e] \in Invocation
         /\ invocation[e].rest # <<>>
         /\ Current(e) \in Jobs /\ Current(e) \in Left(e)
<1>1. invocation[e] \in Invocation /\ invocation[e].rest # <<>>
  BY InvocationFields DEF Types, At, Busy, Loop
<1>2. invocation[e].rest \in Seq(Jobs) /\ IsInjective(invocation[e].rest)
  BY <1>1 DEF Types, Loop, Invocation
<1> QED BY <1>1, <1>2, TailDistinct DEF Current, Left

\* Changing the call, the status or the item found leaves the messages alone.
LEMMA SameMessage ==
  ASSUME Types, NEW e \in Execs, invocation[e].rest # <<>>,
         NEW r \in Invocation, invocation' = [invocation EXCEPT ![e] = r],
         r.batch = invocation[e].batch, r.rest = invocation[e].rest,
         r.at \in {"find", "delete", "put", "query"}, r.status \in {"processing"} \cup Settled
  PROVE  /\ invocation' \in [Execs -> Invocation \cup {Idle}]
         /\ Sound(e) /\ Stays(e)
<1>1. invocation'[e] = r
  BY DEF Types
<1>2. invocation' \in [Execs -> Invocation \cup {Idle}] /\ Others(e)
  BY DEF Types, Others
<1>3. Sound(e) /\ Stays(e)
  BY <1>1, <1>2 DEF Types, Loop, Sound, Stays, Left
<1> QED BY <1>2, <1>3

\* NextRecord leaves the current message behind.
LEMMA NextMessage ==
  ASSUME Types, NEW e \in Execs, invocation[e] \in Invocation, invocation[e].rest # <<>>,
         invocation' = NextRecord(e)
  PROVE  /\ invocation' \in [Execs -> Invocation \cup {Idle}]
         /\ Sound(e) /\ Moves(e)
<1> DEFINE rest == Tail(invocation[e].rest)
           at == IF rest = <<>> THEN "return" ELSE "find"
           r == [invocation[e] EXCEPT !.rest = rest, !.at = at, !.status = "processing"]
<1>1. /\ rest \in Seq(Jobs) /\ IsInjective(rest)
      /\ Range(rest) = Left(e) \ {Current(e)}
  <2>1. invocation[e].rest \in Seq(Jobs) /\ IsInjective(invocation[e].rest)
    BY DEF Types, Loop, Invocation
  <2> QED BY <2>1, TailDistinct DEF Left, Current
<1>2. invocation' = [invocation EXCEPT ![e] = r]
  BY DEF Types, NextRecord
<1> HIDE DEF rest
<1>3. at \in {"find", "return"} /\ (rest = <<>> <=> at = "return")
  OBVIOUS
<1> HIDE DEF at
<1>4. /\ r \in Invocation
      /\ r.at = at /\ r.status = "processing"
      /\ r.batch = invocation[e].batch /\ r.rest = rest
  BY <1>1, <1>3 DEF Invocation, Status
<1> HIDE DEF r
<1>5. invocation'[e] = r
  BY <1>2 DEF Types
<1>6. invocation' \in [Execs -> Invocation \cup {Idle}] /\ Others(e)
  BY <1>2, <1>4 DEF Types, Others
<1>7. Sound(e) /\ Moves(e)
  BY <1>1, <1>3, <1>4, <1>5, <1>6 DEF Types, Loop, Sound, Moves, Left
<1> QED BY <1>6, <1>7

\* Return and Crash leave the executor idle.
LEMMA Ended ==
  ASSUME Types, NEW e \in Execs, invocation' = [invocation EXCEPT ![e] = Idle]
  PROVE  /\ invocation' \in [Execs -> Invocation \cup {Idle}]
         /\ Sound(e) /\ Ends(e)
<1>1. invocation'[e] = Idle /\ Others(e) /\ invocation' \in [Execs -> Invocation \cup {Idle}]
  BY DEF Types, Others
<1>2. Sound(e)
  BY <1>1, IdleFields DEF Sound
<1> QED BY <1>1, <1>2 DEF Ends

\* The messages of a batch are finitely many.
LEMMA BatchIsFinite ==
  ASSUME NEW n \in Nat, NEW S, NEW batch \in [1..n -> S], NEW T \in SUBSET Range(batch)
  PROVE  Cardinality(T) \in Nat
<1>1. Range(batch) = {batch[i] : i \in 1..n}
  BY DEF Range
<1>2. batch \in Surjection(1..n, Range(batch))
  BY <1>1 DEF Surjection
<1>3. IsFiniteSet(1..n)
  BY FS_Interval
<1>4. IsFiniteSet(Range(batch))
  BY <1>2, <1>3, FS_Surjection
<1>5. IsFiniteSet(T)
  BY <1>4, FS_Subset
<1> QED BY <1>5, FS_CardinalityType

\* What an idle executor is handed out: queued messages, each once; the ones
\* another invocation works on are noted as copied.
LEMMA InvokeDoes ==
  ASSUME Types, NEW e \in Execs, Invoke(e)
  PROVE  /\ invocation' \in [Execs -> Invocation \cup {Idle}]
         /\ Sound(e) /\ Others(e)
         /\ invocation[e] = Idle
         /\ Range(invocation'[e].rest) = invocation'[e].batch
         /\ \A j \in invocation'[e].batch : j \in Jobs /\ message[j] = "queued"
         /\ copied' = copied \cup {j \in invocation'[e].batch : WorkedOn(j)}
         /\ again' = again \cup {j \in invocation'[e].batch : WorkedOn(j)}
         /\ troubles' \in 0..MaxTroubles
<1>1. PICK n \in 1..BatchSize : \E batch \in [1..n -> {j \in Jobs : message[j] = "queued"}] :
        /\ IsInjective(batch)
        /\ LET copies == {j \in Range(batch) : WorkedOn(j)} IN
             /\ Trouble(Cardinality(copies))
             /\ copied' = copied \cup copies
             /\ again' = again \cup copies
        /\ invocation' = [invocation EXCEPT ![e] =
             [at |-> "find", batch |-> Range(batch), rest |-> batch,
              status |-> "processing", old |-> "none"]]
  BY DEF Invoke
<1>2. PICK batch \in [1..n -> {j \in Jobs : message[j] = "queued"}] :
        /\ IsInjective(batch)
        /\ LET copies == {j \in Range(batch) : WorkedOn(j)} IN
             /\ Trouble(Cardinality(copies))
             /\ copied' = copied \cup copies
             /\ again' = again \cup copies
        /\ invocation' = [invocation EXCEPT ![e] =
             [at |-> "find", batch |-> Range(batch), rest |-> batch,
              status |-> "processing", old |-> "none"]]
  BY <1>1
<1> DEFINE r == [at |-> "find", batch |-> Range(batch), rest |-> batch,
                 status |-> "processing", old |-> "none"]
           copies == {j \in Range(batch) : WorkedOn(j)}
<1>3. n \in Nat /\ 1 <= n
  BY BatchSizeAssumption
<1>4. batch \in Seq(Jobs) /\ batch # <<>>
  <2>1. batch \in [1..n -> Jobs]
    OBVIOUS
  <2>2. batch \in Seq(Jobs)
    BY <1>3, <2>1
  <2>3. DOMAIN batch # {}
    <3>1. 1 \in 1..n
      BY <1>3
    <3> QED BY <3>1
  <2>4. DOMAIN << >> = {}
    OBVIOUS
  <2> QED BY <2>2, <2>3, <2>4
<1>5. \A j \in Range(batch) : j \in Jobs /\ message[j] = "queued"
  BY DEF Range
<1>6. /\ r \in Invocation /\ r.at = "find" /\ r.status = "processing"
      /\ r.batch = Range(batch) /\ r.rest = batch
  <2>1. Range(batch) \in SUBSET Jobs
    BY <1>5
  <2> QED BY <1>4, <2>1 DEF Invocation, Status, Old
<1>7. invocation' = [invocation EXCEPT ![e] = r] /\ invocation[e] = Idle
  BY <1>2 DEF Invoke, Busy
<1>8. /\ copied' = copied \cup copies /\ again' = again \cup copies
      /\ troubles' = troubles + Cardinality(copies)
      /\ troubles + Cardinality(copies) <= MaxTroubles
  BY <1>2 DEF Trouble
<1>9. Cardinality(copies) \in Nat
  BY <1>3, BatchIsFinite
<1>10. troubles' \in 0..MaxTroubles
  <2>1. troubles \in 0..MaxTroubles
    BY DEF Types, TypeOK
  <2> HIDE DEF copies
  <2> QED BY <1>8, <1>9, <2>1, MaxTroublesAssumption
<1>11. invocation'[e] = r /\ Others(e) /\ invocation' \in [Execs -> Invocation \cup {Idle}]
  <2> HIDE DEF r
  <2> QED BY <1>6, <1>7 DEF Types, Others
<1> HIDE DEF r
<1>12. Sound(e)
  BY <1>2, <1>4, <1>6, <1>11 DEF Sound
<1> QED BY <1>5, <1>6, <1>7, <1>8, <1>10, <1>11, <1>12

LEMMA FindDoes ==
  ASSUME Types, NEW e \in Execs, Find(e)
  PROVE  /\ invocation' \in [Execs -> Invocation \cup {Idle}]
         /\ Sound(e) /\ Stays(e)
<1>1. /\ invocation[e] \in Invocation /\ invocation[e].rest # <<>>
      /\ invocation[e].status \in {"processing"} \cup Settled
  BY AtCall DEF Types, Loop, Find
<1> DEFINE old == IF Current(e) \in overdue THEN "overdue"
                  ELSE IF table[Current(e)] = "none" THEN "none" ELSE "fresh"
<1>2. old \in Old /\ invocation' = [invocation EXCEPT ![e].at = "delete", ![e].old = old]
  BY DEF Old, Find
<1> HIDE DEF old
<1> DEFINE r == [invocation[e] EXCEPT !.at = "delete", !.old = old]
<1>3. /\ r \in Invocation
      /\ r.at = "delete" /\ r.status = invocation[e].status
      /\ r.batch = invocation[e].batch /\ r.rest = invocation[e].rest
  BY <1>1, <1>2 DEF Invocation, Settled, Status
<1>4. invocation' = [invocation EXCEPT ![e] = r]
  BY <1>2 DEF Types, Find
<1> HIDE DEF r
<1> QED BY <1>1, <1>3, <1>4, SameMessage

\* DeleteOld, and PutNew of the processing status.
LEMMA NextCall ==
  ASSUME Types, NEW e \in Execs, At(e, "delete") \/ At(e, "put"),
         NEW call \in {"put", "query"}, invocation' = [invocation EXCEPT ![e].at = call]
  PROVE  /\ invocation' \in [Execs -> Invocation \cup {Idle}]
         /\ Sound(e) /\ Stays(e)
<1>1. /\ invocation[e] \in Invocation /\ invocation[e].rest # <<>>
      /\ invocation[e].status \in {"processing"} \cup Settled
  BY AtCall DEF Types, Loop
<1> DEFINE r == [invocation[e] EXCEPT !.at = call]
<1>3. /\ r \in Invocation
      /\ r.at = call /\ r.status = invocation[e].status
      /\ r.batch = invocation[e].batch /\ r.rest = invocation[e].rest
  BY <1>1 DEF Invocation, Settled, Status
<1>4. invocation' = [invocation EXCEPT ![e] = r]
  BY DEF Types
<1> HIDE DEF r
<1> QED BY <1>1, <1>3, <1>4, SameMessage

\* Query, and the failed call that turns a result into a failure.
LEMMA NextStatus ==
  ASSUME Types, NEW e \in Execs, At(e, "find") \/ At(e, "delete") \/ At(e, "put") \/ At(e, "query"),
         NEW s \in Settled, invocation' = [invocation EXCEPT ![e].at = "find", ![e].status = s]
  PROVE  /\ invocation' \in [Execs -> Invocation \cup {Idle}]
         /\ Sound(e) /\ Stays(e)
<1>1. /\ invocation[e] \in Invocation /\ invocation[e].rest # <<>>
      /\ invocation[e].status \in {"processing"} \cup Settled
  BY AtCall DEF Types, Loop
<1> DEFINE r == [invocation[e] EXCEPT !.at = "find", !.status = s]
<1>3. /\ r \in Invocation
      /\ r.at = "find" /\ r.status = s
      /\ r.batch = invocation[e].batch /\ r.rest = invocation[e].rest
  BY <1>1 DEF Invocation, Settled, Status
<1>4. invocation' = [invocation EXCEPT ![e] = r]
  BY DEF Types
<1> HIDE DEF r
<1> QED BY <1>1, <1>3, <1>4, SameMessage

-----------------------------------------------------------------------------
(* Type correctness. *)

\* The types of everything but the invocations.
Fields ==
  /\ submit \in [Jobs -> SubmitState]
  /\ local \subseteq Jobs
  /\ table \in [Jobs -> Status \cup {"none"}]
  /\ overdue \subseteq {j \in Jobs : table[j] # "none"}
  /\ message \in [Jobs -> MessageState]
  /\ client \in [Jobs -> ClientState]
  /\ troubles \in 0..MaxTroubles
  /\ lapsed \subseteq Jobs /\ again \subseteq Jobs /\ copied \subseteq Jobs /\ failed \subseteq Jobs
  /\ copied \subseteq again

LEMMA TypesByPart ==
  Types => /\ Fields
           /\ invocation \in [Execs -> Invocation \cup {Idle}]
           /\ \A e \in Execs : Loop(e)
           /\ \A j \in Jobs : Stages(j)
BY DEF Types, TypeOK, Fields

LEMMA TypesAssembled ==
  Fields /\ invocation \in [Execs -> Invocation \cup {Idle}]
    /\ (\A e \in Execs : Loop(e)) /\ (\A j \in Jobs : Stages(j)) => Types
<1> SUFFICES ASSUME Fields, invocation \in [Execs -> Invocation \cup {Idle}],
                    \A e \in Execs : Loop(e), \A j \in Jobs : Stages(j)
             PROVE  Types
  OBVIOUS
<1>1. ASSUME NEW e \in Execs
      PROVE  /\ invocation[e] \in Invocation \cup {Idle}
             /\ Range(invocation[e].rest) \subseteq invocation[e].batch
             /\ invocation[e].at \in {"find", "delete", "put", "query"} => invocation[e].rest # <<>>
  BY <1>1 DEF Loop, Left
<1>2. TypeOK
  BY <1>1 DEF TypeOK, Fields
<1> QED BY <1>2 DEF Types, Fields

\* The same of the state after a step.
LEMMA TypesAfter ==
  (Fields /\ invocation \in [Execs -> Invocation \cup {Idle}]
    /\ (\A e \in Execs : Loop(e)) /\ (\A j \in Jobs : Stages(j)))' => Types'
BY TypesAssembled, PTL

\* A message that was sent stays sent.
SentStays == \A j \in Jobs : message[j] # "unsent" => message'[j] # "unsent"

LEMMA LoopsAlone ==
  ASSUME Types, invocation' = invocation, SentStays
  PROVE  \A e \in Execs : Loop(e)'
<1> SUFFICES ASSUME NEW e \in Execs PROVE Loop(e)'
  OBVIOUS
<1>1. Loop(e) /\ invocation[e].batch \in SUBSET Jobs
  BY InvocationFields DEF Types, Record
<1> QED BY <1>1 DEF Loop, Left, SentStays

LEMMA LoopsAfter ==
  ASSUME Types, NEW e \in Execs, Sound(e), Others(e), SentStays,
         \A j \in invocation'[e].batch : j \in Jobs /\ message[j] # "unsent"
  PROVE  \A f \in Execs : Loop(f)'
<1> SUFFICES ASSUME NEW f \in Execs PROVE Loop(f)'
  OBVIOUS
<1>1. CASE f = e
  BY <1>1 DEF Loop, Left, Sound, SentStays
<1>2. CASE f # e
  <2>1. Loop(f) /\ invocation[f].batch \in SUBSET Jobs /\ invocation'[f] = invocation[f]
    BY <1>2, InvocationFields DEF Types, Record, Others
  <2> QED BY <2>1 DEF Loop, Left, SentStays
<1> QED BY <1>1, <1>2

\* The messages of a batch are sent ones.
LEMMA BatchIsSent ==
  ASSUME Types, NEW e \in Execs, NEW j \in invocation[e].batch
  PROVE  j \in Jobs /\ message[j] # "unsent"
<1>1. invocation[e].batch \in SUBSET Jobs
  BY InvocationFields DEF Types, Record
<1> QED BY <1>1 DEF Types, Loop

\* A step of an executor leaves the submissions and the clients alone.  It is
\* typed when its invocation and its table entry are.
LEMMA TypedExecStep ==
  ASSUME Types, NEW e \in Execs, Sound(e), Others(e),
         invocation' \in [Execs -> Invocation \cup {Idle}],
         \A j \in invocation'[e].batch : j \in Jobs /\ message[j] # "unsent",
         UNCHANGED <<submitVars, client, lapsed>>,
         Fields', SentStays,
         \A j \in Jobs : message'[j] # "unsent" => message[j] # "unsent",
         \A j \in Jobs : table'[j] \in Settled => table[j] \in Settled \/ message[j] # "unsent"
  PROVE  Types'
<1>1. \A f \in Execs : Loop(f)'
  BY LoopsAfter
<1>2. ASSUME NEW j \in Jobs PROVE Stages(j)'
  <2>1. Stages(j)
    BY DEF Types
  <2>2. submit'[j] = submit[j] /\ client'[j] = client[j]
    BY DEF submitVars
  <2> QED BY <2>1, <2>2 DEF Stages, SentStays
<1> QED BY <1>1, <1>2, TypesAfter

LEMMA TypeInit == Init => Types
<1> SUFFICES ASSUME Init PROVE Types
  OBVIOUS
<1>1. submit \in [Jobs -> SubmitState] /\ message \in [Jobs -> MessageState]
      /\ client \in [Jobs -> ClientState] /\ table \in [Jobs -> Status \cup {"none"}]
  BY DEF Init, SubmitState, MessageState, ClientState
<1>2. Fields
  BY <1>1, MaxTroublesAssumption DEF Init, Fields
<1>3. invocation = [e \in Execs |-> Idle]
  BY DEF Init
<1>4. invocation \in [Execs -> Invocation \cup {Idle}]
  BY <1>3
<1>5. \A e \in Execs : Loop(e)
  BY <1>3, IdleFields DEF Loop, Left
<1>6. \A j \in Jobs : Stages(j)
  BY DEF Init, Stages, Settled
<1> QED BY <1>2, <1>4, <1>5, <1>6, TypesAssembled

\* The API function's steps leave the invocations alone.
LEMMA TypeSubmit ==
  ASSUME Types, NEW j \in Jobs,
         SubmitStore(j) \/ SubmitSend(j) \/ SubmitFails(j)
  PROVE  Types'
<1> USE DEF SubmitState, MessageState, Status, Settled
<1>1. Fields /\ \A i \in Jobs : Stages(i)
  BY TypesByPart
<1>2. CASE SubmitStore(j)
  <2>1. /\ submit[j] = "new" /\ submit' = [submit EXCEPT ![j] = "recorded"]
        /\ message' = message /\ client' = client /\ invocation' = invocation
    BY <1>2 DEF SubmitStore, sqsVars
  <2>2. \/ table' = table
        \/ table' = [table EXCEPT ![j] = "pending"]
    BY <1>2 DEF SubmitStore, Put, tableVars
  <2>3. Fields'
    BY <1>1, <1>2 DEF Fields, SubmitStore, Put, tableVars, sqsVars
  <2>4. \A i \in Jobs : Stages(i)'
    BY <1>1, <2>1, <2>2 DEF Fields, Stages
  <2>5. SentStays
    BY <2>1 DEF SentStays
  <2> QED BY <2>1, <2>3, <2>4, <2>5, LoopsAlone, TypesAfter DEF Types
<1>3. CASE SubmitSend(j)
  <2>1. /\ submit[j] = "recorded" /\ submit' = [submit EXCEPT ![j] = "accepted"]
        /\ message' = [message EXCEPT ![j] = "queued"]
        /\ UNCHANGED <<local, table, overdue, invocation, again, copied, failed, client, troubles, lapsed>>
    BY <1>3 DEF SubmitSend, tableVars
  <2>2. Fields'
    BY <1>1, <2>1 DEF Fields
  <2>3. \A i \in Jobs : Stages(i)'
    BY <1>1, <2>1 DEF Fields, Stages
  <2>4. SentStays
    BY <1>1, <2>1 DEF SentStays, Fields
  <2> QED BY <2>1, <2>2, <2>3, <2>4, LoopsAlone, TypesAfter DEF Types
<1>4. CASE SubmitFails(j)
  <2>1. /\ submit[j] \in {"new", "recorded"} /\ submit' = [submit EXCEPT ![j] = "rejected"]
        /\ troubles' = troubles + 1 /\ troubles + 1 <= MaxTroubles
        /\ UNCHANGED <<local, table, overdue, message, invocation, again, copied, failed, client, lapsed>>
    BY <1>4 DEF SubmitFails, Trouble, tableVars, sqsVars
  <2>2. Fields'
    BY <1>1, <2>1, MaxTroublesAssumption DEF Fields
  <2>3. \A i \in Jobs : Stages(i)'
    BY <1>1, <2>1 DEF Fields, Stages
  <2>4. SentStays
    BY <2>1 DEF SentStays
  <2> QED BY <2>1, <2>2, <2>3, <2>4, LoopsAlone, TypesAfter DEF Types
<1> QED BY <1>2, <1>3, <1>4

LEMMA TypePoll ==
  ASSUME Types, NEW j \in Jobs,
         PollGet(j) \/ PollDelete(j) \/ GiveUp(j) \/ Expire(j)
  PROVE  Types'
<1> USE DEF ClientState, Status, Settled
<1>1. Fields /\ \A i \in Jobs : Stages(i)
  BY TypesByPart
<1>2. UNCHANGED <<submit, local, message, invocation, again, copied, failed, troubles>>
  BY DEF PollGet, PollDelete, GiveUp, Expire, submitVars, sqsVars
<1>3. SentStays
  BY <1>2 DEF SentStays
<1>4. CASE PollGet(j) \/ GiveUp(j)
  <2>1. /\ submit[j] = "accepted"
        /\ \E c \in {"notFound", "deleting", "gaveUp"} : client' = [client EXCEPT ![j] = c]
        /\ UNCHANGED <<table, overdue, lapsed>>
    BY <1>4 DEF PollGet, GiveUp, tableVars
  <2>2. Fields'
    BY <1>1, <1>2, <2>1 DEF Fields
  <2>3. \A i \in Jobs : Stages(i)'
    BY <1>1, <1>2, <2>1 DEF Fields, Stages
  <2> QED BY <1>2, <1>3, <2>2, <2>3, LoopsAlone, TypesAfter DEF Types
<1>5. CASE PollDelete(j)
  <2>1. /\ client[j] = "deleting" /\ client' = [client EXCEPT ![j] = "fetched"]
        /\ table' = [table EXCEPT ![j] = "none"] /\ overdue' = overdue \ {j}
        /\ UNCHANGED lapsed
    BY <1>5 DEF PollDelete, DeleteItem
  <2>2. Fields'
    BY <1>1, <1>2, <2>1 DEF Fields
  <2>3. \A i \in Jobs : Stages(i)'
    BY <1>1, <1>2, <2>1 DEF Fields, Stages
  <2> QED BY <1>2, <1>3, <2>2, <2>3, LoopsAlone, TypesAfter DEF Types
<1>6. CASE Expire(j)
  <2>1. /\ table[j] # "none" /\ overdue' = overdue \cup {j} /\ lapsed' = lapsed \cup {j}
        /\ UNCHANGED <<table, client>>
    BY <1>6 DEF Expire
  <2>2. Fields'
    BY <1>1, <1>2, <2>1 DEF Fields
  <2>3. \A i \in Jobs : Stages(i)'
    BY <1>1, <1>2, <2>1 DEF Fields, Stages
  <2> QED BY <1>2, <1>3, <2>2, <2>3, LoopsAlone, TypesAfter DEF Types
<1> QED BY <1>4, <1>5, <1>6

\* Put and DeleteItem keep the table typed.
LEMMA TableTypes ==
  ASSUME Fields, NEW j \in Jobs, NEW s \in Status, NEW old,
         Put(j, s, old) \/ DeleteItem(j)
  PROVE  /\ table' \in [Jobs -> Status \cup {"none"}]
         /\ overdue' \subseteq {i \in Jobs : table'[i] # "none"}
<1>1. "none" \notin Status
  BY DEF Status, Settled
<1> QED BY <1>1 DEF Fields, Put, DeleteItem

LEMMA TypeExec ==
  ASSUME Types, NEW e \in Execs, Invoke(e) \/ ExecStep(e) \/ CallFails(e) \/ Crash(e)
  PROVE  Types'
<1>1. Fields
  BY TypesByPart
<1>2. UNCHANGED <<submit, local, client, lapsed>>
  BY DEF Invoke, ExecStep, CallFails, Crash, Find, DeleteOld, PutNew, Query, Return, submitVars
<1>3. invocation[e] \in Record /\ \A j \in invocation[e].batch : j \in Jobs /\ message[j] # "unsent"
  BY InvocationFields, BatchIsSent DEF Types
<1>4. CASE Invoke(e)
  <2>1. /\ invocation' \in [Execs -> Invocation \cup {Idle}] /\ Sound(e) /\ Others(e)
        /\ \A j \in invocation'[e].batch : j \in Jobs /\ message[j] # "unsent"
        /\ copied' = copied \cup {j \in invocation'[e].batch : WorkedOn(j)}
        /\ again' = again \cup {j \in invocation'[e].batch : WorkedOn(j)}
        /\ troubles' \in 0..MaxTroubles
    BY <1>4, InvokeDoes
  <2>2. UNCHANGED <<table, overdue, message, failed>>
    BY <1>4 DEF Invoke, tableVars
  <2>3. Fields'
    BY <1>1, <1>2, <2>1, <2>2 DEF Fields
  <2> QED BY <1>2, <2>1, <2>2, <2>3, TypedExecStep DEF submitVars, SentStays
<1>5. CASE Find(e) \/ Query(e)
  <2>1. /\ invocation' \in [Execs -> Invocation \cup {Idle}] /\ Sound(e) /\ Stays(e)
    <3>1. CASE Find(e) BY <3>1, FindDoes
    <3>2. CASE Query(e) BY <3>2, NextStatus DEF Query
    <3> QED BY <1>5, <3>1, <3>2
  <2>2. UNCHANGED <<table, overdue, message, again, copied, failed, troubles>>
    BY <1>5 DEF Find, Query, tableVars
  <2>3. Fields'
    BY <1>1, <1>2, <2>2 DEF Fields
  <2> QED BY <1>2, <1>3, <2>1, <2>2, <2>3, TypedExecStep DEF submitVars, SentStays, Stays
<1>6. CASE DeleteOld(e)
  <2>1. Current(e) \in Jobs
    BY <1>6, AtCall DEF DeleteOld
  <2>2. /\ invocation' \in [Execs -> Invocation \cup {Idle}] /\ Sound(e) /\ Stays(e)
    BY <1>6, NextCall DEF DeleteOld
  <2>3. DeleteItem(Current(e)) /\ UNCHANGED <<message, again, copied, failed, troubles>>
    BY <1>6 DEF DeleteOld
  <2>4. Fields'
    <3>1. "pending" \in Status
      BY DEF Status
    <3> QED BY <1>1, <1>2, <2>1, <2>3, <3>1, TableTypes DEF Fields
  <2>5. \A j \in Jobs : table'[j] \in Settled => table[j] \in Settled
    BY <1>1, <2>1, <2>3 DEF DeleteItem, Fields, Settled
  <2> QED BY <1>2, <1>3, <2>2, <2>3, <2>4, <2>5, TypedExecStep DEF submitVars, SentStays, Stays
<1>7. CASE PutNew(e)
  <2>1. /\ Current(e) \in Jobs /\ message[Current(e)] # "unsent"
        /\ invocation[e] \in Invocation /\ invocation[e].rest # <<>>
    BY <1>3, <1>7, AtCall DEF PutNew, Types, Loop
  <2>2. /\ invocation' \in [Execs -> Invocation \cup {Idle}] /\ Sound(e)
        /\ Stays(e) \/ Moves(e)
    <3>1. CASE invocation[e].status = "processing"
      BY <1>7, <3>1, NextCall DEF PutNew
    <3>2. CASE invocation[e].status # "processing"
      BY <1>7, <2>1, <3>2, NextMessage DEF PutNew
    <3> QED BY <3>1, <3>2
  <2>3. /\ Put(Current(e), invocation[e].status, invocation[e].old)
        /\ UNCHANGED <<message, again, copied, failed, troubles>>
        /\ invocation[e].status \in Status
    BY <1>3, <1>7 DEF PutNew, Record
  <2>4. Fields'
    BY <1>1, <1>2, <2>1, <2>3, TableTypes DEF Fields
  <2>5. \A j \in Jobs : table'[j] \in Settled => table[j] \in Settled \/ message[j] # "unsent"
    BY <1>1, <2>1, <2>3 DEF Put, Fields
  <2> QED BY <1>2, <1>3, <2>2, <2>3, <2>4, <2>5, TypedExecStep DEF submitVars, SentStays, Stays, Moves
<1>8. CASE CallFails(e)
  <2>1. /\ Current(e) \in Jobs
        /\ invocation[e] \in Invocation /\ invocation[e].rest # <<>>
    BY <1>8, AtCall DEF CallFails
  <2>2. /\ invocation' \in [Execs -> Invocation \cup {Idle}] /\ Sound(e)
        /\ Stays(e) \/ Moves(e)
        /\ failed' \subseteq failed \cup {Current(e)}
    <3>1. CASE invocation[e].status = "completed"
      <4>1. "failed" \in Settled
        BY DEF Settled
      <4>2. invocation' = [invocation EXCEPT ![e].at = "find", ![e].status = "failed"] /\ failed' = failed
        BY <1>8, <3>1 DEF CallFails
      <4> QED BY <1>8, <4>1, <4>2, NextStatus DEF CallFails
    <3>2. CASE invocation[e].status # "completed"
      BY <1>8, <2>1, <3>2, NextMessage DEF CallFails
    <3> QED BY <3>1, <3>2
  <2>3. /\ UNCHANGED <<table, overdue, message, again, copied>>
        /\ troubles' = troubles + 1 /\ troubles + 1 <= MaxTroubles
    BY <1>8 DEF CallFails, Trouble, tableVars
  <2>4. Fields'
    BY <1>1, <1>2, <2>1, <2>2, <2>3, MaxTroublesAssumption DEF Fields
  <2> QED BY <1>2, <1>3, <2>2, <2>3, <2>4, TypedExecStep DEF submitVars, SentStays, Stays, Moves
<1>9. CASE Return(e) \/ Crash(e)
  <2>1. /\ invocation' \in [Execs -> Invocation \cup {Idle}] /\ Sound(e) /\ Ends(e)
    BY <1>9, Ended DEF Return, Crash
  <2>2. invocation'[e].batch = {}
    BY <2>1, IdleFields DEF Ends
  <2>3. /\ UNCHANGED <<table, overdue, copied, failed>>
        /\ again' \subseteq again \cup invocation[e].batch /\ again \subseteq again'
        /\ \/ troubles' = troubles
           \/ troubles' = troubles + 1 /\ troubles + 1 <= MaxTroubles
        /\ \/ message' = message
           \/ message' = [j \in Jobs |-> IF j \in invocation[e].batch THEN "deleted" ELSE message[j]]
    BY <1>9 DEF Return, Crash, tableVars, Trouble
  <2>4. Fields'
    BY <1>1, <1>2, <1>3, <2>3, MaxTroublesAssumption DEF Fields, MessageState
  <2>5. SentStays /\ \A j \in Jobs : message'[j] # "unsent" => message[j] # "unsent"
    BY <1>1, <1>3, <2>3 DEF SentStays, Fields
  <2> QED BY <1>2, <2>1, <2>2, <2>3, <2>4, <2>5, TypedExecStep DEF submitVars, Ends
<1> QED BY <1>4, <1>5, <1>6, <1>7, <1>8, <1>9 DEF ExecStep

LEMMA TypeStep == Types /\ [Next]_vars => Types'
<1> SUFFICES ASSUME Types, [Next]_vars PROVE Types'
  OBVIOUS
<1>1. CASE UNCHANGED vars
  <2>1. UNCHANGED <<submit, local, table, overdue, message, invocation, again, copied, failed,
                    client, troubles, lapsed>>
    BY <1>1 DEF vars, submitVars, tableVars, sqsVars
  <2>2. Fields' /\ \A j \in Jobs : Stages(j)'
    BY <2>1, TypesByPart DEF Fields, Stages
  <2>3. SentStays
    BY <2>1 DEF SentStays
  <2> QED BY <2>1, <2>2, <2>3, LoopsAlone, TypesAfter DEF Types
<1>2. CASE Next
  BY <1>2, TypeSubmit, TypePoll, TypeExec DEF Next, PollStep
<1> QED BY <1>1, <1>2

\* Every variable keeps its type: in particular an invocation that has a call to
\* make always has a message to make it for, and never one outside its batch.
THEOREM TypeCorrect == SafetySpec => []TypeOK
<1>1. Types => TypeOK
  BY DEF Types
<1> QED BY <1>1, TypeInit, TypeStep, PTL DEF SafetySpec

-----------------------------------------------------------------------------
(* No job is lost and no answer comes back. *)

Answered(j) == table[j] \in Settled \/ Fetched(j)

\* Nobody has put j's message behind without being done with the whole batch:
\* it will be worked on from its beginning, or is being.
Open(j) == message[j] = "queued" /\ \A e \in Execs : j \in invocation[e].batch => j \in Left(e)

\* Unless SQS duplicates it, a message is in one batch, and not yet deleted then.
OneWorker(j) == j \notin copied =>
  /\ \A e, f \in Execs : j \in invocation[e].batch /\ j \in invocation[f].batch => e = f
  /\ \A e \in Execs : j \in invocation[e].batch => message[j] = "queued"

\* A message that is deleted, or that its invocation has left behind, is answered.
Progress(j) == j \notin failed \cup copied =>
  /\ message[j] = "deleted" => Answered(j)
  /\ \A e \in Execs : j \in invocation[e].batch \ Left(e) => Answered(j)

\* While a message that was delivered only once is still to be worked on there is
\* no answer, and a fetched answer was the last one.
Final(j) == j \notin again =>
  /\ Open(j) => table[j] \notin Settled /\ client[j] \notin {"deleting", "fetched"}
  /\ Fetched(j) => table[j] = "none"

IInv == Types /\ \A j \in Jobs : OneWorker(j) /\ Progress(j) /\ Final(j)

LEMMA InitIInv == Init => IInv
<1> SUFFICES ASSUME Init PROVE \A j \in Jobs : OneWorker(j) /\ Progress(j) /\ Final(j)
  BY TypeInit DEF IInv
<1>1. /\ \A e \in Execs : invocation[e].batch = {}
      /\ \A j \in Jobs : message[j] = "unsent" /\ table[j] = "none" /\ client[j] = "polling"
  BY IdleFields DEF Init
<1> QED BY <1>1 DEF OneWorker, Progress, Final, Open, Fetched, Settled

\* Nothing of the invocations, messages and histories changes.
SqsAlone == UNCHANGED <<message, invocation, again, copied, failed>>

\* A message nobody has sent has no work done on it.
LEMMA UnsentIsUntouched ==
  ASSUME Types, NEW j \in Jobs, message[j] = "unsent"
  PROVE  \A e \in Execs : j \notin invocation[e].batch
BY DEF Types, Loop

LEMMA SafeSubmit ==
  ASSUME IInv, NEW i \in Jobs, SubmitStore(i) \/ SubmitSend(i) \/ SubmitFails(i), NEW j \in Jobs
  PROVE  (OneWorker(j) /\ Progress(j) /\ Final(j))'
<1>1. OneWorker(j) /\ Progress(j) /\ Final(j) /\ Types /\ Stages(i)
  BY DEF IInv, Types
<1>2. UNCHANGED <<invocation, again, copied, failed, client>>
  BY DEF SubmitStore, SubmitSend, SubmitFails, sqsVars
<1>3. message[i] = "unsent" /\ \A e \in Execs : i \notin invocation[e].batch
  <2>1. submit[i] # "accepted"
    BY DEF SubmitStore, SubmitSend, SubmitFails
  <2> QED BY <1>1, <2>1, UnsentIsUntouched DEF Stages
<1>4. client[i] = "polling" /\ table[i] \notin Settled
  BY <1>1, <1>3 DEF Stages
<1>5. CASE j # i
  <2>1. message'[j] = message[j] /\ table'[j] = table[j]
    BY <1>1, <1>5 DEF SubmitStore, SubmitSend, SubmitFails, sqsVars, tableVars, Put, Types, TypeOK
  <2> QED BY <1>1, <1>2, <2>1 DEF OneWorker, Progress, Final, Open, Answered, Fetched, Left
<1>6. CASE j = i
  <2>1. /\ message'[i] \in {"unsent", "queued"}
        /\ table'[i] \in {table[i], "pending"}
    BY <1>1, <1>3 DEF SubmitStore, SubmitSend, SubmitFails, sqsVars, tableVars, Put, Types, TypeOK
  <2>2. table'[i] \notin Settled
    BY <1>4, <2>1 DEF Settled
  <2> QED BY <1>2, <1>3, <1>4, <1>6, <2>1, <2>2
          DEF OneWorker, Progress, Final, Open, Answered, Fetched, Left
<1> QED BY <1>5, <1>6

LEMMA SafePoll ==
  ASSUME IInv, NEW i \in Jobs, PollGet(i) \/ PollDelete(i) \/ GiveUp(i) \/ Expire(i), NEW j \in Jobs
  PROVE  (OneWorker(j) /\ Progress(j) /\ Final(j))'
<1>1. OneWorker(j) /\ Progress(j) /\ Final(j) /\ Types
  BY DEF IInv
<1>2. SqsAlone /\ (j # i => table'[j] = table[j] /\ client'[j] = client[j])
  BY <1>1 DEF SqsAlone, PollGet, PollDelete, GiveUp, Expire, sqsVars, tableVars, DeleteItem, Types, TypeOK
<1>3. CASE table'[j] = table[j] /\ client'[j] = client[j]
  BY <1>1, <1>2, <1>3 DEF SqsAlone, OneWorker, Progress, Final, Open, Answered, Fetched, Left
<1>4. CASE j = i /\ PollGet(i)
  <2>1. /\ table'[j] = table[j] /\ client[j] = "polling"
        /\ \/ client'[j] = "notFound"
           \/ client'[j] = "deleting" /\ table[j] \in Settled
    BY <1>1, <1>4 DEF PollGet, tableVars, Types, TypeOK
  <2> QED BY <1>1, <1>2, <2>1 DEF SqsAlone, OneWorker, Progress, Final, Open, Answered, Fetched, Left
<1>5. CASE j = i /\ PollDelete(i)
  <2>1. client[j] = "deleting" /\ client'[j] = "fetched" /\ table'[j] = "none"
    BY <1>1, <1>5 DEF PollDelete, DeleteItem, Types, TypeOK
  <2> QED BY <1>1, <1>2, <2>1
          DEF SqsAlone, OneWorker, Progress, Final, Open, Answered, Fetched, Left, Settled
<1>6. CASE j = i /\ GiveUp(i)
  <2>1. client[j] \in {"polling", "deleting"} /\ client'[j] = "gaveUp" /\ table'[j] = table[j]
    BY <1>1, <1>6 DEF GiveUp, tableVars, Types, TypeOK
  <2> QED BY <1>1, <1>2, <2>1 DEF SqsAlone, OneWorker, Progress, Final, Open, Answered, Fetched, Left
<1>7. CASE Expire(i)
  BY <1>3, <1>7 DEF Expire
<1> QED BY <1>2, <1>3, <1>4, <1>5, <1>6, <1>7

\* A step inside a call: nobody's messages change.
LEMMA SameView ==
  ASSUME NEW e \in Execs, Stays(e), NEW f \in Execs
  PROVE  invocation'[f].batch = invocation[f].batch /\ Range(invocation'[f].rest) = Left(f)
BY DEF Stays, Others, Left

\* Handing out a batch.
LEMMA SafeInvoke ==
  ASSUME IInv, NEW e \in Execs, Invoke(e), NEW j \in Jobs
  PROVE  (OneWorker(j) /\ Progress(j) /\ Final(j))'
<1>1. OneWorker(j) /\ Progress(j) /\ Final(j) /\ Types
  BY DEF IInv
<1>2. /\ Others(e) /\ invocation[e] = Idle
      /\ Range(invocation'[e].rest) = invocation'[e].batch
      /\ \A i \in invocation'[e].batch : message[i] = "queued"
      /\ copied' = copied \cup {i \in invocation'[e].batch : WorkedOn(i)}
      /\ again' = again \cup {i \in invocation'[e].batch : WorkedOn(i)}
  BY <1>1, InvokeDoes
<1>3. UNCHANGED <<table, client, message, failed>>
  BY DEF Invoke, tableVars
<1>4. invocation[e].batch = {}
  BY <1>2, IdleFields
<1>5. \A f \in Execs \ {e} : invocation'[f] = invocation[f]
  BY <1>2 DEF Others
<1>6. CASE j \in invocation'[e].batch
  <2>1. j \notin copied' => \A f \in Execs : j \notin invocation[f].batch
    BY <1>2, <1>6 DEF WorkedOn
  <2>2. OneWorker(j)'
    BY <1>2, <1>3, <1>5, <1>6, <2>1 DEF OneWorker
  <2>3. Progress(j)'
    BY <1>1, <1>2, <1>3, <1>5, <1>6, <2>1 DEF Progress, Left, Answered, Fetched
  <2>4. j \notin again' => \A f \in Execs : j \notin invocation[f].batch
    BY <1>2, <1>6 DEF WorkedOn
  <2>5. j \notin again' => Open(j) /\ j \notin again
    BY <1>2, <1>6, <2>4 DEF Open
  <2>6. Final(j)'
    BY <1>1, <1>3, <2>5 DEF Final, Fetched, Open
  <2> QED BY <2>2, <2>3, <2>6
<1>7. CASE j \notin invocation'[e].batch
  <2>1. \A f \in Execs : j \in invocation'[f].batch <=> j \in invocation[f].batch
    BY <1>4, <1>5, <1>7
  <2>2. \A f \in Execs : j \in invocation'[f].batch => Range(invocation'[f].rest) = Left(f)
    BY <1>5, <1>7 DEF Left
  <2>3. (j \in copied' <=> j \in copied) /\ (j \in again' <=> j \in again)
    BY <1>2, <1>7
  <2> QED BY <1>1, <1>3, <2>1, <2>2, <2>3
          DEF OneWorker, Progress, Final, Open, Answered, Fetched, Left
<1> QED BY <1>6, <1>7

\* The job an executor is about to store or delete is open for anybody to see:
\* if its message was not delivered twice, nobody else is or was at it.
LEMMA CurrentIsOpen ==
  ASSUME IInv, NEW e \in Execs, NEW j \in Left(e), j \in Jobs
  PROVE  /\ j \in invocation[e].batch
         /\ j \notin copied => \A f \in Execs : j \in invocation[f].batch => f = e
         /\ j \notin copied => message[j] = "queued"
         /\ j \notin again => j \notin copied /\ Open(j)
<1>1. OneWorker(j) /\ Types
  BY DEF IInv
<1>2. j \in invocation[e].batch
  BY <1>1 DEF Types, Loop
<1> QED BY <1>1, <1>2 DEF OneWorker, Open, Types

LEMMA SafeQuiet ==
  ASSUME IInv, NEW e \in Execs, Stays(e), UNCHANGED <<table, client, message, again, copied, failed>>,
         NEW j \in Jobs
  PROVE  (OneWorker(j) /\ Progress(j) /\ Final(j))'
<1>1. OneWorker(j) /\ Progress(j) /\ Final(j)
  BY DEF IInv
<1>2. \A f \in Execs : invocation'[f].batch = invocation[f].batch /\ Range(invocation'[f].rest) = Left(f)
  BY SameView
<1> QED BY <1>1, <1>2 DEF OneWorker, Progress, Final, Open, Answered, Fetched, Left

\* Deleting the old item, or storing the job as being processed: no answer, but
\* it is still to be worked on.
LEMMA SafeUnanswered ==
  ASSUME IInv, NEW e \in Execs, Stays(e), NEW c \in Left(e), c \in Jobs,
         NEW s \in {"none", "processing"}, table' = [table EXCEPT ![c] = s],
         UNCHANGED <<client, message, again, copied, failed>>,
         NEW j \in Jobs
  PROVE  (OneWorker(j) /\ Progress(j) /\ Final(j))'
<1>1. OneWorker(j) /\ Progress(j) /\ Final(j) /\ Types
  BY DEF IInv
<1>2. \A f \in Execs : invocation'[f].batch = invocation[f].batch /\ Range(invocation'[f].rest) = Left(f)
  BY SameView
<1>3. OneWorker(j)'
  BY <1>1, <1>2 DEF OneWorker
<1>4. CASE j # c
  <2>1. table'[j] = table[j]
    BY <1>4
  <2> QED BY <1>1, <1>2, <1>3, <2>1 DEF Progress, Final, Open, Answered, Fetched, Left
<1>5. CASE j = c
  <2>1. table'[j] = s /\ s \notin Settled
    BY <1>1, <1>5 DEF Types, TypeOK, Settled
  <2>2. j \in Left(e)
    BY <1>5
  <2>3. Progress(j)'
    BY <1>2, <2>2, CurrentIsOpen DEF Progress, Left
  <2>4. Final(j)'
    BY <1>1, <2>1, <2>2, CurrentIsOpen DEF Final, Fetched, Open
  <2> QED BY <1>3, <2>3, <2>4
<1> QED BY <1>4, <1>5

\* Storing the result, or giving up on the job: its message is left behind.
LEMMA SafeMove ==
  ASSUME IInv, NEW e \in Execs, Moves(e), Current(e) \in Left(e), Current(e) \in Jobs,
         \/ /\ \E s \in Settled : table' = [table EXCEPT ![Current(e)] = s]
            /\ UNCHANGED failed
         \/ /\ UNCHANGED table
            /\ failed' = failed \cup {Current(e)},
         UNCHANGED <<client, message, again, copied>>,
         NEW j \in Jobs
  PROVE  (OneWorker(j) /\ Progress(j) /\ Final(j))'
<1> DEFINE c == Current(e)
<1> HIDE DEF c
<1>1. OneWorker(j) /\ Progress(j) /\ Final(j) /\ Types
  BY DEF IInv
<1>2. \A f \in Execs : /\ invocation'[f].batch = invocation[f].batch
                       /\ Range(invocation'[f].rest) = IF f = e THEN Left(f) \ {c} ELSE Left(f)
  BY DEF Moves, Others, Left, c
<1>3. OneWorker(j)'
  BY <1>1, <1>2 DEF OneWorker
<1>4. CASE j # c
  <2>1. table'[j] = table[j] /\ (j \in failed' <=> j \in failed)
    BY <1>1, <1>4 DEF Types, TypeOK, c
  <2>2. \A f \in Execs : j \in Range(invocation'[f].rest) <=> j \in Left(f)
    BY <1>2, <1>4
  <2> QED BY <1>1, <1>2, <1>3, <2>1, <2>2 DEF Progress, Final, Open, Answered, Fetched, Left
<1>5. CASE j = c
  <2>1. j \in Left(e) /\ j \in invocation[e].batch
    BY <1>5, CurrentIsOpen DEF c
  <2>2. j \notin failed' => table'[j] \in Settled
    BY <1>1, <1>5 DEF Types, TypeOK, c
  <2>3. Progress(j)'
    BY <2>2 DEF Progress, Answered
  <2>4. Final(j)'
    <3>1. ~Open(j)'
      BY <1>2, <1>5, <2>1 DEF Open, Left
    <3>2. j \notin again => client[j] # "fetched"
      BY <1>1, <2>1, CurrentIsOpen DEF Final
    <3> QED BY <3>1, <3>2 DEF Final, Fetched
  <2> QED BY <1>3, <2>3, <2>4
<1> QED BY <1>4, <1>5

\* The end of an invocation that has worked off its batch, and a crash.
LEMMA SafeEnd ==
  ASSUME IInv, NEW e \in Execs, Return(e) \/ Crash(e), NEW j \in Jobs
  PROVE  (OneWorker(j) /\ Progress(j) /\ Final(j))'
<1>1. OneWorker(j) /\ Progress(j) /\ Final(j) /\ Types /\ Loop(e)
  BY DEF IInv, Types
<1>2. Ends(e) /\ UNCHANGED <<table, client, copied, failed>>
  BY <1>1, Ended DEF Return, Crash, tableVars
<1>3. invocation'[e].batch = {} /\ \A f \in Execs \ {e} : invocation'[f] = invocation[f]
  BY <1>2, IdleFields DEF Ends, Others
<1>4. CASE Return(e)
  <2>1. message' = [i \in Jobs |-> IF i \in invocation[e].batch THEN "deleted" ELSE message[i]]
        /\ again' = again /\ invocation[e].at = "return"
    BY <1>4 DEF Return, At
  <2>2. Left(e) = {}
    <3>1. invocation[e].rest = <<>>
      BY <1>1, <2>1 DEF Loop
    <3>2. DOMAIN invocation[e].rest = {}
      BY <3>1
    <3> QED BY <3>2 DEF Left, Range
  <2>3. CASE j \in invocation[e].batch
    <3>1. message'[j] = "deleted"
      BY <2>1, <2>3
    <3>2. j \notin failed \cup copied => Answered(j)
      BY <1>1, <2>2, <2>3 DEF Progress
    <3>3. j \notin copied => \A f \in Execs : j \notin invocation'[f].batch
      BY <1>1, <1>3, <2>3 DEF OneWorker
    <3>4. OneWorker(j)' /\ Progress(j)'
      BY <1>2, <3>2, <3>3 DEF OneWorker, Progress, Answered, Fetched
    <3>5. Final(j)'
      BY <1>1, <1>2, <2>1, <3>1 DEF Final, Open, Fetched
    <3> QED BY <3>4, <3>5
  <2>4. CASE j \notin invocation[e].batch
    <3>1. message'[j] = message[j] /\ \A f \in Execs : j \in invocation'[f].batch <=> j \in invocation[f].batch
      BY <1>3, <2>1, <2>4
    <3>2. \A f \in Execs : j \in invocation'[f].batch => Range(invocation'[f].rest) = Left(f)
      BY <1>3 DEF Left
    <3> QED BY <1>1, <1>2, <2>1, <3>1, <3>2
            DEF OneWorker, Progress, Final, Open, Answered, Fetched, Left
  <2> QED BY <2>3, <2>4
<1>5. CASE Crash(e)
  <2>1. message' = message
        /\ again' = again \cup {i \in invocation[e].batch : message[i] = "queued"}
    BY <1>5 DEF Crash
  <2>2. \A f \in Execs : j \in invocation'[f].batch =>
          j \in invocation[f].batch /\ Range(invocation'[f].rest) = Left(f)
    BY <1>3 DEF Left
  <2>3. OneWorker(j)' /\ Progress(j)'
    BY <1>1, <1>2, <2>1, <2>2 DEF OneWorker, Progress, Answered, Fetched, Left
  <2>4. ASSUME j \notin again' PROVE Open(j)' => Open(j)
    <3>1. message[j] = "queued" => j \notin invocation[e].batch
      BY <2>1, <2>4
    <3> QED BY <1>3, <2>1, <3>1 DEF Open, Left
  <2>5. Final(j)'
    BY <1>1, <1>2, <2>1, <2>4 DEF Final, Fetched
  <2> QED BY <2>3, <2>5
<1> QED BY <1>4, <1>5

LEMMA SafeExec ==
  ASSUME IInv, NEW e \in Execs, ExecStep(e) \/ CallFails(e) \/ Crash(e), NEW j \in Jobs
  PROVE  (OneWorker(j) /\ Progress(j) /\ Final(j))'
<1>1. Types
  BY DEF IInv
<1>2. CASE Find(e) \/ Query(e)
  <2>1. Stays(e)
    BY <1>1, <1>2, FindDoes, NextStatus DEF Query
  <2>2. UNCHANGED <<table, client, message, again, copied, failed>>
    BY <1>2 DEF Find, Query, tableVars
  <2> QED BY <2>1, <2>2, SafeQuiet
<1>3. CASE DeleteOld(e)
  <2>1. Stays(e) /\ Current(e) \in Left(e) /\ Current(e) \in Jobs
    BY <1>1, <1>3, NextCall, AtCall DEF DeleteOld
  <2>2. table' = [table EXCEPT ![Current(e)] = "none"]
        /\ UNCHANGED <<client, message, again, copied, failed>>
    BY <1>3 DEF DeleteOld, DeleteItem
  <2> QED BY <2>1, <2>2, SafeUnanswered
<1>4. CASE PutNew(e)
  <2>1. /\ Current(e) \in Left(e) /\ Current(e) \in Jobs
        /\ invocation[e] \in Invocation /\ invocation[e].rest # <<>>
        /\ invocation[e].status \in {"processing"} \cup Settled
    BY <1>1, <1>4, AtCall DEF PutNew, Types, Loop
  <2>2. table' = [table EXCEPT ![Current(e)] = invocation[e].status]
        /\ UNCHANGED <<client, message, again, copied, failed>>
    BY <1>4 DEF PutNew, Put
  <2>3. CASE invocation[e].status = "processing"
    <3>1. Stays(e)
      BY <1>1, <1>4, <2>3, NextCall DEF PutNew
    <3> QED BY <2>1, <2>2, <2>3, <3>1, SafeUnanswered
  <2>4. CASE invocation[e].status # "processing"
    <3>1. Moves(e)
      BY <1>1, <1>4, <2>1, <2>4, NextMessage DEF PutNew
    <3> QED BY <2>1, <2>2, <2>4, <3>1, SafeMove
  <2> QED BY <2>3, <2>4
<1>5. CASE CallFails(e)
  <2>1. /\ Current(e) \in Left(e) /\ Current(e) \in Jobs
        /\ invocation[e] \in Invocation /\ invocation[e].rest # <<>>
    BY <1>1, <1>5, AtCall DEF CallFails
  <2>2. UNCHANGED <<table, client, message, again, copied>>
    BY <1>5 DEF CallFails, tableVars
  <2>3. CASE invocation[e].status = "completed"
    <3>1. /\ invocation' = [invocation EXCEPT ![e].at = "find", ![e].status = "failed"]
          /\ failed' = failed /\ "failed" \in Settled
      BY <1>5, <2>3 DEF CallFails, Settled
    <3>2. Stays(e)
      BY <1>1, <1>5, <3>1, NextStatus DEF CallFails
    <3> QED BY <2>2, <3>1, <3>2, SafeQuiet
  <2>4. CASE invocation[e].status # "completed"
    <3>1. invocation' = NextRecord(e) /\ failed' = failed \cup {Current(e)}
      BY <1>5, <2>4 DEF CallFails
    <3>2. Moves(e)
      BY <1>1, <2>1, <3>1, NextMessage
    <3> QED BY <2>1, <2>2, <3>1, <3>2, SafeMove
  <2> QED BY <2>3, <2>4
<1>6. CASE Return(e) \/ Crash(e)
  BY <1>6, SafeEnd
<1> QED BY <1>2, <1>3, <1>4, <1>5, <1>6 DEF ExecStep

LEMMA StepIInv == IInv /\ [Next]_vars => IInv'
<1> SUFFICES ASSUME IInv, [Next]_vars PROVE IInv'
  OBVIOUS
<1>1. Types'
  BY TypeStep DEF IInv
<1>2. ASSUME NEW j \in Jobs PROVE (OneWorker(j) /\ Progress(j) /\ Final(j))'
  <2>1. CASE UNCHANGED vars
    <3>1. UNCHANGED <<table, message, invocation, again, copied, failed, client>>
      BY <2>1 DEF vars, tableVars, sqsVars
    <3>2. OneWorker(j) /\ Progress(j) /\ Final(j)
      BY DEF IInv
    <3> QED BY <3>1, <3>2 DEF OneWorker, Progress, Final, Open, Answered, Fetched, Left
  <2>2. CASE Next
    BY <2>2, SafeSubmit, SafePoll, SafeInvoke, SafeExec DEF Next, PollStep
  <2> QED BY <2>1, <2>2
<1> QED BY <1>1, <1>2 DEF IInv

LEMMA IInvAlways == SafetySpec => []IInv
BY InitIInv, StepIInv, PTL DEF SafetySpec

\* Whatever goes wrong in whatever order, an accepted job still has its message,
\* or was answered: queryExecution returns, and the event source deletes the
\* batch, only after the result of every message in it was stored.
THEOREM AcceptedJobsSurvive == SafetySpec => []AcceptedIsNotLost
<1>1. IInv => AcceptedIsNotLost
  <2> SUFFICES ASSUME IInv, NEW j \in Jobs, submit[j] = "accepted"
               PROVE  \/ message[j] = "queued" \/ table[j] \in Settled
                      \/ Fetched(j) \/ j \in failed \cup copied
    BY DEF AcceptedIsNotLost
  <2>1. Stages(j) /\ Progress(j) /\ message[j] \in MessageState
    BY DEF IInv, Types, TypeOK
  <2> QED BY <2>1 DEF Stages, Progress, Answered, MessageState
<1> QED BY <1>1, IInvAlways, PTL

\* DynamoResultCache.store writes with three calls; none of them brings back an
\* answer that resultCache.delete has taken out, unless the message came twice.
THEOREM RetrievedAnswersStayGone == SafetySpec => []RetrievedStaysGone
<1>1. IInv => RetrievedStaysGone
  BY DEF IInv, Final, RetrievedStaysGone
<1> QED BY <1>1, IInvAlways, PTL

\* A stored answer is touched by nobody but the poll that takes it out.
AnswerStands(j) ==
  j \notin again' /\ table[j] \in Settled =>
    table'[j] = table[j] \/ (client[j] = "deleting" /\ table'[j] = "none")

\* An executor deletes and stores only what is still open.
LEMMA ExecutorsLeaveAnswers ==
  ASSUME IInv, NEW e \in Execs, DeleteOld(e) \/ PutNew(e), NEW j \in Jobs
  PROVE  AnswerStands(j)
<1>1. Types /\ Final(j) /\ again' = again
  BY DEF IInv, DeleteOld, PutNew
<1>2. Current(e) \in Left(e) /\ Current(e) \in Jobs
  BY <1>1, AtCall DEF DeleteOld, PutNew
<1>3. \E s : table' = [table EXCEPT ![Current(e)] = s]
  BY DEF DeleteOld, PutNew, DeleteItem, Put
<1>4. CASE j = Current(e)
  <2>1. j \notin again => Open(j)
    BY <1>2, <1>4, CurrentIsOpen
  <2> QED BY <1>1, <2>1 DEF Final, AnswerStands
<1>5. CASE j # Current(e)
  <2>1. table'[j] = table[j]
    BY <1>1, <1>3, <1>5 DEF Types, TypeOK
  <2> QED BY <2>1 DEF AnswerStands
<1> QED BY <1>4, <1>5

\* A result is final: unless the message is delivered again, no later store of
\* the executor - with another result, or with the job as being processed -
\* replaces or removes it; it leaves the table with the poll that delivers it.
THEOREM StoredAnswersAreFinal == SafetySpec => [][\A j \in Jobs : AnswerStands(j)]_vars
<1>1. IInv /\ [Next]_vars => [\A j \in Jobs : AnswerStands(j)]_vars
  <2> SUFFICES ASSUME IInv, Next, NEW j \in Jobs PROVE AnswerStands(j)
    OBVIOUS
  <2>1. Types
    BY DEF IInv
  <2>2. CASE table' = table
    BY <2>2 DEF AnswerStands
  <2>3. ASSUME NEW i \in Jobs, SubmitStore(i) PROVE AnswerStands(j)
    <3>1. table[i] \notin Settled
      BY <2>1, <2>3 DEF Types, Stages, SubmitStore
    <3>2. j # i => table'[j] = table[j]
      BY <2>1, <2>3 DEF SubmitStore, Put, tableVars, Types, TypeOK
    <3> QED BY <3>1, <3>2 DEF AnswerStands
  <2>4. ASSUME NEW i \in Jobs, PollDelete(i) PROVE AnswerStands(j)
    BY <2>1, <2>4 DEF PollDelete, DeleteItem, Types, TypeOK, AnswerStands
  <2>5. ASSUME NEW i \in Jobs, SubmitSend(i) \/ SubmitFails(i) \/ PollGet(i) \/ GiveUp(i) \/ Expire(i)
        PROVE  table' = table
    BY <2>5 DEF SubmitSend, SubmitFails, PollGet, GiveUp, Expire, tableVars
  <2>6. ASSUME NEW e \in Execs,
               \/ Invoke(e) \/ Find(e) \/ Query(e) \/ Return(e) \/ CallFails(e) \/ Crash(e)
        PROVE  table' = table
    BY <2>6 DEF Invoke, Find, Query, Return, CallFails, Crash, tableVars
  <2> QED BY <2>2, <2>3, <2>4, <2>5, <2>6, ExecutorsLeaveAnswers DEF Next, PollStep, ExecStep
<1> QED BY <1>1, IInvAlways, PTL DEF SafetySpec
=============================================================================
