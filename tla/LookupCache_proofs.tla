-------------------------- MODULE LookupCache_proofs --------------------------
(***************************************************************************)
(* Proofs about LookupCache, for any number of readers, requests and       *)
(* faults, any length of a day and any lifetimes: type correctness, days   *)
(* kept for ever are complete, one shared query, copies stay bounded, and  *)
(* the valid refresh token stays within reach.                             *)
(***************************************************************************)
EXTENDS LookupCache, FiniteSetTheorems, SequenceTheorems, WellFoundedInduction, TLAPS

-----------------------------------------------------------------------------
(* Sequences.                                                              *)

\* Every nonempty set of indices has a least one.
LEMMA LeastIndex ==
  ASSUME NEW I \in SUBSET Nat, I # {}
  PROVE  Min(I) \in I
<1> DEFINE R == OpToRel(<, Nat)
<1>1. IsWellFoundedOn(R, Nat)
  BY NatLessThanWellFounded
<1>2. \A x, y \in Nat : y < x => <<y, x>> \in R
  BY DEF OpToRel
<1> HIDE DEF R
<1>3. \E x \in I : \A y \in I : ~(<<y, x>> \in R)
  <2>1. I \subseteq Nat /\ I # {}
    OBVIOUS
  <2> QED BY <1>1, <2>1, WFMin, Zenon
<1>4. \E x \in I : \A y \in I : x <= y
  <2>1. PICK x \in I : \A y \in I : ~(<<y, x>> \in R)
    BY <1>3
  <2>2. ASSUME NEW y \in I PROVE x <= y
    <3>1. x \in Nat /\ y \in Nat /\ ~(y < x)
      BY <1>2, <2>1, Zenon
    <3> QED BY <3>1
  <2> QED BY <2>2
<1> QED BY <1>4, Zenon DEF Min

LEMMA FunctionIsSequence ==
  ASSUME NEW S, NEW n \in Nat, NEW f \in [1..n -> S]
  PROVE  f \in Seq(S) /\ Len(f) = n
OBVIOUS

\* RemoveAt takes out the element at j and closes the gap.
LEMMA RemoveAtEffect ==
  ASSUME NEW S, NEW s \in Seq(S), NEW j \in 1..Len(s)
  PROVE  /\ RemoveAt(s, j) \in Seq(S)
         /\ Len(RemoveAt(s, j)) = Len(s) - 1
         /\ \A i \in 1..(Len(s) - 1) : RemoveAt(s, j)[i] = IF i < j THEN s[i] ELSE s[i + 1]
<1> DEFINE t == SubSeq(s, 1, j - 1)
           u == SubSeq(s, j + 1, Len(s))
<1>1. /\ t \in Seq(S) /\ Len(t) = j - 1
      /\ \A i \in 1..(j - 1) : t[i] = s[i]
  <2>1. \A i \in 1..(j - 1) : s[i] \in S
    OBVIOUS
  <2> QED BY <2>1, SubSeqProperties
<1>2. /\ u \in Seq(S) /\ Len(u) = Len(s) - j
      /\ \A i \in 1..(Len(s) - j) : u[i] = s[j + i]
  <2>1. \A i \in (j + 1)..Len(s) : s[i] \in S
    OBVIOUS
  <2>2. j + 1 \in Int /\ Len(s) \in Int
    OBVIOUS
  <2> QED BY <2>1, <2>2, SubSeqProperties
<1> HIDE DEF t, u
<1>3. /\ t \o u \in Seq(S) /\ Len(t \o u) = Len(t) + Len(u)
      /\ \A i \in 1..(Len(t) + Len(u)) : (t \o u)[i] = IF i <= Len(t) THEN t[i] ELSE u[i - Len(t)]
  BY <1>1, <1>2, ConcatProperties
<1>0. j \in Nat /\ Len(s) \in Nat /\ 1 <= j /\ j <= Len(s)
  OBVIOUS
<1>4. ASSUME NEW i \in 1..(Len(s) - 1)
      PROVE  (t \o u)[i] = IF i < j THEN s[i] ELSE s[i + 1]
  <2>1. CASE i < j
    <3>1. /\ Len(t) + Len(u) = Len(s) - 1 /\ Len(t) = j - 1
          /\ i <= Len(t) /\ i \in 1..(j - 1)
      BY <1>0, <1>1, <1>2, <2>1
    <3>2. (t \o u)[i] = t[i]
      BY <1>3, <3>1
    <3> QED BY <1>1, <2>1, <3>1, <3>2
  <2>2. CASE i >= j
    <3>1. i - (j - 1) \in 1..(Len(s) - j) /\ j + (i - (j - 1)) = i + 1
      BY <1>0, <2>2
    <3>2. Len(t) + Len(u) = Len(s) - 1 /\ Len(t) = j - 1 /\ ~(i <= Len(t)) /\ ~(i < j)
      BY <1>0, <1>1, <1>2, <2>2
    <3>3. (t \o u)[i] = u[i - (j - 1)]
      BY <1>3, <3>2
    <3>4. u[i - (j - 1)] = s[j + (i - (j - 1))]
      BY <1>2, <3>1
    <3> QED BY <3>1, <3>2, <3>3, <3>4
  <2>3. i < j \/ i >= j
    BY <1>0
  <2> QED BY <2>1, <2>2, <2>3, Zenon
<1>5. RemoveAt(s, j) = t \o u
  BY DEF RemoveAt, t, u
<1>6. Len(t \o u) = Len(s) - 1
  BY <1>0, <1>1, <1>2, <1>3
<1> QED BY <1>3, <1>4, <1>5, <1>6, Zenon

\* What is left after RemoveAt was there, and nothing but the element at j is gone.
LEMMA RemoveAtKeeps ==
  ASSUME NEW S, NEW s \in Seq(S), NEW j \in 1..Len(s)
  PROVE  LET t == RemoveAt(s, j)
         IN  /\ \A i \in 1..Len(t) : \E h \in 1..Len(s) : t[i] = s[h]
             /\ \A h \in 1..Len(s) : h # j => \E i \in 1..Len(t) : t[i] = s[h]
<1> DEFINE t == RemoveAt(s, j)
<1>1. /\ Len(t) = Len(s) - 1 /\ Len(s) \in Nat /\ j \in Nat
      /\ \A i \in 1..(Len(s) - 1) : t[i] = IF i < j THEN s[i] ELSE s[i + 1]
  BY RemoveAtEffect
<1>2. ASSUME NEW i \in 1..Len(t) PROVE \E h \in 1..Len(s) : t[i] = s[h]
  <2>1. i \in 1..Len(s) /\ i + 1 \in 1..Len(s)
    BY <1>1
  <2> QED BY <1>1, <2>1
<1>3. ASSUME NEW h \in 1..Len(s), h # j PROVE \E i \in 1..Len(t) : t[i] = s[h]
  <2>1. CASE h < j
    BY <1>1, <1>3, <2>1
  <2>2. CASE h > j
    <3>1. h - 1 \in 1..Len(t) /\ h - 1 + 1 = h /\ ~(h - 1 < j)
      BY <1>1, <2>2
    <3> QED BY <1>1, <3>1
  <2> QED BY <1>1, <1>3, <2>1, <2>2
<1> HIDE DEF t
<1> QED BY <1>2, <1>3 DEF t

\* RemoveFirst takes out at most one element, an e.
LEMMA RemoveFirstKeeps ==
  ASSUME NEW S, NEW s \in Seq(S), NEW e
  PROVE  LET t == RemoveFirst(s, e)
         IN  /\ t \in Seq(S) /\ Len(t) <= Len(s)
             /\ \A i \in 1..Len(t) : \E h \in 1..Len(s) : t[i] = s[h]
             /\ \A h \in 1..Len(s) : s[h] # e => \E i \in 1..Len(t) : t[i] = s[h]
<1>1. CASE \A i \in 1..Len(s) : s[i] # e
  <2>1. RemoveFirst(s, e) = s
    BY <1>1 DEF RemoveFirst
  <2> QED BY <2>1
<1>2. CASE \E i \in 1..Len(s) : s[i] = e
  <2> DEFINE I == { i \in 1..Len(s) : s[i] = e }
             j == Min(I)
  <2>0. I # {}
    BY <1>2
  <2>1. SelectInSeq(s, LAMBDA v : v = e) = j
    BY <2>0, Zenon DEF SelectInSeq
  <2>2. RemoveFirst(s, e) = RemoveAt(s, j)
    BY <1>2, <2>1 DEF RemoveFirst
  <2>3. j \in I
    <3>1. I \in SUBSET Nat
      OBVIOUS
    <3> QED BY <2>0, <3>1, LeastIndex
  <2> HIDE DEF j
  <2>4. j \in 1..Len(s) /\ s[j] = e
    BY <2>3
  <2>5. RemoveAt(s, j) \in Seq(S) /\ Len(RemoveAt(s, j)) <= Len(s)
    BY <2>4, RemoveAtEffect
  <2>6. \A h \in 1..Len(s) : s[h] # e => h # j
    BY <2>4
  <2> DEFINE t == RemoveAt(s, j)
  <2>7. /\ \A i \in 1..Len(t) : \E h \in 1..Len(s) : t[i] = s[h]
        /\ \A h \in 1..Len(s) : h # j => \E i \in 1..Len(t) : t[i] = s[h]
    BY <2>4, RemoveAtKeeps
  <2>8. t \in Seq(S) /\ Len(t) <= Len(s)
    BY <2>5
  <2> HIDE DEF t
  <2>9. RemoveFirst(s, e) = t
    BY <2>2 DEF t
  <2> QED BY <2>6, <2>7, <2>8, <2>9
<1> QED BY <1>1, <1>2

\* Head and Tail of a nonempty sequence.
LEMMA HeadAndTail ==
  ASSUME NEW S, NEW s \in Seq(S), s # <<>>
  PROVE  /\ Len(s) \in Nat \ {0} /\ Head(s) \in S /\ Head(s) = s[1]
         /\ Tail(s) \in Seq(S) /\ Len(Tail(s)) = Len(s) - 1
         /\ \A i \in 1..(Len(s) - 1) : Tail(s)[i] = s[i + 1]
         /\ Len(s) > 1 => Tail(s) # <<>>
<1>1. /\ Len(s) \in Nat \ {0} /\ Tail(s) \in Seq(S) /\ Len(Tail(s)) = Len(s) - 1
      /\ \A i \in 1..Len(Tail(s)) : Tail(s)[i] = s[i + 1]
  BY HeadTailProperties, EmptySeq
<1>2. Head(s) \in S /\ Head(s) = s[1]
  OBVIOUS
<1>3. Len(s) > 1 => Tail(s) # <<>>
  <2>1. Tail(s) = <<>> => Len(Tail(s)) = 0
    BY EmptySeq
  <2> QED BY <1>1, <2>1
<1> QED BY <1>1, <1>2, <1>3

-----------------------------------------------------------------------------
(* The calendar.                                                           *)

LEMMA MulLe ==
  ASSUME NEW b \in Nat \ {0}, NEW x \in Int, NEW y \in Int, x <= y
  PROVE  x * b <= y * b
OBVIOUS

LEMMA MulLt ==
  ASSUME NEW b \in Nat \ {0}, NEW x \in Int, NEW y \in Int, x * b < (y + 1) * b
  PROVE  x <= y
OBVIOUS

LEMMA DivBounds ==
  ASSUME NEW b \in Nat \ {0}, NEW a \in Int
  PROVE  /\ a \div b \in Int
         /\ (a \div b) * b <= a /\ a < (a \div b + 1) * b
OBVIOUS

LEMMA DivUnique ==
  ASSUME NEW b \in Nat \ {0}, NEW a \in Int, NEW q \in Int, q * b <= a, a < (q + 1) * b
  PROVE  a \div b = q
<1>1. a \div b \in Int /\ (a \div b) * b <= a /\ a < (a \div b + 1) * b
  BY DivBounds
<1>2. q * b < (a \div b + 1) * b /\ (a \div b) * b < (q + 1) * b
  BY <1>1
<1>3. q <= a \div b /\ a \div b <= q
  BY <1>1, <1>2, MulLt
<1> QED BY <1>1, <1>3

\* The clock's bound, in days.
LEMMA Days ==
  /\ MaxDay \in Nat /\ DayLength \in Nat \ {0} /\ MaxNow \in Nat
  /\ \A d \in Int : d * DayLength <= MaxNow => d <= MaxDay
<1>1. DayLength \in Nat \ {0} /\ MaxNow \in Nat
  BY LookupAssumption
<1>2. /\ MaxDay \in Int /\ MaxDay * DayLength <= MaxNow
      /\ MaxNow < (MaxDay + 1) * DayLength
  BY <1>1, DivBounds DEF MaxDay
<1>3. ASSUME NEW d \in Int, d * DayLength <= MaxNow PROVE d <= MaxDay
  <2>1. d * DayLength < (MaxDay + 1) * DayLength
    BY <1>1, <1>2, <1>3
  <2> QED BY <1>1, <1>2, <2>1, MulLt
<1>4. 0 * DayLength <= MaxNow
  BY <1>1
<1> QED BY <1>1, <1>2, <1>3, <1>4

LEMMA SetupFields ==
  ASSUME setup \in Setups
  PROVE  /\ setup.backend \in Backends /\ setup.collection \in Collections
         /\ setup.offset \in Offsets /\ setup.offset \in Int
         /\ 1 - DayLength <= setup.offset /\ setup.offset <= DayLength - 1
         /\ setup.cacheEnabled \in BOOLEAN /\ setup.rotating \in BOOLEAN
         /\ setup.cacheEnabled \/ setup.backend = "inmem"
         /\ setup.rotating => setup.collection = "tokens"
BY LookupAssumption DEF Setups, Offsets

\* The local date of a UTC midnight is that day or, west of UTC, the day before.
LEMMA LocalDates ==
  ASSUME setup \in Setups, NEW d \in Int
  PROVE  LocalDate(d * DayLength) = IF setup.offset < 0 THEN d - 1 ELSE d
<1> DEFINE off == setup.offset
<1>1. /\ off \in Int /\ 1 - DayLength <= off /\ off <= DayLength - 1
      /\ DayLength \in Nat \ {0}
  BY SetupFields, LookupAssumption
<1> HIDE DEF off
<1>2. /\ d * DayLength \in Int /\ (d - 1) * DayLength = d * DayLength - DayLength
      /\ (d + 1) * DayLength = d * DayLength + DayLength /\ d - 1 + 1 = d
  BY <1>1
<1> DEFINE a == d * DayLength + off
<1>3. CASE off < 0
  <2>1. a \in Int /\ (d - 1) * DayLength <= a /\ a < (d - 1 + 1) * DayLength
    BY <1>1, <1>2, <1>3
  <2>2. d - 1 \in Int
    OBVIOUS
  <2> HIDE DEF a
  <2>3. a \div DayLength = d - 1
    BY <1>1, <2>1, <2>2, DivUnique
  <2> QED BY <1>3, <2>3 DEF a, off, LocalDate
<1>4. CASE off >= 0
  <2>1. a \in Int /\ d * DayLength <= a /\ a < (d + 1) * DayLength
    BY <1>1, <1>2, <1>4
  <2> HIDE DEF a
  <2>3. a \div DayLength = d
    BY <1>1, <2>1, DivUnique
  <2> QED BY <1>1, <1>4, <2>3 DEF a, off, LocalDate
<1> QED BY <1>1, <1>3, <1>4

\* Every date has a key.
LEMMA KeysOfDates ==
  ASSUME setup \in Setups, NEW d \in -1..MaxDay
  PROVE  KeyOf(d) \in Keys
<1>1. MaxDay \in Nat /\ d \in Int
  BY Days
<1>2. LocalDate(d * DayLength) \in {d - 1, d}
  BY <1>1, LocalDates
<1> QED BY <1>1, <1>2 DEF KeyOf, Keys

\* walkDateRange: the days from start to end, as the process dates them.
LEMMA WalkIsRange ==
  ASSUME setup \in Setups, NEW start \in 0..MaxDay, NEW end \in 0..MaxDay, start <= end
  PROVE  LET w == WalkDates(start, end)
         IN  /\ w \in Seq(-1..MaxDay) /\ w # <<>> /\ Head(w) = w[1]
             /\ \A i \in 1..Len(w) : w[i] <= IF setup.offset < 0 THEN end - 1 ELSE end
<1> DEFINE first == LocalDate(start * DayLength)
           days  == LocalDate(end * DayLength) - first
           w == WalkDates(start, end)
<1>1. MaxDay \in Nat /\ start \in Int /\ end \in Int /\ setup.offset \in Int
  BY Days, SetupFields
<1>2. /\ first = IF setup.offset < 0 THEN start - 1 ELSE start
      /\ days = end - start
  BY <1>1, LocalDates
<1>3. w = [i \in 1..(days + 1) |-> first + i - 1]
  BY DEF WalkDates
<1> HIDE DEF w, first, days
<1>4. \A i \in 1..(days + 1) : first + i - 1 \in -1..MaxDay
  BY <1>1, <1>2
<1>5. w \in Seq(-1..MaxDay) /\ Len(w) = days + 1 /\ w # <<>>
  <2>1. days + 1 \in Nat /\ days + 1 >= 1
    BY <1>1, <1>2
  <2>2. w \in [1..(days + 1) -> -1..MaxDay]
    BY <1>3, <1>4
  <2>3. w \in Seq(-1..MaxDay) /\ Len(w) = days + 1
    BY <2>1, <2>2, FunctionIsSequence
  <2> QED BY <2>1, <2>3
<1>6. \A i \in 1..Len(w) : w[i] <= IF setup.offset < 0 THEN end - 1 ELSE end
  BY <1>1, <1>2, <1>3, <1>5
<1>7. Head(w) = w[1]
  BY <1>5
<1> QED BY <1>5, <1>6, <1>7 DEF w

-----------------------------------------------------------------------------
(* Types and shapes: where a reader stands says what it holds.             *)

Working == {"find", "delete", "fetch", "insert"}
Busy(r) == pc[r] \in Working

ReaderTypes ==
    /\ pc \in [Readers -> {"idle", "join", "find", "delete", "fetch", "insert"}]
    /\ todo \in [Readers -> Seq(-1..MaxDay)]
    /\ ttl \in [Readers -> {DO_NOT_EXPIRE, ItemTtl}]
    /\ cached \in [Readers -> Items \union {NoItem}]
    /\ item \in [Readers -> Items \union {NoItem}]
    /\ vcsQueries \in Readers \union {NoReader}

ShapeOf(r) ==
    /\ Busy(r) => todo[r] # <<>> /\ (setup.collection # "dated" => todo[r] = <<0>>)
    /\ pc[r] \in {"find", "delete", "insert"} => StoreEnabled
    /\ pc[r] = "insert" => item[r] # NoItem
    /\ pc[r] # "insert" => item[r] = NoItem
    /\ pc[r] = "delete" => cached[r] # NoItem /\ setup.collection \in {"files", "tokens"}
    /\ pc[r] \in {"idle", "join", "find"} => cached[r] = NoItem
Shape == \A r \in Readers : ShapeOf(r)

\* Each request redeems at most one refresh token.
Renewing == { r \in Readers : pc[r] \in {"find", "delete", "fetch"} }
Numbered ==
    setup.rotating => /\ lastToken + Cardinality(Renewing) <= requests + 1
                      /\ redeemable = {lastToken}

Sound == TypeOK /\ Shape /\ Numbered

\* What the other readers notice of a step of reader r: at most that it settled.
Others(r) ==
    \A s \in Readers \ {r} :
        /\ pc'[s] = pc[s] \/ (pc[s] = "join" /\ pc'[s] = "idle")
        /\ todo'[s] = todo[s] /\ ttl'[s] = ttl[s]
        /\ cached'[s] = cached[s] /\ item'[s] = item[s]

\* What a step of reader r does to it: its next call begins, or it settles.
Turns(r, dates) ==
    /\ pc'[r] = IF StoreEnabled THEN "find" ELSE "fetch"
    /\ todo'[r] = dates /\ ttl'[r] = TtlFor(Head(dates))
    /\ cached'[r] = NoItem /\ item'[r] = NoItem
Ends(r) ==
    /\ pc'[r] = "idle" /\ todo'[r] = <<>>
    /\ cached'[r] = NoItem /\ item'[r] = NoItem
    /\ vcsQueries' = IF vcsQueries = r THEN NoReader ELSE vcsQueries
Advances(r) ==
    \/ /\ Len(todo[r]) > 1 /\ vcsQueries' = vcsQueries
       /\ Tail(todo[r]) \in Seq(-1..MaxDay) /\ Tail(todo[r]) # <<>>
       /\ Turns(r, Tail(todo[r]))
    \/ Ends(r)
\* ... or it holds a value to insert.
Holds(r, ok, token) ==
    /\ pc'[r] = "insert" /\ todo'[r] = todo[r] /\ cached'[r] = cached[r]
    /\ vcsQueries' = vcsQueries /\ item'[r] \in Items
    /\ item'[r].asOf = now /\ item'[r].ok = ok /\ item'[r].refreshToken = token
    /\ item'[r].expireAt = DO_NOT_EXPIRE => ttl[r] = DO_NOT_EXPIRE

LEMMA TtlTypes == \A d : TtlFor(d) \in {DO_NOT_EXPIRE, ItemTtl}
BY DEF TtlFor, ExpireAfter

LEMMA BeginDoes ==
  ASSUME ReaderTypes, NEW r \in Readers, NEW dates \in Seq(-1..MaxDay), Begin(r, dates),
         vcsQueries' \in Readers \union {NoReader}
  PROVE  ReaderTypes' /\ Turns(r, dates) /\ Others(r)
<1>1. TtlFor(Head(dates)) \in {DO_NOT_EXPIRE, ItemTtl}
  BY TtlTypes
<1>2. ReaderTypes'
  BY <1>1 DEF ReaderTypes, Begin
<1>3. Turns(r, dates)
  BY DEF ReaderTypes, Begin, Turns
<1>4. Others(r)
  BY DEF ReaderTypes, Begin, Others
<1> QED BY <1>2, <1>3, <1>4

LEMMA SettleDoes ==
  ASSUME ReaderTypes, NEW r \in Readers, Settle(r)
  PROVE  ReaderTypes' /\ Ends(r) /\ Others(r)
<1> DEFINE done == {r} \union Sharing(r)
<1>1. /\ pc' = [s \in Readers |-> IF s \in done THEN "idle" ELSE pc[s]]
      /\ todo' = [todo EXCEPT ![r] = <<>>]
      /\ cached' = [cached EXCEPT ![r] = NoItem]
      /\ item' = [item EXCEPT ![r] = NoItem]
      /\ ttl' = [ttl EXCEPT ![r] = DO_NOT_EXPIRE]
      /\ vcsQueries' = IF vcsQueries = r THEN NoReader ELSE vcsQueries
  BY DEF Settle
<1>2. r \in done /\ \A s \in Readers \ {r} : s \in done => pc[s] = "join"
  BY DEF Sharing
<1> HIDE DEF done
<1>3. ReaderTypes'
  BY <1>1 DEF ReaderTypes
<1>4. Ends(r)
  BY <1>1, <1>2 DEF ReaderTypes, Ends
<1>5. Others(r)
  BY <1>1, <1>2 DEF ReaderTypes, Others
<1> QED BY <1>3, <1>4, <1>5

\* Proceed: the next date, or the end.
LEMMA ProceedDoes ==
  ASSUME ReaderTypes, NEW r \in Readers, todo[r] # <<>>, Proceed(r)
  PROVE  ReaderTypes' /\ Others(r) /\ Advances(r)
<1>1. /\ Tail(todo[r]) \in Seq(-1..MaxDay)
      /\ Len(todo[r]) > 1 => Tail(todo[r]) # <<>>
  <2>1. todo[r] \in Seq(-1..MaxDay)
    BY DEF ReaderTypes
  <2> QED BY <2>1, HeadAndTail
<1>2. CASE Len(todo[r]) > 1
  <2>1. Begin(r, Tail(todo[r])) /\ vcsQueries' = vcsQueries
    BY <1>2 DEF Proceed
  <2>2. vcsQueries' \in Readers \union {NoReader}
    BY <2>1 DEF ReaderTypes
  <2> QED BY <1>1, <1>2, <2>1, <2>2, BeginDoes DEF Advances
<1>3. CASE ~(Len(todo[r]) > 1)
  BY <1>3, SettleDoes DEF Proceed, Advances
<1> QED BY <1>2, <1>3

\* The date and key a busy reader is at.
LEMMA CurrentKey ==
  ASSUME TypeOK, NEW r \in Readers, todo[r] # <<>>
  PROVE  /\ Head(todo[r]) \in -1..MaxDay /\ Head(todo[r]) = todo[r][1]
         /\ KeyOf(Head(todo[r])) \in Keys
<1>1. todo[r] \in Seq(-1..MaxDay)
  BY DEF TypeOK
<1>2. Head(todo[r]) \in -1..MaxDay /\ Head(todo[r]) = todo[r][1]
  BY <1>1, HeadAndTail
<1> QED BY <1>2, KeysOfDates DEF TypeOK

LEMMA TypesOfReaders == TypeOK => ReaderTypes
BY DEF TypeOK, ReaderTypes

\* What a fetched value becomes.
LEMMA PopulatedDoes ==
  ASSUME TypeOK, NEW r \in Readers, todo[r] # <<>>, NEW ok \in BOOLEAN,
         NEW token \in 0..MaxToken, Populated(r, ok, token)
  PROVE  /\ ReaderTypes' /\ Others(r)
         /\ IF StoreEnabled THEN Holds(r, ok, token) ELSE Advances(r)
<1>1. ReaderTypes /\ now \in 0..MaxNow /\ ItemTtl \in Nat \ {0} /\ MaxNow \in Nat
  BY TypesOfReaders, LookupAssumption DEF TypeOK
<1>2. CASE StoreEnabled
  <2> DEFINE i == [asOf |-> now, ok |-> ok, refreshToken |-> token,
                   expireAt |-> IF ttl[r] = DO_NOT_EXPIRE THEN DO_NOT_EXPIRE ELSE now + ttl[r]]
  <2>1. /\ item' = [item EXCEPT ![r] = i]
        /\ pc' = [pc EXCEPT ![r] = "insert"]
        /\ UNCHANGED <<todo, ttl, cached, vcsQueries>>
    BY <1>2 DEF Populated
  <2>2. ttl[r] \in {DO_NOT_EXPIRE, ItemTtl}
    BY <1>1 DEF ReaderTypes
  <2>3. /\ i \in Items
        /\ i.expireAt = DO_NOT_EXPIRE => ttl[r] = DO_NOT_EXPIRE
    BY <1>1, <2>2 DEF Items, DO_NOT_EXPIRE
  <2>4. i.asOf = now /\ i.ok = ok /\ i.refreshToken = token
    OBVIOUS
  <2> HIDE DEF i
  <2>5. item'[r] = i
    BY <1>1, <2>1 DEF ReaderTypes
  <2>6. ReaderTypes' /\ Others(r) /\ pc'[r] = "insert"
    BY <1>1, <2>1, <2>3 DEF ReaderTypes, Others
  <2> QED BY <1>2, <2>1, <2>3, <2>4, <2>5, <2>6 DEF Holds
<1>3. CASE ~StoreEnabled
  <2>1. Proceed(r)
    BY <1>3 DEF Populated
  <2> QED BY <1>1, <1>3, <2>1, ProceedDoes
<1> QED BY <1>2, <1>3

-----------------------------------------------------------------------------
(* What the actions do, in these terms.                                    *)

LEMMA StoreTypes ==
  ASSUME TypeOK, NEW k \in Keys
  PROVE  /\ items[k] \in Seq(Items) /\ AfterFind(k) \in Seq(Items)
         /\ FoundIn(k) \in Items \union {NoItem}
         /\ FoundIn(k) # NoItem => /\ items[k] # <<>> /\ FoundIn(k) = Head(items[k])
                                   /\ AfterFind(k) = items[k]
         /\ FoundIn(k) = NoItem => \/ items[k] = <<>> /\ AfterFind(k) = <<>>
                                   \/ items[k] # <<>> /\ AfterFind(k) = Tail(items[k])
<1>1. items[k] \in Seq(Items)
  BY DEF TypeOK
<1>2. items[k] # <<>> => Head(items[k]) \in Items /\ Tail(items[k]) \in Seq(Items)
  BY <1>1, HeadAndTail
<1>3. Head(items[k]) = NoItem => items[k] = <<>>
  BY <1>2, NoItemAssumption
<1>4. ~Evicts(k) => AfterFind(k) = items[k]
  BY DEF AfterFind
<1>5. Evicts(k) => AfterFind(k) = Tail(items[k]) /\ items[k] # <<>> /\ FoundIn(k) = NoItem
  BY DEF AfterFind, FoundIn, Evicts
<1>6. ~Evicts(k) => FoundIn(k) = IF items[k] = <<>> THEN NoItem ELSE Head(items[k])
  BY DEF FoundIn
<1> QED BY <1>1, <1>2, <1>3, <1>4, <1>5, <1>6, Zenon

\* insertOne keeps what it is given but for the local store's expiry.
LEMMA StoredTypes ==
  ASSUME TypeOK, NEW k \in Keys, NEW i \in Items
  PROVE  /\ Stored(i) \in Items /\ AfterInsert(k, i) \in Seq(Items)
         /\ Stored(i).asOf = i.asOf /\ Stored(i).ok = i.ok
         /\ Stored(i).refreshToken = i.refreshToken
         /\ Stored(i).expireAt = DO_NOT_EXPIRE => i.expireAt = DO_NOT_EXPIRE
         /\ AfterInsert(k, i) = IF Appends THEN Append(items[k], Stored(i)) ELSE <<Stored(i)>>
<1>1. /\ now \in 0..MaxNow /\ ItemTtl \in Nat \ {0} /\ MaxNow \in Nat
      /\ items[k] \in Seq(Items) /\ DO_NOT_EXPIRE = -1
      /\ ExpireAfter \in {ItemTtl, DO_NOT_EXPIRE}
  BY LookupAssumption DEF TypeOK, ExpireAfter, DO_NOT_EXPIRE
<1> DEFINE e == IF ExpireAfter = DO_NOT_EXPIRE THEN now ELSE now + ExpireAfter
<1>2. e \in 0..(MaxNow + ItemTtl) /\ e # DO_NOT_EXPIRE
  BY <1>1
<1> HIDE DEF e
<1>3. Stored(i) = i \/ Stored(i) = [i EXCEPT !.expireAt = e]
  BY DEF Stored, e
<1>4. /\ Stored(i) \in Items
      /\ Stored(i).asOf = i.asOf /\ Stored(i).ok = i.ok
      /\ Stored(i).refreshToken = i.refreshToken
      /\ Stored(i).expireAt = DO_NOT_EXPIRE => i.expireAt = DO_NOT_EXPIRE
  BY <1>2, <1>3 DEF Items
<1>5. AfterInsert(k, i) = IF Appends THEN Append(items[k], Stored(i)) ELSE <<Stored(i)>>
  BY DEF AfterInsert
<1>6. Append(items[k], Stored(i)) \in Seq(Items) /\ <<Stored(i)>> \in Seq(Items)
  BY <1>1, <1>4
<1> QED BY <1>4, <1>5, <1>6

\* A date of a query lies in the past as far as its process can tell.
Past(d) == IF setup.offset < 0 THEN (d + 1) * DayLength <= now ELSE d * DayLength <= now

LEMMA RequestDoes ==
  ASSUME TypeOK, NEW r \in Readers, Request(r)
  PROVE  /\ ReaderTypes' /\ Others(r) /\ pc[r] = "idle"
         /\ \/ /\ setup.collection = "repos" /\ vcsQueries # NoReader
               /\ vcsQueries' = vcsQueries /\ pc'[r] = "join"
               /\ todo'[r] = todo[r] /\ cached'[r] = cached[r] /\ item'[r] = item[r]
            \/ \E dates \in Seq(-1..MaxDay) :
                  /\ dates # <<>> /\ Turns(r, dates)
                  /\ setup.collection # "dated" => dates = <<0>>
                  /\ setup.collection = "dated" => \A i \in 1..Len(dates) : Past(dates[i])
                  /\ IF setup.collection = "repos" THEN vcsQueries = NoReader /\ vcsQueries' = r
                                                   ELSE vcsQueries' = vcsQueries
<1>1. /\ ReaderTypes /\ setup \in Setups /\ pc[r] = "idle" /\ now \in 0..MaxNow
      /\ MaxDay \in Nat /\ DayLength \in Nat \ {0} /\ MaxNow \in Nat
  BY TypesOfReaders, Days DEF TypeOK, Request
<1>2. <<0>> \in Seq(-1..MaxDay) /\ <<0>> # <<>>
  BY <1>1
<1>3. CASE setup.collection = "dated"
  <2>1. PICK start \in 0..MaxDay, end \in 0..MaxDay :
          /\ start <= end /\ end * DayLength <= now
          /\ Begin(r, WalkDates(start, end)) /\ vcsQueries' = vcsQueries
    BY <1>3 DEF Request
  <2> DEFINE dates == WalkDates(start, end)
  <2>2. /\ dates \in Seq(-1..MaxDay) /\ dates # <<>>
        /\ \A i \in 1..Len(dates) : dates[i] <= IF setup.offset < 0 THEN end - 1 ELSE end
    BY <1>1, <2>1, WalkIsRange
  <2>3. Begin(r, dates)
    BY <2>1
  <2> HIDE DEF dates
  <2>4. ReaderTypes' /\ Turns(r, dates) /\ Others(r)
    <3>1. vcsQueries' \in Readers \union {NoReader}
      BY <1>1, <2>1 DEF ReaderTypes
    <3> QED BY <1>1, <2>2, <2>3, <3>1, BeginDoes
  <2>5. ASSUME NEW i \in 1..Len(dates) PROVE Past(dates[i])
    <3>0. dates[i] \in -1..MaxDay
      <4>1. dates \in Seq(-1..MaxDay) /\ i \in 1..Len(dates)
        BY <2>2
      <4> QED BY <4>1, ElementOfSeq
    <3>1. dates[i] \in Int /\ dates[i] <= IF setup.offset < 0 THEN end - 1 ELSE end
      BY <1>1, <2>2, <3>0
    <3>2. CASE setup.offset < 0
      <4>1. dates[i] + 1 \in Int /\ end \in Int /\ dates[i] + 1 <= end
        BY <1>1, <3>1, <3>2
      <4>2. (dates[i] + 1) * DayLength <= end * DayLength
        BY <1>1, <4>1, MulLe
      <4>3. (dates[i] + 1) * DayLength \in Int /\ end * DayLength \in Int /\ now \in Int
        BY <1>1, <4>1
      <4>4. (dates[i] + 1) * DayLength <= now
        BY <2>1, <4>2, <4>3
      <4> QED BY <3>2, <4>4 DEF Past
    <3>3. CASE ~(setup.offset < 0)
      <4>1. end \in Int /\ dates[i] <= end
        BY <1>1, <3>1, <3>3
      <4>2. dates[i] * DayLength <= end * DayLength
        BY <1>1, <3>1, <4>1, MulLe
      <4>3. dates[i] * DayLength \in Int /\ end * DayLength \in Int /\ now \in Int
        BY <1>1, <3>1, <4>1
      <4>4. dates[i] * DayLength <= now
        BY <2>1, <4>2, <4>3
      <4> QED BY <3>3, <4>4 DEF Past
    <3> QED BY <3>2, <3>3
  <2> QED BY <1>1, <1>3, <2>1, <2>2, <2>4, <2>5
<1>4. CASE setup.collection \in {"files", "tokens"}
  <2>1. Begin(r, <<0>>) /\ vcsQueries' = vcsQueries
    BY <1>4 DEF Request
  <2>2. ReaderTypes' /\ Turns(r, <<0>>) /\ Others(r)
    <3>1. vcsQueries' \in Readers \union {NoReader}
      BY <1>1, <2>1 DEF ReaderTypes
    <3> QED BY <1>1, <1>2, <2>1, <3>1, BeginDoes
  <2> QED BY <1>1, <1>2, <1>4, <2>1, <2>2
<1>5. CASE setup.collection = "repos" /\ vcsQueries = NoReader
  <2>1. Begin(r, <<0>>) /\ vcsQueries' = r
    BY <1>5 DEF Request, ActiveQuery
  <2>2. ReaderTypes' /\ Turns(r, <<0>>) /\ Others(r)
    BY <1>1, <1>2, <2>1, BeginDoes
  <2> QED BY <1>1, <1>2, <1>5, <2>1, <2>2
<1>6. CASE setup.collection = "repos" /\ vcsQueries # NoReader
  <2>1. pc' = [pc EXCEPT ![r] = "join"] /\ UNCHANGED <<todo, ttl, cached, item, vcsQueries>>
    BY <1>6 DEF Request, ActiveQuery
  <2>2. ReaderTypes' /\ Others(r) /\ pc'[r] = "join"
    BY <1>1, <2>1 DEF ReaderTypes, Others
  <2> QED BY <1>1, <1>6, <2>1, <2>2
<1>7. setup.collection \in {"dated", "files", "tokens", "repos"}
  BY <1>1, SetupFields DEF Collections
<1> QED BY <1>3, <1>4, <1>5, <1>6, <1>7

LEMMA FindDoes ==
  ASSUME TypeOK, Shape, NEW r \in Readers, Find(r), NEW k, k = KeyOf(Head(todo[r]))
  PROVE  /\ pc[r] = "find" /\ todo[r] # <<>> /\ k \in Keys
         /\ ReaderTypes' /\ Others(r)
         /\ items' = [items EXCEPT ![k] = AfterFind(k)]
         /\ items' \in [Keys -> Seq(Items)]
         /\ \/ Valid(FoundIn(k)) /\ Advances(r)
            \/ /\ FoundIn(k) = NoItem /\ pc'[r] = "fetch" /\ cached'[r] = NoItem
               /\ todo'[r] = todo[r] /\ ttl'[r] = ttl[r] /\ item'[r] = item[r]
               /\ vcsQueries' = vcsQueries
            \/ /\ FoundIn(k) # NoItem /\ pc'[r] = "delete" /\ cached'[r] = FoundIn(k)
               /\ setup.collection \in {"files", "tokens"}
               /\ todo'[r] = todo[r] /\ ttl'[r] = ttl[r] /\ item'[r] = item[r]
               /\ vcsQueries' = vcsQueries
<1>1. ReaderTypes /\ pc[r] = "find" /\ todo[r] # <<>>
  BY TypesOfReaders DEF Shape, ShapeOf, Busy, Working, Find
<1>2. k \in Keys
  BY <1>1, CurrentKey
<1>3. /\ items' = [items EXCEPT ![k] = AfterFind(k)]
      /\ items' \in [Keys -> Seq(Items)] /\ FoundIn(k) \in Items \union {NoItem}
  <2>1. items' = [items EXCEPT ![k] = AfterFind(k)]
    BY DEF Find
  <2>2. AfterFind(k) \in Seq(Items) /\ FoundIn(k) \in Items \union {NoItem}
    BY <1>2, StoreTypes
  <2> QED BY <1>2, <2>1, <2>2 DEF TypeOK
<1>4. CASE Valid(FoundIn(k))
  <2>1. Proceed(r)
    BY <1>4 DEF Find
  <2> QED BY <1>1, <1>2, <1>3, <1>4, <2>1, ProceedDoes
<1>5. CASE ~Valid(FoundIn(k))
  <2>1. /\ cached' = [cached EXCEPT ![r] = FoundIn(k)]
        /\ pc' = [pc EXCEPT ![r] = IF FoundIn(k) = NoItem THEN "fetch" ELSE "delete"]
        /\ UNCHANGED <<todo, ttl, item, vcsQueries>>
    BY <1>5 DEF Find
  <2>2. ReaderTypes' /\ Others(r)
    BY <1>1, <1>3, <2>1 DEF ReaderTypes, Others
  <2>3. /\ pc'[r] = IF FoundIn(k) = NoItem THEN "fetch" ELSE "delete"
        /\ cached'[r] = FoundIn(k)
    BY <1>1, <2>1 DEF ReaderTypes
  <2>4. FoundIn(k) # NoItem => setup.collection \in {"files", "tokens"}
    BY <1>5 DEF Valid
  <2> QED BY <1>1, <1>2, <1>3, <2>1, <2>2, <2>3, <2>4
<1> QED BY <1>4, <1>5

LEMMA DeleteDoes ==
  ASSUME TypeOK, Shape, NEW r \in Readers, Delete(r), NEW k, k = KeyOf(Head(todo[r]))
  PROVE  /\ pc[r] = "delete" /\ todo[r] # <<>> /\ k \in Keys
         /\ ReaderTypes' /\ Others(r) /\ pc'[r] = "fetch"
         /\ cached'[r] = cached[r] /\ todo'[r] = todo[r] /\ ttl'[r] = ttl[r]
         /\ item'[r] = item[r] /\ vcsQueries' = vcsQueries
         /\ items' = [items EXCEPT ![k] = AfterDelete(k, cached[r])]
         /\ items' \in [Keys -> Seq(Items)]
<1>1. ReaderTypes /\ pc[r] = "delete" /\ todo[r] # <<>>
  BY TypesOfReaders DEF Shape, ShapeOf, Busy, Working, Delete
<1>2. k \in Keys
  BY <1>1, CurrentKey
<1>3. /\ items' = [items EXCEPT ![k] = AfterDelete(k, cached[r])]
      /\ pc' = [pc EXCEPT ![r] = "fetch"]
      /\ UNCHANGED <<todo, ttl, cached, item, vcsQueries>>
  BY DEF Delete
<1>4. AfterDelete(k, cached[r]) \in Seq(Items)
  BY <1>2, RemoveFirstKeeps DEF AfterDelete, TypeOK
<1>5. ReaderTypes' /\ Others(r) /\ pc'[r] = "fetch"
  BY <1>1, <1>3 DEF ReaderTypes, Others
<1>6. items' \in [Keys -> Seq(Items)]
  BY <1>2, <1>3, <1>4 DEF TypeOK
<1> QED BY <1>1, <1>2, <1>3, <1>5, <1>6

LEMMA InsertDoes ==
  ASSUME TypeOK, Shape, NEW r \in Readers, Insert(r), NEW k, k = KeyOf(Head(todo[r]))
  PROVE  /\ pc[r] = "insert" /\ todo[r] # <<>> /\ k \in Keys /\ item[r] \in Items
         /\ ReaderTypes' /\ Others(r) /\ Advances(r)
         /\ items' = [items EXCEPT ![k] = AfterInsert(k, item[r])]
         /\ items' \in [Keys -> Seq(Items)]
<1>1. ReaderTypes /\ pc[r] = "insert" /\ todo[r] # <<>> /\ item[r] # NoItem
  BY TypesOfReaders DEF Shape, ShapeOf, Busy, Working, Insert
<1>2. k \in Keys /\ item[r] \in Items
  BY <1>1, CurrentKey DEF ReaderTypes
<1>3. items' = [items EXCEPT ![k] = AfterInsert(k, item[r])] /\ Proceed(r)
  BY DEF Insert
<1>4. AfterInsert(k, item[r]) \in Seq(Items)
  BY <1>2, StoredTypes
<1>5. ReaderTypes' /\ Others(r) /\ Advances(r)
  BY <1>1, <1>3, ProceedDoes
<1>6. items' \in [Keys -> Seq(Items)]
  BY <1>2, <1>3, <1>4 DEF TypeOK
<1> QED BY <1>1, <1>2, <1>3, <1>5, <1>6


LEMMA FetchDoes ==
  ASSUME TypeOK, Shape, NEW r \in Readers, Fetch(r)
  PROVE  /\ pc[r] = "fetch" /\ todo[r] # <<>> /\ setup.collection # "tokens"
         /\ ReaderTypes' /\ Others(r) /\ failures' \in 0..MaxFaults
         /\ \E ok \in BOOLEAN : IF StoreEnabled THEN Holds(r, ok, 0) ELSE Advances(r)
<1>1. pc[r] = "fetch" /\ todo[r] # <<>> /\ setup.collection # "tokens"
  BY DEF Shape, ShapeOf, Busy, Working, Fetch
<1>2. 0 \in 0..MaxToken
  BY LookupAssumption DEF MaxToken
<1>3. CASE Populated(r, TRUE, 0) /\ failures' = failures
  BY <1>1, <1>2, <1>3, PopulatedDoes DEF TypeOK
<1>4. CASE Populated(r, FALSE, 0) /\ MoreFaults /\ failures' = failures + 1
  <2>1. failures' \in 0..MaxFaults
    BY <1>4, LookupAssumption DEF MoreFaults, TypeOK
  <2> QED BY <1>1, <1>2, <1>4, <2>1, PopulatedDoes
<1> QED BY <1>3, <1>4 DEF Fetch

\* A rotating server accepts its last refresh token only, and replaces it.
LEMMA GrantDoes ==
  ASSUME Sound, NEW r \in Readers, pc[r] = "fetch",
         TokenToRedeem(r) \in redeemable, Grant(TokenToRedeem(r))
  PROVE  /\ lastToken' \in 1..MaxToken /\ redeemable' \subseteq 1..MaxToken
         /\ ~setup.rotating => lastToken' = lastToken /\ redeemable' = redeemable
         /\ setup.rotating => /\ lastToken' = lastToken + 1 /\ redeemable' = {lastToken'}
                              /\ TokenToRedeem(r) = lastToken
<1>1. /\ lastToken \in 1..MaxToken /\ redeemable \subseteq 1..MaxToken
      /\ requests \in 0..MaxRequests /\ MaxRequests \in Nat /\ MaxToken = MaxRequests + 1
  BY LookupAssumption DEF Sound, TypeOK, MaxToken
<1>2. CASE setup.rotating
  <2>1. redeemable = {lastToken} /\ lastToken + Cardinality(Renewing) <= requests + 1
    BY <1>2 DEF Sound, Numbered
  <2>2. Cardinality(Renewing) \in Nat /\ Cardinality(Renewing) # 0
    <3>1. Renewing \subseteq Readers /\ r \in Renewing
      BY DEF Renewing
    <3>2. IsFiniteSet(Renewing)
      BY <3>1, FS_Subset, LookupAssumption
    <3>3. Cardinality(Renewing) \in Nat /\ (Cardinality(Renewing) = 0 <=> Renewing = {})
      BY <3>2, FS_CardinalityType, FS_EmptySet
    <3> QED BY <3>1, <3>3
  <2>3. lastToken + 1 \in 1..MaxToken
    BY <1>1, <2>1, <2>2
  <2>4. lastToken' = lastToken + 1 /\ TokenToRedeem(r) = lastToken
    BY <1>2, <2>1 DEF Grant
  <2>5. redeemable' = {lastToken + 1}
    BY <1>2, <2>1, <2>4 DEF Grant
  <2> QED BY <1>2, <2>3, <2>4, <2>5
<1>3. CASE ~setup.rotating
  BY <1>1, <1>3 DEF Grant, serverVars
<1> QED BY <1>2, <1>3

LEMMA RedeemDoes ==
  ASSUME Sound, NEW r \in Readers, Redeem(r)
  PROVE  /\ pc[r] = "fetch" /\ setup.collection = "tokens" /\ StoreEnabled
         /\ TokenToRedeem(r) \in redeemable /\ Grant(TokenToRedeem(r))
         /\ ReaderTypes' /\ Others(r)
         /\ Holds(r, TRUE, IF setup.rotating THEN lastToken' ELSE 0)
<1>1. /\ pc[r] = "fetch" /\ setup.collection = "tokens" /\ StoreEnabled
      /\ TokenToRedeem(r) \in redeemable /\ Grant(TokenToRedeem(r)) /\ todo[r] # <<>>
  BY DEF Redeem, StoreEnabled, Sound, Shape, ShapeOf, Busy, Working
<1> DEFINE token == IF setup.rotating THEN lastToken + 1 ELSE 0
<1>2. /\ lastToken' \in 1..MaxToken
      /\ setup.rotating => lastToken' = lastToken + 1
  BY <1>1, GrantDoes
<1>3. token \in 0..MaxToken /\ token = IF setup.rotating THEN lastToken' ELSE 0
  BY <1>2, LookupAssumption DEF MaxToken
<1>4. Populated(r, TRUE, token)
  BY DEF Redeem
<1> HIDE DEF token
<1>5. ReaderTypes' /\ Others(r) /\ Holds(r, TRUE, token)
  BY <1>1, <1>3, <1>4, PopulatedDoes DEF Sound
<1> QED BY <1>1, <1>3, <1>5

LEMMA CallFailsDoes ==
  ASSUME TypeOK, NEW r \in Readers, CallFails(r)
  PROVE  /\ pc[r] \in Working
         /\ failures' \in 0..MaxFaults /\ lost' \in 0..MaxFaults
         /\ IF pc[r] = "insert" THEN lost' # 0 /\ failures' = failures
                                ELSE lost' = lost /\ failures' # 0
         /\ ReaderTypes' /\ Ends(r) /\ Others(r)
<1>1. /\ failures \in 0..MaxFaults /\ lost \in 0..MaxFaults /\ restarts \in 0..MaxFaults
      /\ MaxFaults \in Nat
  BY LookupAssumption DEF TypeOK
<1>2. ReaderTypes' /\ Ends(r) /\ Others(r)
  BY TypesOfReaders, SettleDoes DEF CallFails
<1>3. CASE /\ pc[r] \in {"find", "delete", "fetch"} /\ MoreFaults
           /\ failures' = failures + 1 /\ lost' = lost
  BY <1>1, <1>2, <1>3 DEF MoreFaults, Working
<1>4. CASE /\ pc[r] = "insert" /\ MoreFaults
           /\ lost' = lost + 1 /\ failures' = failures
  BY <1>1, <1>2, <1>4 DEF MoreFaults, Working
<1> QED BY <1>3, <1>4 DEF CallFails

\* A store's expiry removes one of the items of a key.
LEMMA StoreExpiresDoes ==
  ASSUME TypeOK, NEW k \in Keys, StoreExpires(k)
  PROVE  /\ ExpiryEnabled
         /\ \E j \in 1..Len(items[k]) : items' = [items EXCEPT ![k] = RemoveAt(items[k], j)]
         /\ items' \in [Keys -> Seq(Items)]
<1>1. ExpiryEnabled
  BY DEF StoreExpires
<1>2. PICK j \in 1..Len(items[k]) : items' = [items EXCEPT ![k] = RemoveAt(items[k], j)]
  BY DEF StoreExpires
<1>3. items[k] \in Seq(Items)
  BY DEF TypeOK
<1>4. RemoveAt(items[k], j) \in Seq(Items)
  BY <1>3, RemoveAtEffect
<1>5. items' \in [Keys -> Seq(Items)]
  BY <1>2, <1>4 DEF TypeOK
<1> QED BY <1>1, <1>2, <1>5

LEMMA RestartDoes ==
  ASSUME TypeOK, Restart
  PROVE  /\ ReaderTypes' /\ restarts' \in 0..MaxFaults /\ restarts' # 0
         /\ vcsQueries' = NoReader
         /\ \A r \in Readers : /\ pc'[r] = "idle" /\ cached'[r] = NoItem
                               /\ item'[r] = NoItem /\ todo'[r] = <<>>
         /\ items' \in [Keys -> Seq(Items)]
         /\ \A k \in Keys : items'[k] = items[k] \/ items'[k] = <<>>
<1>1. /\ failures \in 0..MaxFaults /\ lost \in 0..MaxFaults /\ restarts \in 0..MaxFaults
      /\ MaxFaults \in Nat
  BY LookupAssumption DEF TypeOK
<1>2. restarts' \in 0..MaxFaults /\ restarts' # 0
  BY <1>1 DEF Restart, MoreFaults
<1>3. ReaderTypes'
  BY DEF Restart, ReaderTypes
<1>4. /\ items' \in [Keys -> Seq(Items)]
      /\ \A k \in Keys : items'[k] = items[k] \/ items'[k] = <<>>
  BY DEF Restart, TypeOK
<1> QED BY <1>2, <1>3, <1>4 DEF Restart

-----------------------------------------------------------------------------
(* Soundness: types, shapes and the numbering of tokens are inductive.     *)

LEMMA AdvancesShape ==
  ASSUME TypeOK, NEW r \in Readers, ShapeOf(r), Busy(r), Advances(r), setup' = setup
  PROVE  /\ ShapeOf(r)' /\ pc'[r] \in {"idle", "find", "fetch"}
         /\ setup.collection # "dated" => Ends(r)
<1>1. /\ StoreEnabled' = StoreEnabled
      /\ setup.collection # "dated" => todo[r] = <<0>>
  BY DEF StoreEnabled, ShapeOf
<1>2. CASE Ends(r)
  BY <1>1, <1>2 DEF Ends, ShapeOf, Busy, Working
<1>3. CASE Len(todo[r]) > 1 /\ Tail(todo[r]) # <<>> /\ Turns(r, Tail(todo[r]))
  <2>1. setup.collection = "dated"
    <3>1. Len(<<0>>) = 1 /\ ~(1 > 1)
      OBVIOUS
    <3> QED BY <1>1, <1>3, <3>1, Zenon
  <2> QED BY <1>1, <1>3, <2>1 DEF Turns, ShapeOf, Busy, Working
<1> QED BY <1>2, <1>3 DEF Advances

LEMMA OthersShape ==
  ASSUME Shape, NEW r \in Readers, Others(r), ShapeOf(r)', setup' = setup
  PROVE  Shape'
<1> SUFFICES ASSUME NEW s \in Readers, s # r
             PROVE  ShapeOf(s)'
  BY DEF Shape
<1>1. /\ pc'[s] = pc[s] \/ (pc[s] = "join" /\ pc'[s] = "idle")
      /\ todo'[s] = todo[s] /\ cached'[s] = cached[s] /\ item'[s] = item[s]
      /\ StoreEnabled' = StoreEnabled
  BY DEF Others, StoreEnabled
<1>2. ShapeOf(s)
  BY DEF Shape
<1> QED BY <1>1, <1>2 DEF ShapeOf, Busy, Working

\* Fewer renewing readers redeem fewer tokens.
LEMMA RenewingCounts ==
  /\ IsFiniteSet(Renewing) /\ IsFiniteSet(Renewing')
  /\ Cardinality(Renewing) \in Nat /\ Cardinality(Renewing') \in Nat
  /\ Renewing' \subseteq Renewing => Cardinality(Renewing') <= Cardinality(Renewing)
  /\ \A r \in Readers : Renewing' \subseteq Renewing \union {r}
                           => Cardinality(Renewing') <= Cardinality(Renewing) + 1
  /\ \A r \in Renewing : Renewing' \subseteq Renewing \ {r}
                           => Cardinality(Renewing') + 1 <= Cardinality(Renewing)
<1>1. Renewing \subseteq Readers /\ Renewing' \subseteq Readers
  BY DEF Renewing
<1>2. IsFiniteSet(Renewing) /\ IsFiniteSet(Renewing')
  BY <1>1, FS_Subset, LookupAssumption
<1>3. Cardinality(Renewing) \in Nat /\ Cardinality(Renewing') \in Nat
  BY <1>2, FS_CardinalityType
<1>4. Renewing' \subseteq Renewing => Cardinality(Renewing') <= Cardinality(Renewing)
  BY <1>2, FS_Subset
<1>5. ASSUME NEW r \in Readers, Renewing' \subseteq Renewing \union {r}
      PROVE  Cardinality(Renewing') <= Cardinality(Renewing) + 1
  <2>1. /\ IsFiniteSet(Renewing \union {r})
        /\ Cardinality(Renewing \union {r}) \in {Cardinality(Renewing), Cardinality(Renewing) + 1}
    BY <1>2, FS_AddElement
  <2>2. Cardinality(Renewing') <= Cardinality(Renewing \union {r})
    BY <1>5, <2>1, FS_Subset
  <2> QED BY <1>3, <2>1, <2>2
<1>6. ASSUME NEW r \in Renewing, Renewing' \subseteq Renewing \ {r}
      PROVE  Cardinality(Renewing') + 1 <= Cardinality(Renewing)
  <2>1. /\ IsFiniteSet(Renewing \ {r})
        /\ Cardinality(Renewing \ {r}) = Cardinality(Renewing) - 1
    BY <1>2, FS_RemoveElement
  <2>2. Cardinality(Renewing') <= Cardinality(Renewing \ {r})
    BY <1>6, <2>1, FS_Subset
  <2> QED BY <1>3, <2>1, <2>2
<1> QED BY <1>2, <1>3, <1>4, <1>5, <1>6

\* A step of reader r that leaves the requests and the token server alone.
LEMMA ReaderStepIsSound ==
  ASSUME Sound, NEW r \in Readers, ReaderTypes', Others(r), ShapeOf(r)',
         setup.rotating /\ pc'[r] \in {"find", "delete", "fetch"}
            => pc[r] \in {"find", "delete", "fetch"},
         UNCHANGED <<setup, now, serverVars, requests, restarts>>,
         items' \in [Keys -> Seq(Items)], failures' \in 0..MaxFaults, lost' \in 0..MaxFaults
  PROVE  Sound'
<1>1. TypeOK'
  BY DEF Sound, TypeOK, ReaderTypes, serverVars
<1>2. Shape'
  BY OthersShape DEF Sound
<1>3. Numbered'
  <2>1. setup.rotating => Renewing' \subseteq Renewing
    BY DEF Others, Renewing
  <2>2. setup.rotating => Cardinality(Renewing') <= Cardinality(Renewing)
    BY <2>1, RenewingCounts
  <2>3. Cardinality(Renewing) \in Nat /\ Cardinality(Renewing') \in Nat
    BY RenewingCounts
  <2>4. /\ setup' = setup /\ lastToken' = lastToken /\ redeemable' = redeemable
        /\ requests' = requests /\ lastToken \in Int /\ requests \in Int
    BY DEF Sound, TypeOK, serverVars
  <2> QED BY <2>2, <2>3, <2>4 DEF Sound, Numbered
<1> QED BY <1>1, <1>2, <1>3 DEF Sound

\* A use of a refresh token by reader r, answered or not.
LEMMA GrantIsSound ==
  ASSUME Sound, NEW r \in Readers, pc[r] = "fetch", ReaderTypes', Others(r), ShapeOf(r)',
         TokenToRedeem(r) \in redeemable, Grant(TokenToRedeem(r)),
         pc'[r] \in {"idle", "insert"},
         UNCHANGED <<setup, now, items, requests, failures, restarts>>, lost' \in 0..MaxFaults
  PROVE  Sound'
<1>1. /\ lastToken' \in 1..MaxToken /\ redeemable' \subseteq 1..MaxToken
      /\ setup.rotating => lastToken' = lastToken + 1 /\ redeemable' = {lastToken'}
  BY GrantDoes
<1>2. TypeOK'
  BY <1>1 DEF Sound, TypeOK, ReaderTypes
<1>3. Shape'
  BY OthersShape DEF Sound
<1>4. Numbered'
  <2>1. r \in Renewing /\ Renewing' \subseteq Renewing \ {r}
    BY DEF Others, Renewing
  <2>2. /\ Cardinality(Renewing') + 1 <= Cardinality(Renewing)
        /\ Cardinality(Renewing) \in Nat /\ Cardinality(Renewing') \in Nat
    BY <2>1, RenewingCounts
  <2>3. /\ setup' = setup /\ requests' = requests /\ lastToken \in Int /\ requests \in Int
        /\ setup.rotating => lastToken + Cardinality(Renewing) <= requests + 1
    BY DEF Sound, TypeOK, Numbered
  <2> QED BY <1>1, <2>2, <2>3 DEF Numbered
<1> QED BY <1>2, <1>3, <1>4 DEF Sound

LEMMA RequestIsSound ==
  ASSUME Sound, NEW r \in Readers, Request(r)
  PROVE  Sound'
<1>1. /\ requests \in Nat /\ requests' = requests + 1 /\ requests' \in 0..MaxRequests
      /\ UNCHANGED <<setup, now, items, serverVars, faultVars>>
  BY LookupAssumption DEF Request, Sound, TypeOK
<1>2. ReaderTypes' /\ Others(r) /\ pc[r] = "idle"
  BY RequestDoes DEF Sound
<1>3. ShapeOf(r)'
  <2>0. StoreEnabled' = StoreEnabled
    BY <1>1 DEF StoreEnabled
  <2>1. CASE /\ pc'[r] = "join" /\ cached'[r] = cached[r] /\ item'[r] = item[r]
    BY <1>2, <2>1 DEF Sound, Shape, ShapeOf, Busy, Working
  <2>2. CASE \E dates \in Seq(-1..MaxDay) :
               /\ dates # <<>> /\ Turns(r, dates)
               /\ setup.collection # "dated" => dates = <<0>>
    BY <1>1, <2>0, <2>2 DEF Turns, ShapeOf, Busy, Working
  <2> QED BY <2>1, <2>2, RequestDoes DEF Sound
<1>4. TypeOK'
  BY <1>1, <1>2 DEF Sound, TypeOK, ReaderTypes, serverVars, faultVars
<1>5. Shape'
  BY <1>1, <1>2, <1>3, OthersShape DEF Sound
<1>6. Numbered'
  <2>1. Renewing' \subseteq Renewing \union {r}
    BY <1>2 DEF Others, Renewing
  <2>2. /\ Cardinality(Renewing') <= Cardinality(Renewing) + 1
        /\ Cardinality(Renewing) \in Nat /\ Cardinality(Renewing') \in Nat
    BY <2>1, RenewingCounts
  <2>3. /\ setup' = setup /\ lastToken' = lastToken /\ redeemable' = redeemable
        /\ lastToken \in Int
        /\ setup.rotating => lastToken + Cardinality(Renewing) <= requests + 1
        /\ setup.rotating => redeemable = {lastToken}
    BY <1>1 DEF Sound, TypeOK, Numbered, serverVars
  <2> QED BY <1>1, <2>2, <2>3 DEF Numbered
<1> QED BY <1>4, <1>5, <1>6 DEF Sound

\* The steps that are no reader's.
LEMMA EnvironmentIsSound ==
  ASSUME Sound, Restart \/ Tick \/ (\E k \in Keys : StoreExpires(k)) \/ UNCHANGED vars
  PROVE  Sound'
<1>1. CASE Restart
  <2>1. /\ ReaderTypes' /\ restarts' \in 0..MaxFaults /\ items' \in [Keys -> Seq(Items)]
        /\ \A r \in Readers : pc'[r] = "idle" /\ cached'[r] = NoItem /\ item'[r] = NoItem
    BY <1>1, RestartDoes DEF Sound
  <2>2. UNCHANGED <<setup, now, serverVars, requests, failures, lost>>
    BY <1>1 DEF Restart
  <2>3. TypeOK'
    BY <2>1, <2>2 DEF Sound, TypeOK, ReaderTypes, serverVars
  <2>4. Shape'
    BY <2>1 DEF Shape, ShapeOf, Busy, Working
  <2>5. Numbered'
    <3>1. Renewing' \subseteq Renewing
      BY <2>1 DEF Renewing
    <3>2. /\ Cardinality(Renewing') <= Cardinality(Renewing)
          /\ Cardinality(Renewing) \in Nat /\ Cardinality(Renewing') \in Nat
      BY <3>1, RenewingCounts
    <3>3. lastToken \in Int /\ requests \in Int
      BY DEF Sound, TypeOK
    <3> QED BY <2>2, <3>2, <3>3 DEF Sound, Numbered, serverVars
  <2> QED BY <2>3, <2>4, <2>5 DEF Sound
<1>2. CASE Tick
  <2>1. now' \in 0..MaxNow
    BY <1>2, LookupAssumption DEF Tick, Sound, TypeOK
  <2>2. UNCHANGED <<setup, items, readerVars, serverVars, requests, faultVars>>
    BY <1>2 DEF Tick
  <2> QED BY <2>1, <2>2 DEF Sound, TypeOK, Shape, ShapeOf, Busy, StoreEnabled, Numbered,
                            Renewing, readerVars, serverVars, faultVars
<1>3. CASE \E k \in Keys : StoreExpires(k)
  <2>1. /\ UNCHANGED <<setup, now, readerVars, serverVars, requests, faultVars>>
        /\ items' \in [Keys -> Seq(Items)]
    BY <1>3, StoreExpiresDoes DEF StoreExpires, Sound
  <2> QED BY <2>1 DEF Sound, TypeOK, Shape, ShapeOf, Busy, StoreEnabled, Numbered,
                      Renewing, readerVars, serverVars, faultVars
<1>4. CASE UNCHANGED vars
  BY <1>4 DEF Sound, TypeOK, Shape, ShapeOf, Busy, StoreEnabled, Numbered,
              Renewing, vars, readerVars, serverVars, faultVars
<1> QED BY <1>1, <1>2, <1>3, <1>4

LEMMA ReadersAreSound ==
  ASSUME Sound, NEW r \in Readers, ReaderStep(r)
  PROVE  Sound'
<1>1. /\ TypeOK /\ Shape /\ ShapeOf(r) /\ items \in [Keys -> Seq(Items)]
      /\ failures \in 0..MaxFaults /\ lost \in 0..MaxFaults
      /\ setup.rotating => setup.collection = "tokens"
  BY SetupFields DEF Sound, TypeOK, Shape
<1>2. ASSUME Advances(r), Busy(r), setup' = setup
      PROVE  /\ ShapeOf(r)'
             /\ setup.rotating => pc'[r] \notin {"find", "delete", "fetch"}
  BY <1>1, <1>2, AdvancesShape DEF Ends
<1>3. CASE Find(r)
  <2> DEFINE k == KeyOf(Head(todo[r]))
  <2>1. UNCHANGED <<setup, now, serverVars, requests, faultVars>>
    BY <1>3 DEF Find
  <2>2. /\ pc[r] = "find" /\ ReaderTypes' /\ Others(r) /\ items' \in [Keys -> Seq(Items)]
        /\ \/ Advances(r)
           \/ /\ pc'[r] = "fetch" /\ todo'[r] = todo[r] /\ item'[r] = item[r]
           \/ /\ pc'[r] = "delete" /\ cached'[r] = FoundIn(k) /\ FoundIn(k) # NoItem
              /\ setup.collection \in {"files", "tokens"}
              /\ todo'[r] = todo[r] /\ item'[r] = item[r]
    BY <1>1, <1>3, FindDoes
  <2>3. ShapeOf(r)'
    BY <1>1, <1>2, <2>1, <2>2 DEF ShapeOf, Busy, Working, StoreEnabled
  <2> QED BY <1>1, <2>1, <2>2, <2>3, ReaderStepIsSound DEF faultVars
<1>4. CASE Delete(r)
  <2>1. UNCHANGED <<setup, now, serverVars, requests, faultVars>>
    BY <1>4 DEF Delete
  <2>2. /\ pc[r] = "delete" /\ pc'[r] = "fetch" /\ ReaderTypes' /\ Others(r)
        /\ todo'[r] = todo[r] /\ item'[r] = item[r] /\ items' \in [Keys -> Seq(Items)]
    BY <1>1, <1>4, DeleteDoes
  <2>3. ShapeOf(r)'
    BY <1>1, <2>1, <2>2 DEF ShapeOf, Busy, Working, StoreEnabled
  <2> QED BY <1>1, <2>1, <2>2, <2>3, ReaderStepIsSound DEF faultVars
<1>5. CASE Fetch(r)
  <2>1. UNCHANGED <<setup, now, items, serverVars, requests, lost, restarts>>
    BY <1>5 DEF Fetch
  <2>2. /\ pc[r] = "fetch" /\ ReaderTypes' /\ Others(r) /\ failures' \in 0..MaxFaults
        /\ \E ok \in BOOLEAN : IF StoreEnabled THEN Holds(r, ok, 0) ELSE Advances(r)
    BY <1>1, <1>5, FetchDoes
  <2>3. ShapeOf(r)'
    <3>1. CASE Advances(r)
      BY <1>2, <2>1, <2>2, <3>1 DEF Busy, Working
    <3>2. CASE StoreEnabled /\ \E ok \in BOOLEAN : Holds(r, ok, 0)
      BY <1>1, <2>1, <2>2, <3>2, NoItemAssumption DEF Holds, ShapeOf, Busy, Working, StoreEnabled
    <3> QED BY <2>2, <3>1, <3>2
  <2> QED BY <1>1, <2>1, <2>2, <2>3, ReaderStepIsSound
<1>6. CASE Insert(r)
  <2>1. UNCHANGED <<setup, now, serverVars, requests, faultVars>>
    BY <1>6 DEF Insert
  <2>2. /\ pc[r] = "insert" /\ ReaderTypes' /\ Others(r) /\ Advances(r)
        /\ items' \in [Keys -> Seq(Items)]
    BY <1>1, <1>6, InsertDoes
  <2>3. ShapeOf(r)' /\ (setup.rotating => pc'[r] \notin {"find", "delete", "fetch"})
    BY <1>2, <2>1, <2>2 DEF Busy, Working
  <2> QED BY <1>1, <2>1, <2>2, <2>3, ReaderStepIsSound DEF faultVars
<1>7. CASE Redeem(r)
  <2>1. UNCHANGED <<setup, now, items, requests, faultVars>>
    BY <1>7 DEF Redeem
  <2>2. /\ pc[r] = "fetch" /\ setup.collection = "tokens" /\ StoreEnabled
        /\ TokenToRedeem(r) \in redeemable /\ Grant(TokenToRedeem(r))
        /\ ReaderTypes' /\ Others(r)
        /\ Holds(r, TRUE, IF setup.rotating THEN lastToken' ELSE 0)
    BY <1>7, RedeemDoes
  <2>3. ShapeOf(r)' /\ pc'[r] = "insert"
    BY <1>1, <2>1, <2>2, NoItemAssumption DEF Holds, ShapeOf, Busy, Working, StoreEnabled
  <2> QED BY <1>1, <2>1, <2>2, <2>3, GrantIsSound DEF faultVars
<1>8. CASE RedeemRejected(r)
  <2>1. /\ UNCHANGED <<setup, now, items, serverVars, requests, faultVars>>
        /\ pc[r] = "fetch" /\ Settle(r)
    BY <1>8 DEF RedeemRejected
  <2>2. ReaderTypes' /\ Ends(r) /\ Others(r)
    BY <1>1, <2>1, TypesOfReaders, SettleDoes
  <2>3. ShapeOf(r)'
    BY <1>2, <2>1, <2>2 DEF Busy, Working, Advances
  <2> QED BY <1>1, <2>1, <2>2, <2>3, ReaderStepIsSound DEF faultVars
<1>9. CASE RedeemAnswerLost(r)
  <2>1. /\ UNCHANGED <<setup, now, items, requests, failures, restarts>>
        /\ pc[r] = "fetch" /\ Settle(r)
        /\ TokenToRedeem(r) \in redeemable /\ Grant(TokenToRedeem(r))
        /\ MoreFaults /\ lost' = lost + 1
    BY <1>9 DEF RedeemAnswerLost
  <2>2. ReaderTypes' /\ Ends(r) /\ Others(r)
    BY <1>1, <2>1, TypesOfReaders, SettleDoes
  <2>3. ShapeOf(r)' /\ pc'[r] = "idle"
    BY <1>2, <2>1, <2>2 DEF Busy, Working, Advances, Ends
  <2>4. lost' \in 0..MaxFaults
    <3>1. restarts \in 0..MaxFaults /\ MaxFaults \in Nat
      BY <1>1, LookupAssumption DEF TypeOK
    <3> QED BY <1>1, <2>1, <3>1 DEF MoreFaults
  <2> QED BY <2>1, <2>2, <2>3, <2>4, GrantIsSound
<1>10. CASE CallFails(r)
  <2>1. UNCHANGED <<setup, now, items, serverVars, requests, restarts>>
    BY <1>10 DEF CallFails
  <2>2. /\ pc[r] \in Working /\ failures' \in 0..MaxFaults /\ lost' \in 0..MaxFaults
        /\ ReaderTypes' /\ Ends(r) /\ Others(r)
    BY <1>1, <1>10, CallFailsDoes
  <2>3. ShapeOf(r)' /\ pc'[r] = "idle"
    BY <1>2, <2>1, <2>2 DEF Busy, Advances, Ends
  <2> QED BY <1>1, <2>1, <2>2, <2>3, ReaderStepIsSound
<1> QED BY <1>3, <1>4, <1>5, <1>6, <1>7, <1>8, <1>9, <1>10 DEF ReaderStep

LEMMA SoundInit == Init => Sound
<1> SUFFICES ASSUME Init PROVE Sound
  OBVIOUS
<1>1. TypeOK
  <2>1. <<>> \in Seq(Items) /\ <<>> \in Seq(-1..MaxDay)
    OBVIOUS
  <2>2. /\ MaxNow \in Nat /\ MaxRequests \in Nat /\ MaxFaults \in Nat
        /\ ConfiguredToken \in 1..MaxToken
    BY LookupAssumption DEF ConfiguredToken, MaxToken
  <2> QED BY <2>1, <2>2 DEF Init, TypeOK
<1>2. Shape
  BY DEF Init, Shape, ShapeOf, Busy, Working
<1>3. Numbered
  <2>1. Renewing = {}
    BY DEF Init, Renewing
  <2>2. Cardinality(Renewing) = 0
    BY <2>1, FS_EmptySet
  <2> QED BY <2>2 DEF Init, Numbered, ConfiguredToken
<1> QED BY <1>1, <1>2, <1>3 DEF Sound

LEMMA SoundNext == Sound /\ [Next]_vars => Sound'
<1> SUFFICES ASSUME Sound, [Next]_vars PROVE Sound'
  OBVIOUS
<1>1. CASE \E r \in Readers : Request(r)
  BY <1>1, RequestIsSound
<1>2. CASE \E r \in Readers : ReaderStep(r)
  BY <1>2, ReadersAreSound
<1>3. CASE Restart \/ Tick \/ (\E k \in Keys : StoreExpires(k)) \/ UNCHANGED vars
  BY <1>3, EnvironmentIsSound
<1> QED BY <1>1, <1>2, <1>3 DEF Next

\* The cache, its readers and the token server keep their data in the shapes
\* findOrInsertOneInternal and the stores give it, however many readers overlap.
THEOREM CacheTypeCorrect == Spec => []TypeOK
<1>1. Spec => []Sound
  BY SoundInit, SoundNext, PTL DEF Spec
<1>2. Sound => TypeOK
  BY DEF Sound
<1> QED BY <1>1, <1>2, PTL

-----------------------------------------------------------------------------
(* One query per repository list.                                          *)

\* The query on record is the busy reader's, and the store is empty while it
\* fetches: that it still is when the answer is inserted follows from there
\* being one.
SharedQuery ==
    setup.collection = "repos" =>
        /\ \A r \in Readers : Busy(r) => vcsQueries = r
        /\ vcsQueries # NoReader => Busy(vcsQueries)
        /\ \A r \in Readers : pc[r] \in {"fetch", "insert"} => items[0] = <<>>
        /\ ~StoreEnabled => items[0] = <<>>
        /\ Len(items[0]) <= 1

LEMMA SharedQuerySettles ==
  ASSUME SharedQuery, setup.collection = "repos",
         NEW r \in Readers, Busy(r), Ends(r), Others(r)
  PROVE  vcsQueries' = NoReader /\ \A s \in Readers : ~Busy(s)'
<1>1. vcsQueries = r /\ \A s \in Readers : Busy(s) => s = r
  BY DEF SharedQuery
<1>2. vcsQueries' = NoReader
  BY <1>1 DEF Ends
<1>3. ASSUME NEW s \in Readers PROVE ~Busy(s)'
  BY <1>1 DEF Ends, Others, Busy, Working
<1> QED BY <1>2, <1>3

LEMMA SharedQueryReader ==
  ASSUME Sound, SharedQuery, setup.collection = "repos", NEW r \in Readers, ReaderStep(r)
  PROVE  SharedQuery'
<1>1. /\ TypeOK /\ Shape /\ ShapeOf(r) /\ 0 \in Keys /\ items \in [Keys -> Seq(Items)]
      /\ Len(items[0]) <= 1 /\ (~StoreEnabled => items[0] = <<>>)
      /\ \A d : KeyOf(d) = 0
  <2>1. 0 \in -1..MaxDay /\ KeyOf(0) = 0
    BY Days DEF KeyOf
  <2> QED BY <2>1, KeysOfDates DEF Sound, TypeOK, Shape, SharedQuery, KeyOf
<1>2. setup' = setup /\ StoreEnabled' = StoreEnabled
  BY DEF ReaderStep, Find, Delete, Fetch, Insert, Redeem, RedeemRejected,
         RedeemAnswerLost, CallFails, StoreEnabled
<1>3. ASSUME Busy(r), Others(r), Advances(r), Len(items'[0]) <= 1,
             ~StoreEnabled => items'[0] = <<>>
      PROVE  SharedQuery'
  <2>1. Ends(r)
    BY <1>1, <1>2, <1>3, AdvancesShape
  <2>2. vcsQueries' = NoReader /\ \A s \in Readers : ~Busy(s)'
    BY <1>3, <2>1, SharedQuerySettles
  <2> QED BY <1>2, <1>3, <2>2 DEF SharedQuery, Busy, Working
<1>4. ASSUME Busy(r), Others(r), Busy(r)', vcsQueries' = vcsQueries, items'[0] = <<>>
      PROVE  SharedQuery'
  <2>1. vcsQueries = r /\ \A s \in Readers : Busy(s) => s = r
    BY <1>4 DEF SharedQuery
  <2>2. \A s \in Readers : Busy(s)' => s = r
    BY <1>4, <2>1 DEF Others, Busy, Working
  <2>3. Len(<<>>) <= 1
    OBVIOUS
  <2> QED BY <1>2, <1>4, <2>1, <2>2, <2>3 DEF SharedQuery
<1>5. CASE Find(r)
  <2> DEFINE k == KeyOf(Head(todo[r]))
  <2>1. /\ pc[r] = "find" /\ Others(r) /\ k = 0
        /\ items'[0] = AfterFind(0)
        /\ \/ Valid(FoundIn(0)) /\ Advances(r)
           \/ FoundIn(0) = NoItem /\ pc'[r] = "fetch" /\ vcsQueries' = vcsQueries
    <3>1. k = 0
      BY <1>1
    <3> HIDE DEF k
    <3>2. /\ pc[r] = "find" /\ Others(r)
          /\ items' = [items EXCEPT ![k] = AfterFind(k)]
          /\ \/ Valid(FoundIn(k)) /\ Advances(r)
             \/ FoundIn(k) = NoItem /\ pc'[r] = "fetch" /\ vcsQueries' = vcsQueries
             \/ setup.collection \in {"files", "tokens"}
      BY <1>1, <1>5, FindDoes DEF k
    <3> QED BY <1>1, <3>1, <3>2
  <2>2. Busy(r)
    BY <2>1 DEF Busy, Working
  <2>3. CASE Valid(FoundIn(0)) /\ Advances(r)
    <3>1. FoundIn(0) # NoItem
      BY <2>3 DEF Valid
    <3>2. items'[0] = items[0]
      BY <1>1, <2>1, <3>1, StoreTypes
    <3> QED BY <1>1, <1>3, <2>1, <2>2, <2>3, <3>2
  <2>4. CASE FoundIn(0) = NoItem /\ pc'[r] = "fetch" /\ vcsQueries' = vcsQueries
    <3>1. items'[0] = <<>>
      <4>1. \/ AfterFind(0) = <<>>
            \/ items[0] # <<>> /\ AfterFind(0) = Tail(items[0])
        BY <1>1, <2>4, StoreTypes
      <4>2. items[0] # <<>> => Tail(items[0]) = <<>>
        <5>1. items[0] \in Seq(Items)
          BY <1>1
        <5>2. ASSUME items[0] # <<>>
              PROVE  Tail(items[0]) \in Seq(Items) /\ Len(Tail(items[0])) = 0
          <6>1. /\ Len(items[0]) \in Nat \ {0} /\ Tail(items[0]) \in Seq(Items)
                /\ Len(Tail(items[0])) = Len(items[0]) - 1
            BY <5>1, <5>2, HeadAndTail
          <6>2. \A n \in Nat \ {0} : n <= 1 => n - 1 = 0
            OBVIOUS
          <6> QED BY <1>1, <6>1, <6>2, Zenon
        <5>3. \A s \in Seq(Items) : Len(s) = 0 => s = <<>>
          BY EmptySeq
        <5> QED BY <5>2, <5>3, Zenon
      <4> QED BY <2>1, <4>1, <4>2
    <3>2. Busy(r)'
      BY <2>4 DEF Busy, Working
    <3> QED BY <1>4, <2>1, <2>2, <2>4, <3>1, <3>2
  <2> QED BY <2>1, <2>3, <2>4
<1>6. CASE Delete(r)
  BY <1>1, <1>6 DEF Delete, ShapeOf
<1>7. CASE Fetch(r)
  <2>1. /\ pc[r] = "fetch" /\ Others(r) /\ items' = items
        /\ \E ok \in BOOLEAN : IF StoreEnabled THEN Holds(r, ok, 0) ELSE Advances(r)
    BY <1>1, <1>7, FetchDoes DEF Fetch
  <2>2. Busy(r) /\ items[0] = <<>>
    BY <2>1 DEF Busy, Working, SharedQuery
  <2>3. CASE Advances(r)
    BY <1>1, <1>3, <2>1, <2>2, <2>3
  <2>4. CASE \E ok \in BOOLEAN : Holds(r, ok, 0)
    BY <1>4, <2>1, <2>2, <2>4 DEF Holds, Busy, Working
  <2> QED BY <2>1, <2>3, <2>4
<1>8. CASE Insert(r)
  <2> DEFINE k == KeyOf(Head(todo[r]))
  <2>1. /\ pc[r] = "insert" /\ Others(r) /\ Advances(r) /\ item[r] \in Items /\ k = 0
        /\ items'[0] = AfterInsert(0, item[r])
    <3>1. k = 0
      BY <1>1
    <3> HIDE DEF k
    <3>2. /\ pc[r] = "insert" /\ Others(r) /\ Advances(r) /\ item[r] \in Items
          /\ items' = [items EXCEPT ![k] = AfterInsert(k, item[r])]
      BY <1>1, <1>8, InsertDoes DEF k
    <3> QED BY <1>1, <3>1, <3>2
  <2>2. Busy(r) /\ items[0] = <<>> /\ StoreEnabled
    BY <1>1, <2>1 DEF Busy, Working, SharedQuery, ShapeOf
  <2>3. items'[0] = <<Stored(item[r])>>
    <3>1. AfterInsert(0, item[r]) = IF Appends THEN Append(items[0], Stored(item[r]))
                                               ELSE <<Stored(item[r])>>
      BY <1>1, <2>1, StoredTypes
    <3>2. Append(<<>>, Stored(item[r])) = <<Stored(item[r])>>
      OBVIOUS
    <3> QED BY <2>1, <2>2, <3>1, <3>2, Zenon
  <2>4. Len(items'[0]) <= 1
    <3>1. Len(<<Stored(item[r])>>) = 1 /\ 1 <= 1
      OBVIOUS
    <3> QED BY <2>3, <3>1, Zenon
  <2> QED BY <1>3, <2>1, <2>2, <2>4
<1>9. CASE Redeem(r) \/ RedeemRejected(r) \/ RedeemAnswerLost(r)
  BY <1>9 DEF Redeem, RedeemRejected, RedeemAnswerLost
<1>10. CASE CallFails(r)
  <2>1. pc[r] \in Working /\ Ends(r) /\ Others(r) /\ items' = items
    BY <1>1, <1>10, CallFailsDoes DEF CallFails
  <2> QED BY <1>1, <1>3, <2>1 DEF Busy, Advances
<1> QED BY <1>5, <1>6, <1>7, <1>8, <1>9, <1>10 DEF ReaderStep

LEMMA SharedQueryNext == Sound /\ SharedQuery /\ [Next]_vars => SharedQuery'
<1> SUFFICES ASSUME Sound, SharedQuery, [Next]_vars, setup.collection = "repos"
             PROVE  SharedQuery'
  <2>1. [Next]_vars => setup' = setup
    BY DEF Next, Request, ReaderStep, Find, Delete, Fetch, Insert, Redeem, RedeemRejected,
           RedeemAnswerLost, CallFails, StoreExpires, Restart, Tick, vars
  <2> QED BY <2>1 DEF SharedQuery
<1>1. TypeOK /\ Shape /\ 0 \in Keys /\ items \in [Keys -> Seq(Items)]
  <2>1. 0 \in -1..MaxDay /\ KeyOf(0) = 0
    BY Days DEF KeyOf
  <2> QED BY <2>1, KeysOfDates DEF Sound, TypeOK
<1>2. CASE \E r \in Readers : Request(r)
  <2>1. PICK r \in Readers : Request(r)
    BY <1>2
  <2>2. UNCHANGED <<setup, items>> /\ StoreEnabled' = StoreEnabled
    BY <2>1 DEF Request, StoreEnabled
  <2>3. /\ Others(r) /\ pc[r] = "idle"
        /\ \/ vcsQueries # NoReader /\ vcsQueries' = vcsQueries /\ pc'[r] = "join"
           \/ /\ vcsQueries = NoReader /\ vcsQueries' = r
              /\ pc'[r] = IF StoreEnabled THEN "find" ELSE "fetch"
    BY <1>1, <2>1, RequestDoes DEF Turns
  <2>4. ~Busy(r) /\ \A s \in Readers \ {r} : Busy(s)' <=> Busy(s)
    BY <2>3 DEF Others, Busy, Working
  <2>5. \A s \in Readers \ {r} : pc'[s] \in {"fetch", "insert"} => pc[s] \in {"fetch", "insert"}
    BY <2>3 DEF Others
  <2>6. CASE vcsQueries # NoReader /\ vcsQueries' = vcsQueries /\ pc'[r] = "join"
    <3>1. ~Busy(r)' /\ vcsQueries \in Readers \ {r}
      BY <1>1, <2>4, <2>6 DEF TypeOK, SharedQuery, Busy, Working
    <3> QED BY <2>2, <2>4, <2>5, <2>6, <3>1 DEF SharedQuery
  <2>7. CASE /\ vcsQueries = NoReader /\ vcsQueries' = r
             /\ pc'[r] = IF StoreEnabled THEN "find" ELSE "fetch"
    <3>1. Busy(r)' /\ \A s \in Readers : ~Busy(s)
      BY <2>7, LookupAssumption DEF SharedQuery, Busy, Working
    <3> QED BY <2>2, <2>4, <2>5, <2>7, <3>1 DEF SharedQuery
  <2> QED BY <2>3, <2>6, <2>7
<1>3. CASE \E r \in Readers : ReaderStep(r)
  BY <1>3, SharedQueryReader
<1>4. CASE \E k \in Keys : StoreExpires(k)
  <2>1. PICK k \in Keys : StoreExpires(k)
    BY <1>4
  <2>2. UNCHANGED <<setup, pc, vcsQueries>> /\ StoreEnabled' = StoreEnabled
    BY <2>1 DEF StoreExpires, StoreEnabled, readerVars
  <2>3. PICK j \in 1..Len(items[k]) : items' = [items EXCEPT ![k] = RemoveAt(items[k], j)]
    BY <1>1, <2>1, StoreExpiresDoes
  <2>4. /\ items[0] = <<>> => items'[0] = <<>>
        /\ Len(items'[0]) <= 1
    <3>1. CASE k = 0
      <4>1. items[0] \in Seq(Items) /\ j \in 1..Len(items[0])
        BY <1>1, <2>3, <3>1
      <4>2. Len(RemoveAt(items[0], j)) = Len(items[0]) - 1
        BY <4>1, RemoveAtEffect
      <4>3. items'[0] = RemoveAt(items[0], j)
        BY <1>1, <2>3, <3>1
      <4>4. Len(items[0]) <= 1 /\ Len(items[0]) \in Nat
        BY <4>1 DEF SharedQuery
      <4>5. items[0] # <<>>
        BY <4>1
      <4> QED BY <4>2, <4>3, <4>4, <4>5
    <3>2. CASE k # 0
      BY <1>1, <2>3, <3>2 DEF SharedQuery
    <3> QED BY <3>1, <3>2
  <2> QED BY <2>2, <2>4 DEF SharedQuery, Busy
<1>5. CASE Restart
  <2>1. /\ vcsQueries' = NoReader /\ \A r \in Readers : pc'[r] = "idle"
        /\ items'[0] = items[0] \/ items'[0] = <<>>
    BY <1>1, <1>5, RestartDoes
  <2>2. setup' = setup /\ StoreEnabled' = StoreEnabled
    BY <1>5 DEF Restart, StoreEnabled
  <2>3. Len(<<>>) <= 1
    OBVIOUS
  <2> QED BY <2>1, <2>2, <2>3 DEF SharedQuery, Busy, Working
<1>6. CASE Tick \/ UNCHANGED vars
  BY <1>6 DEF Tick, vars, readerVars, SharedQuery, Busy, StoreEnabled
<1> QED BY <1>2, <1>3, <1>4, <1>5, <1>6 DEF Next

\* readThroughCacheSingleton: readers of a repository list wait for the one
\* query on record, and its answer is stored once.
THEOREM RepositoryListQueriedOnce == Spec => []OneSharedQuery
<1>1. Init => SharedQuery
  <2>1. Len(<<>>) <= 1 /\ 0 \in -1..MaxDay
    BY Days
  <2>2. Init => 0 \in Keys \/ setup.collection # "repos"
    <3> SUFFICES ASSUME Init, setup.collection = "repos" PROVE 0 \in Keys
      OBVIOUS
    <3>1. setup \in Setups /\ KeyOf(0) = 0
      BY DEF Init, KeyOf
    <3> QED BY <2>1, <3>1, KeysOfDates
  <2> QED BY <2>1, <2>2 DEF Init, SharedQuery, Busy, Working
<1>2. Spec => [](Sound /\ SharedQuery)
  BY <1>1, SoundInit, SoundNext, SharedQueryNext, PTL DEF Spec
<1>3. Sound /\ SharedQuery => OneSharedQuery
  <2> SUFFICES ASSUME Sound, SharedQuery, setup.collection = "repos" PROVE OneSharedQuery
    BY DEF OneSharedQuery
  <2>1. \A r \in Readers : pc[r] \notin {"idle", "join"} => Busy(r)
    BY DEF Sound, TypeOK, Busy, Working
  <2> QED BY <2>1 DEF SharedQuery, OneSharedQuery, Busy, Working
<1> QED BY <1>2, <1>3, PTL

-----------------------------------------------------------------------------
(* Days kept for ever.                                                     *)

\* At t, no event of a date with key k can follow any more.
IsOver(k, t) == \A date \in -1..MaxDay : KeyOf(date) = k => t >= (date + 1) * DayLength

\* The ttl is chosen before the lookup and used after the fetch: that a reader
\* without ttl works on a day that was over when its call began links the two.
DayOfReader(r) ==
    Busy(r) =>
        /\ \A i \in 1..Len(todo[r]) : Past(todo[r][i])
        /\ ttl[r] = DO_NOT_EXPIRE => IsOver(KeyOf(Head(todo[r])), now)
        /\ pc[r] = "insert" /\ item[r].expireAt = DO_NOT_EXPIRE
              => IsOver(KeyOf(Head(todo[r])), item[r].asOf)
DaysOfStore ==
    \A k \in Keys : \A i \in 1..Len(items[k]) :
        items[k][i].expireAt = DO_NOT_EXPIRE => IsOver(k, items[k][i].asOf)
DaysKept ==
    setup.collection = "dated" /\ setup.offset <= 0 =>
        DaysOfStore /\ \A r \in Readers : DayOfReader(r)

\* A day without ttl is not today and, west of UTC or at UTC, not tomorrow.
LEMMA DayWithoutTtl ==
  ASSUME TypeOK, setup.collection = "dated", setup.offset <= 0,
         NEW d \in -1..MaxDay, Past(d), TtlFor(d) = DO_NOT_EXPIRE
  PROVE  IsOver(KeyOf(d), now)
<1>1. /\ setup \in Setups /\ now \in Int /\ DayLength \in Nat \ {0} /\ MaxDay \in Nat
      /\ ItemTtl # DO_NOT_EXPIRE /\ setup.offset \in Int
  BY Days, SetupFields, LookupAssumption DEF TypeOK, DO_NOT_EXPIRE
<1> SUFFICES ASSUME NEW date \in -1..MaxDay, KeyOf(date) = KeyOf(d)
             PROVE  now >= (date + 1) * DayLength
  BY DEF IsOver
<1>2. date = d
  <2>1. /\ LocalDate(date * DayLength) = IF setup.offset < 0 THEN date - 1 ELSE date
        /\ LocalDate(d * DayLength) = IF setup.offset < 0 THEN d - 1 ELSE d
        /\ LocalDate(date * DayLength) = LocalDate(d * DayLength)
    <3>1. date \in Int /\ d \in Int
      BY <1>1
    <3> QED BY <1>1, <3>1, LocalDates DEF KeyOf
  <2>2. date \in Int /\ d \in Int
    BY <1>1
  <2> QED BY <1>1, <2>1, <2>2
<1>3. CASE setup.offset < 0
  <2>1. (d + 1) * DayLength <= now /\ (d + 1) * DayLength \in Int
    <3>1. d \in Int /\ (d + 1) * DayLength \in Int
      BY <1>1
    <3> QED BY <1>3, <3>1 DEF Past
  <2> QED BY <1>1, <1>2, <2>1
<1>4. CASE setup.offset = 0
  <2>1. /\ d \in Int /\ d * DayLength <= now
        /\ LocalDate(now) = now \div DayLength /\ LocalDate(d * DayLength) = d
    <3>1. d \in Int
      BY <1>1
    <3>2. LocalDate(d * DayLength) = d
      BY <1>1, <1>4, <3>1, LocalDates
    <3>3. now + setup.offset = now
      BY <1>1, <1>4
    <3> QED BY <1>1, <1>4, <3>1, <3>2, <3>3 DEF Past, LocalDate
  <2>2. d # now \div DayLength
    BY <1>1, <2>1 DEF TtlFor, IsToday
  <2>3. ~(now < (d + 1) * DayLength)
    BY <1>1, <2>1, <2>2, DivUnique
  <2>4. (d + 1) * DayLength \in Int
    BY <1>1, <2>1
  <2> QED BY <1>1, <1>2, <2>3, <2>4
<1> QED BY <1>1, <1>3, <1>4

\* The next call of a reader begins with a day of which all this holds.
LEMMA DayBegins ==
  ASSUME TypeOK, setup.collection = "dated", setup.offset <= 0, NEW r \in Readers,
         NEW dates \in Seq(-1..MaxDay), dates # <<>>, Turns(r, dates),
         \A i \in 1..Len(dates) : Past(dates[i]),
         UNCHANGED <<setup, now>>
  PROVE  DayOfReader(r)'
<1>1. /\ Head(dates) \in -1..MaxDay /\ Head(dates) = dates[1] /\ Len(dates) \in Nat \ {0}
  BY HeadAndTail
<1>2. Past(Head(dates))
  <2>1. 1 \in 1..Len(dates)
    BY <1>1
  <2> QED BY <1>1, <2>1
<1>3. TtlFor(Head(dates)) = DO_NOT_EXPIRE => IsOver(KeyOf(Head(dates)), now)
  BY <1>1, <1>2, DayWithoutTtl
<1>4. /\ todo'[r] = dates /\ ttl'[r] = TtlFor(Head(dates)) /\ pc'[r] # "insert"
  BY DEF Turns
<1> QED BY <1>3, <1>4 DEF DayOfReader, Past, IsOver, KeyOf, LocalDate

LEMMA DayAdvances ==
  ASSUME TypeOK, setup.collection = "dated", setup.offset <= 0, NEW r \in Readers,
         DayOfReader(r), Busy(r), Advances(r), UNCHANGED <<setup, now>>
  PROVE  DayOfReader(r)'
<1>1. CASE Ends(r)
  BY <1>1 DEF Ends, DayOfReader, Busy, Working
<1>2. CASE /\ Len(todo[r]) > 1 /\ Tail(todo[r]) \in Seq(-1..MaxDay)
           /\ Tail(todo[r]) # <<>> /\ Turns(r, Tail(todo[r]))
  <2>1. \A i \in 1..Len(Tail(todo[r])) : Past(Tail(todo[r])[i])
    <3>1. todo[r] \in Seq(-1..MaxDay) /\ todo[r] # <<>>
      BY <1>2, EmptySeq DEF TypeOK
    <3>2. /\ Len(todo[r]) \in Nat \ {0} /\ Len(Tail(todo[r])) = Len(todo[r]) - 1
          /\ \A i \in 1..(Len(todo[r]) - 1) : Tail(todo[r])[i] = todo[r][i + 1]
      BY <3>1, HeadAndTail
    <3>3. \A i \in 1..(Len(todo[r]) - 1) : i + 1 \in 1..Len(todo[r])
      BY <3>2
    <3>4. \A i \in 1..Len(todo[r]) : Past(todo[r][i])
      BY DEF DayOfReader
    <3> QED BY <3>2, <3>3, <3>4, Zenon
  <2> QED BY <1>2, <2>1, DayBegins
<1> QED BY <1>1, <1>2 DEF Advances

LEMMA DayOfOthers ==
  ASSUME NEW r \in Readers, NEW s \in Readers, s # r, Others(r), DayOfReader(s),
         UNCHANGED <<setup, now>>
  PROVE  DayOfReader(s)'
<1>1. /\ Busy(s)' => Busy(s) /\ pc'[s] = pc[s]
      /\ todo'[s] = todo[s] /\ ttl'[s] = ttl[s] /\ item'[s] = item[s]
  BY DEF Others, Busy, Working
<1> QED BY <1>1 DEF DayOfReader, Past, IsOver, KeyOf, LocalDate

\* Removing items breaks no day.
LEMMA DaysOfFewer ==
  ASSUME DaysOfStore, setup' = setup,
         \A k \in Keys : \A i \in 1..Len(items'[k]) :
            \E h \in 1..Len(items[k]) : items'[k][i] = items[k][h]
  PROVE  DaysOfStore'
<1> SUFFICES ASSUME NEW k \in Keys, NEW i \in 1..Len(items'[k]),
                    items'[k][i].expireAt = DO_NOT_EXPIRE
             PROVE  IsOver(k, items'[k][i].asOf)
  BY DEF DaysOfStore, IsOver, KeyOf, LocalDate
<1>1. PICK h \in 1..Len(items[k]) : items'[k][i] = items[k][h]
  OBVIOUS
<1>2. IsOver(k, items[k][h].asOf)
  BY <1>1 DEF DaysOfStore
<1> QED BY <1>1, <1>2

LEMMA DaysReader ==
  ASSUME Sound, setup.collection = "dated", setup.offset <= 0, DaysOfStore,
         \A s \in Readers : DayOfReader(s),
         NEW r \in Readers, ReaderStep(r)
  PROVE  DaysOfStore' /\ DayOfReader(r)' /\ Others(r) /\ UNCHANGED <<setup, now>>
<1>1. /\ TypeOK /\ Shape /\ ShapeOf(r) /\ DayOfReader(r) /\ items \in [Keys -> Seq(Items)]
  BY DEF Sound, TypeOK, Shape
<1>2. UNCHANGED <<setup, now>>
  BY DEF ReaderStep, Find, Delete, Fetch, Insert, Redeem, RedeemRejected,
         RedeemAnswerLost, CallFails
<1>3. items' = items => DaysOfStore'
  <2>1. items' = items => \A k \in Keys : \A i \in 1..Len(items'[k]) :
                            \E h \in 1..Len(items[k]) : items'[k][i] = items[k][h]
    OBVIOUS
  <2> QED BY <1>2, <2>1, DaysOfFewer
<1>4. CASE Find(r)
  <2> DEFINE k == KeyOf(Head(todo[r]))
  <2>1. /\ pc[r] = "find" /\ Others(r) /\ k \in Keys
        /\ items' = [items EXCEPT ![k] = AfterFind(k)]
        /\ \/ Advances(r)
           \/ pc'[r] = "fetch" /\ todo'[r] = todo[r] /\ ttl'[r] = ttl[r]
           \/ setup.collection \in {"files", "tokens"}
    BY <1>1, <1>4, FindDoes
  <2> HIDE DEF k
  <2>2. \A j \in Keys : \A i \in 1..Len(items'[j]) :
           \E h \in 1..Len(items[j]) : items'[j][i] = items[j][h]
    <3>1. \/ AfterFind(k) = items[k] \/ AfterFind(k) = <<>>
          \/ items[k] # <<>> /\ AfterFind(k) = Tail(items[k])
      BY <1>1, <2>1, StoreTypes
    <3>2. \A i \in 1..Len(AfterFind(k)) : \E h \in 1..Len(items[k]) :
             AfterFind(k)[i] = items[k][h]
      <4>1. CASE AfterFind(k) = items[k]
        BY <4>1
      <4>2. CASE AfterFind(k) = <<>>
        <5>1. \A i : i \notin 1..Len(<<>>)
          OBVIOUS
        <5> QED BY <4>2, <5>1, Zenon
      <4>3. CASE items[k] # <<>> /\ AfterFind(k) = Tail(items[k])
        <5>1. items[k] \in Seq(Items) /\ items[k] # <<>>
          BY <1>1, <2>1, <4>3
        <5>2. /\ Len(items[k]) \in Nat \ {0} /\ Len(Tail(items[k])) = Len(items[k]) - 1
              /\ \A i \in 1..(Len(items[k]) - 1) : Tail(items[k])[i] = items[k][i + 1]
          BY <5>1, HeadAndTail
        <5>3. \A i \in 1..(Len(items[k]) - 1) : i + 1 \in 1..Len(items[k])
          BY <5>2
        <5> QED BY <4>3, <5>2, <5>3, Zenon
      <4> QED BY <3>1, <4>1, <4>2, <4>3
    <3> QED BY <1>1, <2>1, <3>2
  <2>3. Busy(r) /\ pc'[r] = "fetch" => Busy(r)'
    BY <2>1 DEF Busy, Working
  <2>4. CASE Advances(r)
    BY <1>1, <1>2, <2>1, <2>2, <2>4, DaysOfFewer, DayAdvances DEF Busy, Working
  <2>5. CASE pc'[r] = "fetch" /\ todo'[r] = todo[r] /\ ttl'[r] = ttl[r]
    <3>1. DayOfReader(r)'
      BY <1>1, <1>2, <2>1, <2>5
         DEF DayOfReader, Busy, Working, Past, IsOver, KeyOf, LocalDate
    <3> QED BY <1>2, <2>1, <2>2, <3>1, DaysOfFewer
  <2> QED BY <2>1, <2>4, <2>5
<1>5. CASE Delete(r)
  BY <1>1, <1>5 DEF Delete, ShapeOf
<1>6. CASE Fetch(r)
  <2>1. /\ pc[r] = "fetch" /\ todo[r] # <<>> /\ Others(r) /\ items' = items
        /\ \E ok \in BOOLEAN : IF StoreEnabled THEN Holds(r, ok, 0) ELSE Advances(r)
    BY <1>1, <1>6, FetchDoes DEF Fetch
  <2>2. Busy(r)
    BY <2>1 DEF Busy, Working
  <2>3. CASE Advances(r)
    BY <1>1, <1>2, <1>3, <2>1, <2>2, <2>3, DayAdvances
  <2>4. CASE \E ok \in BOOLEAN : Holds(r, ok, 0)
    <3>1. /\ todo'[r] = todo[r] /\ item'[r].asOf = now
          /\ item'[r].expireAt = DO_NOT_EXPIRE => ttl[r] = DO_NOT_EXPIRE
      BY <2>4 DEF Holds
    <3>2. ttl'[r] = ttl[r]
      <4>1. ASSUME NEW ok \in BOOLEAN, NEW t \in 0..MaxToken, Populated(r, ok, t), StoreEnabled
            PROVE  ttl' = ttl
        BY <4>1 DEF Populated
      <4>2. StoreEnabled
        <5>1. pc'[r] = "insert"
          BY <2>4 DEF Holds
        <5>2. Advances(r) => pc'[r] # "insert"
          BY DEF Advances, Turns, Ends
        <5> QED BY <2>1, <5>1, <5>2
      <4>3. ttl' = ttl
        BY <1>6, <4>2 DEF Fetch, Populated
      <4> QED BY <4>3
    <3>3. DayOfReader(r)'
      BY <1>1, <1>2, <2>2, <3>1, <3>2
         DEF DayOfReader, Past, IsOver, KeyOf, LocalDate
    <3> QED BY <1>2, <1>3, <2>1, <3>3
  <2> QED BY <2>1, <2>3, <2>4
<1>7. CASE Insert(r)
  <2> DEFINE k == KeyOf(Head(todo[r]))
  <2>1. /\ pc[r] = "insert" /\ Others(r) /\ Advances(r) /\ k \in Keys /\ item[r] \in Items
        /\ items' = [items EXCEPT ![k] = AfterInsert(k, item[r])]
    BY <1>1, <1>7, InsertDoes
  <2>2. item[r].expireAt = DO_NOT_EXPIRE => IsOver(k, item[r].asOf)
    BY <1>1, <2>1 DEF DayOfReader, Busy, Working
  <2> HIDE DEF k
  <2> DEFINE i == Stored(item[r])
  <2>3. /\ i.expireAt = DO_NOT_EXPIRE => IsOver(k, i.asOf)
        /\ AfterInsert(k, item[r]) = IF Appends THEN Append(items[k], i) ELSE <<i>>
    BY <1>1, <2>1, <2>2, StoredTypes
  <2> HIDE DEF i
  <2>4. \A j \in Keys : \A h \in 1..Len(items'[j]) :
           \/ \E g \in 1..Len(items[j]) : items'[j][h] = items[j][g]
           \/ j = k /\ items'[j][h] = i
    BY <1>1, <2>1, <2>3
  <2>5. DaysOfStore'
    <3> SUFFICES ASSUME NEW j \in Keys, NEW h \in 1..Len(items'[j]),
                        items'[j][h].expireAt = DO_NOT_EXPIRE
                 PROVE  IsOver(j, items'[j][h].asOf)
      BY <1>2 DEF DaysOfStore, IsOver, KeyOf, LocalDate
    <3> QED BY <2>3, <2>4 DEF DaysOfStore
  <2> QED BY <1>1, <1>2, <2>1, <2>5, DayAdvances DEF Busy, Working
<1>8. CASE Redeem(r) \/ RedeemRejected(r) \/ RedeemAnswerLost(r)
  BY <1>8 DEF Redeem, RedeemRejected, RedeemAnswerLost
<1>9. CASE CallFails(r)
  <2>1. pc[r] \in Working /\ Ends(r) /\ Others(r) /\ items' = items
    BY <1>1, <1>9, CallFailsDoes DEF CallFails
  <2>2. DayOfReader(r)'
    BY <2>1 DEF DayOfReader, Ends, Busy, Working
  <2> QED BY <1>2, <1>3, <2>1, <2>2
<1> QED BY <1>4, <1>5, <1>6, <1>7, <1>8, <1>9 DEF ReaderStep

LEMMA DaysKeptNext == Sound /\ DaysKept /\ [Next]_vars => DaysKept'
<1> SUFFICES ASSUME Sound, DaysKept, [Next]_vars,
                    setup.collection = "dated", setup.offset <= 0
             PROVE  DaysKept'
  <2>1. [Next]_vars => setup' = setup
    BY DEF Next, Request, ReaderStep, Find, Delete, Fetch, Insert, Redeem, RedeemRejected,
           RedeemAnswerLost, CallFails, StoreExpires, Restart, Tick, vars
  <2> QED BY <2>1 DEF DaysKept
<1>1. /\ TypeOK /\ Shape /\ DaysOfStore /\ \A r \in Readers : DayOfReader(r)
      /\ items \in [Keys -> Seq(Items)]
  BY DEF Sound, TypeOK, DaysKept
<1>2. ASSUME NEW r \in Readers, Others(r), DaysOfStore', DayOfReader(r)', UNCHANGED <<setup, now>>
      PROVE  DaysKept'
  BY <1>1, <1>2, DayOfOthers DEF DaysKept
<1>3. ASSUME items' = items, setup' = setup PROVE DaysOfStore'
  BY <1>1, <1>3, DaysOfFewer
<1>4. CASE \E r \in Readers : Request(r)
  <2>1. PICK r \in Readers : Request(r)
    BY <1>4
  <2>2. UNCHANGED <<setup, now, items>>
    BY <2>1 DEF Request
  <2>3. Others(r)
    BY <1>1, <2>1, RequestDoes
  <2>4. PICK dates \in Seq(-1..MaxDay) :
           /\ dates # <<>> /\ Turns(r, dates)
           /\ \A i \in 1..Len(dates) : Past(dates[i])
    BY <1>1, <2>1, RequestDoes
  <2>5. DayOfReader(r)'
    BY <1>1, <2>2, <2>4, DayBegins
  <2> QED BY <1>2, <1>3, <2>2, <2>3, <2>5
<1>5. CASE \E r \in Readers : ReaderStep(r)
  BY <1>1, <1>2, <1>5, DaysReader
<1>6. CASE \E k \in Keys : StoreExpires(k)
  <2>1. PICK k \in Keys : StoreExpires(k)
    BY <1>6
  <2>2. UNCHANGED <<setup, now, pc, todo, ttl, item>>
    BY <2>1 DEF StoreExpires, readerVars
  <2>3. PICK j \in 1..Len(items[k]) : items' = [items EXCEPT ![k] = RemoveAt(items[k], j)]
    BY <1>1, <2>1, StoreExpiresDoes
  <2>4. items[k] \in Seq(Items)
    BY <1>1
  <2>5. \A i \in 1..Len(RemoveAt(items[k], j)) :
           \E h \in 1..Len(items[k]) : RemoveAt(items[k], j)[i] = items[k][h]
    BY <2>4, RemoveAtKeeps
  <2>6. DaysOfStore'
    BY <1>1, <2>2, <2>3, <2>5, DaysOfFewer
  <2> QED BY <1>1, <2>2, <2>6
          DEF DaysKept, DayOfReader, Busy, Past, IsOver, KeyOf, LocalDate
<1>7. CASE Restart
  <2>1. /\ \A r \in Readers : pc'[r] = "idle"
        /\ \A k \in Keys : items'[k] = items[k] \/ items'[k] = <<>>
    BY <1>1, <1>7, RestartDoes
  <2>2. setup' = setup
    BY <1>7 DEF Restart
  <2>3. \A i : i \notin 1..Len(<<>>)
    OBVIOUS
  <2>4. DaysOfStore'
    BY <1>1, <2>1, <2>2, <2>3, DaysOfFewer
  <2> QED BY <2>1, <2>4 DEF DaysKept, DayOfReader, Busy, Working
<1>8. CASE Tick
  <2>1. now' = now + 1 /\ now \in Int /\ UNCHANGED <<setup, items, pc, todo, ttl, item>>
    BY <1>1, <1>8 DEF Tick, readerVars, TypeOK
  <2>2. ASSUME NEW r \in Readers, Busy(r) PROVE DayOfReader(r)'
    <3>1. /\ \A i \in 1..Len(todo[r]) : Past(todo[r][i])
          /\ ttl[r] = DO_NOT_EXPIRE => IsOver(KeyOf(Head(todo[r])), now)
          /\ pc[r] = "insert" /\ item[r].expireAt = DO_NOT_EXPIRE
                => IsOver(KeyOf(Head(todo[r])), item[r].asOf)
      BY <1>1, <2>2 DEF DayOfReader
    <3>2. DayLength \in Int /\ MaxDay \in Int /\ todo[r] \in Seq(-1..MaxDay)
      BY <1>1, Days DEF TypeOK
    <3>3. ASSUME NEW i \in 1..Len(todo[r]) PROVE Past(todo[r][i])'
      <4>1. todo[r][i] \in -1..MaxDay
        BY <3>2, ElementOfSeq
      <4>2. todo[r][i] \in Int
        BY <3>2, <4>1
      <4>3. (todo[r][i] + 1) * DayLength \in Int /\ todo[r][i] * DayLength \in Int
        BY <3>2, <4>2
      <4>4. Past(todo[r][i])
        BY <3>1
      <4> QED BY <2>1, <4>3, <4>4 DEF Past
    <3>4. ASSUME ttl[r] = DO_NOT_EXPIRE PROVE IsOver(KeyOf(Head(todo[r])), now)'
      <4> SUFFICES ASSUME NEW date \in -1..MaxDay, KeyOf(date) = KeyOf(Head(todo[r]))
                   PROVE  now' >= (date + 1) * DayLength
        BY <2>1 DEF IsOver, KeyOf, LocalDate
      <4>1. now >= (date + 1) * DayLength
        BY <3>1, <3>4 DEF IsOver
      <4>2. (date + 1) * DayLength \in Int
        BY <3>2
      <4> QED BY <2>1, <4>1, <4>2
    <3>5. ASSUME pc[r] = "insert" /\ item[r].expireAt = DO_NOT_EXPIRE
          PROVE  IsOver(KeyOf(Head(todo[r])), item[r].asOf)'
      BY <2>1, <3>1, <3>5 DEF IsOver, KeyOf, LocalDate
    <3> QED BY <2>1, <3>3, <3>4, <3>5 DEF DayOfReader
  <2>3. \A r \in Readers : ~Busy(r) => DayOfReader(r)'
    BY <2>1 DEF DayOfReader, Busy
  <2> QED BY <1>3, <2>1, <2>2, <2>3 DEF DaysKept
<1>9. CASE UNCHANGED vars
  BY <1>9 DEF vars, readerVars, DaysKept, DaysOfStore, DayOfReader, Busy, Past, IsOver,
              KeyOf, LocalDate
<1> QED BY <1>4, <1>5, <1>6, <1>7, <1>8, <1>9 DEF Next

\* buildBehaviour: in a process that does not run ahead of UTC, a day kept for
\* ever was fetched once it was over, although the ttl was chosen before the
\* lookup and the day may have changed since.
THEOREM PermanentDaysAreComplete == Spec => []PermanentDayIsComplete
<1>1. Init => DaysKept
  <2>1. \A i : i \notin 1..Len(<<>>)
    OBVIOUS
  <2> QED BY <2>1 DEF Init, DaysKept, DaysOfStore, DayOfReader, Busy, Working
<1>2. Spec => [](Sound /\ DaysKept)
  BY <1>1, SoundInit, SoundNext, DaysKeptNext, PTL DEF Spec
<1>3. Sound /\ DaysKept => PermanentDayIsComplete
  <2> SUFFICES ASSUME Sound, DaysKept, setup.collection = "dated", setup.offset <= 0,
                      NEW date \in -1..MaxDay, NEW i \in ToSet(items[KeyOf(date)]),
                      i.expireAt = DO_NOT_EXPIRE
               PROVE  i.asOf >= (date + 1) * DayLength
    BY DEF PermanentDayIsComplete
  <2>1. KeyOf(date) \in Keys
    BY KeysOfDates DEF Sound, TypeOK
  <2>2. PICK h \in 1..Len(items[KeyOf(date)]) : i = items[KeyOf(date)][h]
    <3>1. items[KeyOf(date)] \in Seq(Items)
      BY <2>1 DEF Sound, TypeOK
    <3>2. DOMAIN items[KeyOf(date)] = 1..Len(items[KeyOf(date)])
      BY <3>1
    <3> QED BY <3>2 DEF ToSet
  <2>3. IsOver(KeyOf(date), i.asOf)
    BY <2>1, <2>2 DEF DaysKept, DaysOfStore
  <2> QED BY <2>3 DEF IsOver
<1> QED BY <1>2, <1>3, PTL

-----------------------------------------------------------------------------
(* Copies of a day.                                                        *)

Bounded(k) ==
    /\ Len(items[k]) + Cardinality(Fetching(k)) <= Cardinality(Readers)
    /\ ~Appends => Len(items[k]) <= 1

\* A copy is paid for by the reader that stops fetching, and a reader begins
\* to fetch only where no item is left or an expired one was evicted.
LEMMA CopiesCount ==
  ASSUME Sound, NEW k \in Keys, Bounded(k), setup' = setup, items' \in [Keys -> Seq(Items)],
         Appends \/ Len(items'[k]) <= 1,
         \/ Len(items'[k]) <= Len(items[k]) /\ Fetching(k)' \subseteq Fetching(k)
         \/ items'[k] = <<>>
         \/ \E r \in Readers : /\ Len(items'[k]) + 1 <= Len(items[k])
                               /\ Fetching(k)' \subseteq Fetching(k) \union {r}
         \/ \E r \in Fetching(k) : /\ Len(items'[k]) <= Len(items[k]) + 1
                                   /\ Fetching(k)' \subseteq Fetching(k) \ {r}
         \/ \E r \in Readers : /\ Len(items'[k]) = 1
                               /\ Fetching(k)' \subseteq Readers \ {r}
  PROVE  Bounded(k)'
<1> DEFINE F == Fetching(k)
           G == Fetching(k)'
           n == Len(items[k])
           m == Len(items'[k])
<1>1. F \subseteq Readers /\ G \subseteq Readers
  BY DEF Fetching
<1>2. /\ n \in Nat /\ m \in Nat
      /\ (items'[k] = <<>> => m = 0)
      /\ n + Cardinality(F) <= Cardinality(Readers)
      /\ Appends' <=> Appends
  <2>1. items[k] \in Seq(Items) /\ items'[k] \in Seq(Items)
    BY DEF Sound, TypeOK
  <2>2. n \in Nat /\ m \in Nat /\ (items'[k] = <<>> => m = 0)
    BY <2>1, EmptySeq
  <2> QED BY <2>2 DEF Bounded, Appends
<1> SUFFICES m + Cardinality(G) <= Cardinality(Readers)
  BY <1>2 DEF Bounded
<1> HIDE DEF F, G, n, m
<1>3. IsFiniteSet(Readers) /\ IsFiniteSet(F) /\ IsFiniteSet(G)
  BY <1>1, FS_Subset, LookupAssumption
<1>4. /\ Cardinality(Readers) \in Nat /\ Cardinality(F) \in Nat /\ Cardinality(G) \in Nat
      /\ Cardinality(G) <= Cardinality(Readers)
  BY <1>1, <1>3, FS_CardinalityType, FS_Subset
<1>5. CASE m <= n /\ G \subseteq F
  <2>1. Cardinality(G) <= Cardinality(F)
    BY <1>3, <1>5, FS_Subset
  <2> QED BY <1>2, <1>4, <1>5, <2>1
<1>6. CASE items'[k] = <<>>
  BY <1>2, <1>4, <1>6
<1>7. ASSUME NEW r \in Readers, m + 1 <= n, G \subseteq F \union {r}
      PROVE  m + Cardinality(G) <= Cardinality(Readers)
  <2>1. /\ IsFiniteSet(F \union {r})
        /\ Cardinality(F \union {r}) \in {Cardinality(F), Cardinality(F) + 1}
    BY <1>3, FS_AddElement
  <2>2. Cardinality(G) <= Cardinality(F \union {r})
    BY <1>7, <2>1, FS_Subset
  <2> QED BY <1>2, <1>4, <1>7, <2>1, <2>2
<1>8. ASSUME NEW r \in F, m <= n + 1, G \subseteq F \ {r}
      PROVE  m + Cardinality(G) <= Cardinality(Readers)
  <2>1. IsFiniteSet(F \ {r}) /\ Cardinality(F \ {r}) = Cardinality(F) - 1
    BY <1>3, FS_RemoveElement
  <2>2. Cardinality(G) <= Cardinality(F \ {r})
    BY <1>8, <2>1, FS_Subset
  <2> QED BY <1>2, <1>4, <1>8, <2>1, <2>2
<1>9. ASSUME NEW r \in Readers, m = 1, G \subseteq Readers \ {r}
      PROVE  m + Cardinality(G) <= Cardinality(Readers)
  <2>1. IsFiniteSet(Readers \ {r}) /\ Cardinality(Readers \ {r}) = Cardinality(Readers) - 1
    BY <1>3, FS_RemoveElement
  <2>2. Cardinality(G) <= Cardinality(Readers \ {r})
    BY <1>9, <2>1, FS_Subset
  <2> QED BY <1>2, <1>4, <1>9, <2>1, <2>2
<1> QED BY <1>5, <1>6, <1>7, <1>8, <1>9 DEF F, G, n, m

LEMMA FetchingOthers ==
  ASSUME NEW r \in Readers, Others(r), setup' = setup, NEW k
  PROVE  /\ Fetching(k)' \subseteq Fetching(k) \union {r}
         /\ r \notin Fetching(k)' => Fetching(k)' \subseteq Fetching(k) \ {r}
BY DEF Others, Fetching, KeyOf, LocalDate

LEMMA CopiesReader ==
  ASSUME Sound, setup.collection = "dated", StoreEnabled, NEW k \in Keys, Bounded(k),
         NEW r \in Readers, ReaderStep(r)
  PROVE  Bounded(k)'
<1>1. /\ TypeOK /\ Shape /\ ShapeOf(r) /\ items \in [Keys -> Seq(Items)]
      /\ items' \in [Keys -> Seq(Items)]
  <2>1. Sound'
    BY ReadersAreSound
  <2> QED BY <2>1 DEF Sound, TypeOK, Shape
<1>2. setup' = setup
  BY DEF ReaderStep, Find, Delete, Fetch, Insert, Redeem, RedeemRejected,
         RedeemAnswerLost, CallFails
<1>3. Advances(r) => r \notin Fetching(k)'
  <2>1. Advances(r) => pc'[r] \in {"find", "idle"}
    BY DEF Advances, Turns, Ends
  <2> QED BY <2>1 DEF Fetching
<1>4. (~Appends => Len(items[k]) <= 1) /\ Len(items[k]) \in Nat
  <2>1. items[k] \in Seq(Items)
    BY <1>1
  <2> QED BY <2>1 DEF Bounded
<1>5. CASE Find(r)
  <2> DEFINE q == KeyOf(Head(todo[r]))
  <2>1. /\ pc[r] = "find" /\ Others(r) /\ q \in Keys
        /\ items' = [items EXCEPT ![q] = AfterFind(q)]
        /\ \/ Valid(FoundIn(q)) /\ Advances(r)
           \/ FoundIn(q) = NoItem /\ pc'[r] = "fetch" /\ todo'[r] = todo[r]
    BY <1>1, <1>5, FindDoes
  <2>2. r \in Fetching(k)' /\ todo'[r] = todo[r] => q = k
    BY <1>2 DEF Fetching, KeyOf, LocalDate
  <2> HIDE DEF q
  <2>3. CASE Valid(FoundIn(q)) /\ Advances(r)
    <3>1. items'[k] = items[k]
      <4>1. FoundIn(q) # NoItem
        BY <2>3 DEF Valid
      <4>2. AfterFind(q) = items[q]
        BY <1>1, <2>1, <4>1, StoreTypes
      <4> QED BY <1>1, <2>1, <4>2
    <3>2. Fetching(k)' \subseteq Fetching(k)
      BY <1>2, <1>3, <2>1, <2>3, FetchingOthers
    <3> QED BY <1>1, <1>2, <1>4, <3>1, <3>2, CopiesCount
  <2>4. CASE k = q /\ FoundIn(q) = NoItem
    <3>1. \/ AfterFind(k) = <<>>
          \/ items[k] # <<>> /\ AfterFind(k) = Tail(items[k])
      BY <1>1, <2>4, StoreTypes
    <3>2. items'[k] = AfterFind(k)
      BY <1>1, <2>1, <2>4
    <3>3. CASE items'[k] = <<>>
      <4>1. Len(items'[k]) <= 1
        BY <3>3
      <4> QED BY <1>1, <1>2, <3>3, <4>1, CopiesCount
    <3>4. CASE items[k] # <<>> /\ items'[k] = Tail(items[k])
      <4>1. items[k] \in Seq(Items)
        BY <1>1
      <4>2. Len(items[k]) \in Nat \ {0} /\ Len(items'[k]) = Len(items[k]) - 1
        BY <3>4, <4>1, HeadAndTail
      <4>3. Fetching(k)' \subseteq Fetching(k) \union {r}
        BY <1>2, <2>1, FetchingOthers
      <4>4. Len(items'[k]) + 1 <= Len(items[k]) /\ (Appends \/ Len(items'[k]) <= 1)
        BY <1>4, <4>2
      <4> QED BY <1>1, <1>2, <4>3, <4>4, CopiesCount
    <3> QED BY <3>1, <3>2, <3>3, <3>4
  <2>5. CASE k # q /\ todo'[r] = todo[r]
    <3>1. items'[k] = items[k]
      BY <1>1, <2>1, <2>5
    <3>2. Fetching(k)' \subseteq Fetching(k)
      BY <1>2, <2>1, <2>2, <2>5, FetchingOthers
    <3> QED BY <1>1, <1>2, <1>4, <3>1, <3>2, CopiesCount
  <2> QED BY <2>1, <2>3, <2>4, <2>5
<1>6. CASE Delete(r)
  BY <1>1, <1>6 DEF Delete, ShapeOf
<1>7. CASE Fetch(r)
  <2>1. /\ pc[r] = "fetch" /\ Others(r) /\ items' = items /\ todo'[r] = todo[r]
    BY <1>1, <1>7, FetchDoes DEF Fetch, Holds
  <2>2. r \in Fetching(k)' => r \in Fetching(k)
    BY <1>2, <2>1 DEF Fetching, KeyOf, LocalDate
  <2>3. Fetching(k)' \subseteq Fetching(k)
    BY <1>2, <2>1, <2>2, FetchingOthers
  <2> QED BY <1>1, <1>2, <1>4, <2>1, <2>3, CopiesCount
<1>8. CASE Insert(r)
  <2> DEFINE q == KeyOf(Head(todo[r]))
             i == Stored(item[r])
  <2>1. /\ pc[r] = "insert" /\ Others(r) /\ Advances(r) /\ q \in Keys /\ item[r] \in Items
        /\ items' = [items EXCEPT ![q] = AfterInsert(q, item[r])]
    BY <1>1, <1>8, InsertDoes
  <2>2. Fetching(k)' \subseteq Fetching(k) \ {r}
    BY <1>2, <1>3, <2>1, FetchingOthers
  <2>3. q = k => r \in Fetching(k)
    BY <2>1 DEF Fetching
  <2>4. AfterInsert(q, item[r]) = (IF Appends THEN Append(items[q], i) ELSE <<i>>) /\ i \in Items
    BY <1>1, <2>1, StoredTypes
  <2> HIDE DEF q, i
  <2>5. CASE q # k
    <3>1. items'[k] = items[k]
      BY <1>1, <2>1, <2>5
    <3> QED BY <1>1, <1>2, <1>4, <2>2, <3>1, CopiesCount
  <2>6. CASE q = k /\ Appends
    <3>1. items'[k] = Append(items[k], i)
      BY <1>1, <2>1, <2>4, <2>6
    <3>2. Len(items'[k]) <= Len(items[k]) + 1
      <4>1. items[k] \in Seq(Items)
        BY <1>1
      <4>2. Len(Append(items[k], i)) = Len(items[k]) + 1
        BY <2>4, <4>1
      <4> QED BY <1>4, <3>1, <4>2
    <3> QED BY <1>1, <1>2, <2>2, <2>3, <2>6, <3>2, CopiesCount
  <2>7. CASE q = k /\ ~Appends
    <3>1. Len(items'[k]) = 1
      <4>1. items'[k] = <<i>>
        BY <1>1, <2>1, <2>4, <2>7
      <4>2. Len(<<i>>) = 1
        OBVIOUS
      <4> QED BY <4>1, <4>2
    <3>2. Fetching(k)' \subseteq Readers \ {r}
      BY <2>2 DEF Fetching
    <3>3. Len(items'[k]) <= 1
      BY <3>1
    <3> QED BY <1>1, <1>2, <3>1, <3>2, <3>3, CopiesCount
  <2> QED BY <2>5, <2>6, <2>7
<1>9. CASE Redeem(r) \/ RedeemRejected(r) \/ RedeemAnswerLost(r)
  BY <1>9 DEF Redeem, RedeemRejected, RedeemAnswerLost
<1>10. CASE CallFails(r)
  <2>1. Ends(r) /\ Others(r) /\ items' = items
    BY <1>1, <1>10, CallFailsDoes DEF CallFails
  <2>2. Fetching(k)' \subseteq Fetching(k)
    BY <1>2, <1>3, <2>1, FetchingOthers DEF Advances
  <2> QED BY <1>1, <1>2, <1>4, <2>1, <2>2, CopiesCount
<1> QED BY <1>5, <1>6, <1>7, <1>8, <1>9, <1>10 DEF ReaderStep

LEMMA CopiesNext == Sound /\ CopiesAreBounded /\ [Next]_vars => CopiesAreBounded'
<1> SUFFICES ASSUME Sound, CopiesAreBounded, [Next]_vars,
                    setup.collection = "dated", StoreEnabled, NEW k \in Keys
             PROVE  Bounded(k)'
  <2>1. [Next]_vars => setup' = setup
    BY DEF Next, Request, ReaderStep, Find, Delete, Fetch, Insert, Redeem, RedeemRejected,
           RedeemAnswerLost, CallFails, StoreExpires, Restart, Tick, vars
  <2> QED BY <2>1 DEF CopiesAreBounded, Bounded, StoreEnabled
<1>1. /\ TypeOK /\ Shape /\ Bounded(k)
      /\ items[k] \in Seq(Items) /\ Len(items[k]) \in Nat /\ (Appends \/ Len(items[k]) <= 1)
      /\ items \in [Keys -> Seq(Items)] /\ items' \in [Keys -> Seq(Items)]
  <2>1. Sound'
    BY SoundNext
  <2>2. items[k] \in Seq(Items)
    BY DEF Sound, TypeOK
  <2>3. Len(items[k]) \in Nat
    BY <2>2
  <2>4. Bounded(k)
    BY DEF CopiesAreBounded, Bounded
  <2>5. Appends \/ Len(items[k]) <= 1
    BY <2>4 DEF Bounded
  <2> QED BY <2>1, <2>2, <2>3, <2>4, <2>5 DEF Sound, TypeOK
<1>2. CASE \E r \in Readers : Request(r)
  <2>1. PICK r \in Readers : Request(r)
    BY <1>2
  <2>2. UNCHANGED <<setup, items>>
    BY <2>1 DEF Request
  <2>3. Others(r) /\ pc'[r] \in {"join", "find"}
    BY <1>1, <2>1, RequestDoes DEF Turns
  <2>4. r \notin Fetching(k)'
    BY <2>3 DEF Fetching
  <2>5. Fetching(k)' \subseteq Fetching(k)
    BY <2>2, <2>3, <2>4, FetchingOthers
  <2> QED BY <1>1, <2>2, <2>5, CopiesCount
<1>3. CASE \E r \in Readers : ReaderStep(r)
  BY <1>1, <1>3, CopiesReader
<1>4. CASE \E q \in Keys : StoreExpires(q)
  <2>1. PICK q \in Keys : StoreExpires(q)
    BY <1>4
  <2>2. UNCHANGED <<setup, pc, todo>>
    BY <2>1 DEF StoreExpires, readerVars
  <2>3. PICK j \in 1..Len(items[q]) : items' = [items EXCEPT ![q] = RemoveAt(items[q], j)]
    BY <1>1, <2>1, StoreExpiresDoes
  <2>4. Len(items'[k]) <= Len(items[k])
    <3>1. CASE q = k
      <4>1. Len(RemoveAt(items[k], j)) = Len(items[k]) - 1
        BY <1>1, <2>3, <3>1, RemoveAtEffect
      <4>2. items'[k] = RemoveAt(items[k], j)
        BY <1>1, <2>3, <3>1
      <4> QED BY <1>1, <4>1, <4>2
    <3>2. CASE q # k
      BY <1>1, <2>3, <3>2
    <3> QED BY <3>1, <3>2
  <2>5. Fetching(k)' \subseteq Fetching(k)
    BY <2>2 DEF Fetching, KeyOf, LocalDate
  <2>6. Appends \/ Len(items'[k]) <= 1
    <3>1. items'[k] \in Seq(Items)
      BY <1>1
    <3>2. Len(items'[k]) \in Nat
      BY <3>1
    <3> QED BY <1>1, <2>4, <3>2
  <2> QED BY <1>1, <2>2, <2>4, <2>5, <2>6, CopiesCount
<1>5. CASE Restart
  <2>1. /\ \A r \in Readers : pc'[r] = "idle"
        /\ items'[k] = items[k] \/ items'[k] = <<>>
    BY <1>1, <1>5, RestartDoes
  <2>2. setup' = setup
    BY <1>5 DEF Restart
  <2>3. Fetching(k)' \subseteq Fetching(k)
    BY <2>1 DEF Fetching
  <2>4. Len(<<>>) <= 1
    OBVIOUS
  <2> QED BY <1>1, <2>1, <2>2, <2>3, <2>4, CopiesCount
<1>6. CASE Tick \/ UNCHANGED vars
  <2>1. UNCHANGED <<setup, items, pc, todo>>
    BY <1>6 DEF Tick, vars, readerVars
  <2>2. Fetching(k)' \subseteq Fetching(k)
    BY <2>1 DEF Fetching, KeyOf, LocalDate
  <2> QED BY <1>1, <2>1, <2>2, CopiesCount
<1> QED BY <1>2, <1>3, <1>4, <1>5, <1>6 DEF Next

\* Overlapping misses of a day leave at most one copy of it per reader, and one
\* in the stores that overwrite.
THEOREM CopiesStayBounded == Spec => []CopiesAreBounded
<1>1. Init => CopiesAreBounded
  <2> SUFFICES ASSUME Init, NEW k \in Keys PROVE Bounded(k)
    BY DEF CopiesAreBounded, Bounded
  <2>1. items[k] = <<>> /\ Fetching(k) = {}
    BY DEF Init, Fetching
  <2>2. Cardinality(Fetching(k)) = 0 /\ Cardinality(Readers) \in Nat
    BY <2>1, FS_EmptySet, FS_CardinalityType, LookupAssumption
  <2>3. Len(<<>>) = 0
    OBVIOUS
  <2> QED BY <2>1, <2>2, <2>3 DEF Bounded
<1> QED BY <1>1, SoundInit, SoundNext, CopiesNext, PTL DEF Spec

-----------------------------------------------------------------------------
(* Rotating refresh tokens.                                                *)

\* The refresh tokens stored or looked up.  A renewal that was answered but not
\* stored yet holds the newest, which nobody else can redeem: there is never a
\* second one, and no copy of an older token is mistaken for it.
Tokens ==
    { items[0][i].refreshToken : i \in 1..Len(items[0]) }
    \union { cached[r].refreshToken : r \in { s \in Readers : cached[s] # NoItem } }
NewestToken ==
    setup.rotating =>
        /\ \A t \in Tokens : t <= lastToken
        /\ \A r \in Readers : pc[r] = "insert" =>
              /\ item[r].refreshToken = lastToken
              /\ lastToken # ConfiguredToken /\ lastToken \notin Tokens
              /\ \A s \in Readers : pc[s] = "insert" => s = r

\* Where the newest token is.  DynamoDB deletes nothing, so that there it stays
\* in the store until it is overwritten, whatever fails.
Renews(r) ==
    /\ setup.backend # "dynamodb" /\ pc[r] \in {"delete", "fetch"}
    /\ cached[r] # NoItem /\ cached[r].refreshToken = lastToken
Within ==
    \/ lastToken = ConfiguredToken
    \/ \E i \in 1..Len(items[0]) : items[0][i].refreshToken = lastToken
    \/ \E r \in Readers : pc[r] = "insert"
    \/ \E r \in Readers : Renews(r)
Undisturbed ==
    /\ lost = 0 /\ restarts = 0
    /\ failures = 0 \/ setup.backend = "dynamodb"
TokenKept ==
    /\ NewestToken
    /\ setup.rotating /\ Undisturbed => Within

LEMMA RotatingSetup ==
  ASSUME Sound, setup.rotating
  PROVE  /\ setup.collection = "tokens" /\ StoreEnabled /\ ~ExpiryEnabled
         /\ \A d : KeyOf(d) = 0
         /\ 0 \in Keys /\ items[0] \in Seq(Items) /\ items \in [Keys -> Seq(Items)]
         /\ AfterFind(0) = items[0]
         /\ redeemable = {lastToken} /\ lastToken \in Nat \ {0}
<1>1. setup \in Setups /\ setup.collection = "tokens"
  BY SetupFields DEF Sound, TypeOK
<1>2. 0 \in Keys /\ \A d : KeyOf(d) = 0
  <2>1. 0 \in -1..MaxDay /\ KeyOf(0) = 0
    BY <1>1, Days DEF KeyOf
  <2> QED BY <1>1, <2>1, KeysOfDates DEF KeyOf
<1>3. StoreEnabled /\ ~ExpiryEnabled
  BY <1>1 DEF StoreEnabled, ExpiryEnabled
<1>4. AfterFind(0) = items[0]
  BY <1>3 DEF AfterFind, Evicts, LooksAtExpiry
<1>5. redeemable = {lastToken} /\ lastToken \in Nat \ {0}
  <2>1. lastToken \in 1..MaxToken /\ MaxToken \in Int
    BY LookupAssumption DEF Sound, TypeOK, MaxToken
  <2> QED BY <2>1 DEF Sound, Numbered
<1> QED BY <1>1, <1>2, <1>3, <1>4, <1>5 DEF Sound, TypeOK

\* Nobody holds an answered renewal while another reader redeems the newest token.
LEMMA OneRenewal ==
  ASSUME Sound, NewestToken, setup.rotating, NEW r \in Readers,
         TokenToRedeem(r) \in redeemable
  PROVE  \A s \in Readers : pc[s] # "insert"
<1> SUFFICES ASSUME NEW s \in Readers, pc[s] = "insert" PROVE FALSE
  OBVIOUS
<1>1. TokenToRedeem(r) = lastToken
  BY RotatingSetup
<1>2. lastToken # ConfiguredToken /\ lastToken \notin Tokens
  BY DEF NewestToken
<1>3. cached[r] # NoItem => cached[r].refreshToken \in Tokens
  BY DEF Tokens
<1> QED BY <1>1, <1>2, <1>3 DEF TokenToRedeem

\* Steps that bring no token into the store or to a reader.
LEMMA NewestQuiet ==
  ASSUME NewestToken, setup.rotating, Tokens' \subseteq Tokens,
         setup' = setup, lastToken' = lastToken,
         \A s \in Readers : pc'[s] = "insert" => pc[s] = "insert" /\ item'[s] = item[s]
  PROVE  NewestToken'
BY DEF NewestToken

LEMMA TokensOthers ==
  ASSUME NEW r \in Readers, Others(r),
         \A i \in 1..Len(items'[0]) : \E h \in 1..Len(items[0]) : items'[0][i] = items[0][h],
         \/ cached'[r] = cached[r]
         \/ cached'[r] = NoItem
         \/ \E h \in 1..Len(items[0]) : cached'[r] = items[0][h]
  PROVE  Tokens' \subseteq Tokens
<1>1. \A s \in Readers \ {r} : cached'[s] = cached[s]
  BY DEF Others
<1>2. ASSUME NEW i \in 1..Len(items'[0]) PROVE items'[0][i].refreshToken \in Tokens
  BY DEF Tokens
<1>3. ASSUME NEW s \in Readers, cached'[s] # NoItem PROVE cached'[s].refreshToken \in Tokens
  <2>1. CASE s # r
    BY <1>1, <1>3, <2>1 DEF Tokens
  <2>2. CASE s = r
    BY <1>3, <2>2 DEF Tokens
  <2> QED BY <2>1, <2>2
<1> QED BY <1>2, <1>3 DEF Tokens

\* The newest token stays where it is unless the step is its holder's.
LEMMA WithinOthers ==
  ASSUME Within, NEW r \in Readers, Others(r), setup' = setup, lastToken' = lastToken,
         \A i \in 1..Len(items[0]) : items[0][i].refreshToken = lastToken
            => \E h \in 1..Len(items'[0]) : items'[0][h] = items[0][i],
         pc[r] # "insert", Renews(r) => Renews(r)'
  PROVE  Within'
<1>1. \A s \in Readers \ {r} : pc[s] \in {"insert", "delete", "fetch"}
                                 => pc'[s] = pc[s] /\ cached'[s] = cached[s]
  BY DEF Others
<1>2. ASSUME NEW s \in Readers, Renews(s) PROVE Renews(s)'
  BY <1>1, <1>2 DEF Renews
<1>3. ASSUME NEW s \in Readers, pc[s] = "insert" PROVE pc'[s] = "insert"
  BY <1>1, <1>3
<1>4. CASE \E i \in 1..Len(items[0]) : items[0][i].refreshToken = lastToken
  BY <1>4 DEF Within
<1> QED BY <1>2, <1>3, <1>4 DEF Within

LEMMA TokenReader ==
  ASSUME Sound, TokenKept, setup.rotating, NEW r \in Readers, ReaderStep(r)
  PROVE  NewestToken' /\ (Undisturbed' => Within')
<1>1. /\ TypeOK /\ Shape /\ ShapeOf(r) /\ NewestToken
      /\ setup.collection = "tokens" /\ \A d : KeyOf(d) = 0
      /\ 0 \in Keys /\ items[0] \in Seq(Items) /\ items \in [Keys -> Seq(Items)]
      /\ redeemable = {lastToken} /\ lastToken \in Nat \ {0}
  BY RotatingSetup DEF Sound, Shape, TokenKept
<1>2. setup' = setup
  BY DEF ReaderStep, Find, Delete, Fetch, Insert, Redeem, RedeemRejected,
         RedeemAnswerLost, CallFails
<1>3. \A s \in Readers : Others(r) /\ s # r /\ pc'[s] = "insert" => pc[s] = "insert" /\ item'[s] = item[s]
  BY DEF Others
<1>4. ASSUME UNCHANGED faultVars PROVE Undisturbed' => Within
  BY <1>2, <1>4 DEF Undisturbed, faultVars, TokenKept
<1>5. ASSUME items' = items
      PROVE  /\ \A i \in 1..Len(items'[0]) : \E h \in 1..Len(items[0]) : items'[0][i] = items[0][h]
             /\ \A i \in 1..Len(items[0]) : \E h \in 1..Len(items'[0]) : items'[0][h] = items[0][i]
  BY <1>5
<1>6. CASE Find(r)
  <2> DEFINE k == KeyOf(Head(todo[r]))
  <2>1. k = 0 /\ UNCHANGED <<lastToken, failures, lost, restarts>>
    BY <1>1, <1>6 DEF Find, serverVars, faultVars
  <2>2. /\ pc[r] = "find" /\ Others(r)
        /\ items' = [items EXCEPT ![k] = AfterFind(k)]
        /\ \/ Advances(r)
           \/ pc'[r] = "fetch" /\ cached'[r] = NoItem
           \/ pc'[r] = "delete" /\ cached'[r] = FoundIn(k) /\ FoundIn(k) # NoItem
    BY <1>1, <1>6, FindDoes
  <2> HIDE DEF k
  <2>3. items' = items
    BY <1>1, <2>1, <2>2, RotatingSetup
  <2>4. /\ pc'[r] # "insert"
        /\ \/ cached'[r] = NoItem
           \/ \E h \in 1..Len(items[0]) : cached'[r] = items[0][h]
    <3>1. CASE Advances(r)
      BY <3>1 DEF Advances, Turns, Ends
    <3>2. CASE pc'[r] = "fetch" /\ cached'[r] = NoItem
      BY <3>2
    <3>3. CASE pc'[r] = "delete" /\ cached'[r] = FoundIn(0) /\ FoundIn(0) # NoItem
      <4>1. items[0] # <<>> /\ FoundIn(0) = Head(items[0])
        BY <1>1, <3>3, StoreTypes
      <4>2. Head(items[0]) = items[0][1] /\ 1 \in 1..Len(items[0])
        BY <1>1, <4>1, HeadAndTail
      <4> QED BY <3>3, <4>1, <4>2
    <3> QED BY <2>1, <2>2, <3>1, <3>2, <3>3
  <2>5. NewestToken'
    <3>1. Tokens' \subseteq Tokens
      BY <1>5, <2>2, <2>3, <2>4, TokensOthers
    <3> QED BY <1>1, <1>2, <1>3, <2>1, <2>2, <2>4, <3>1, NewestQuiet
  <2>6. Within => Within'
    <3>1. pc[r] # "insert" /\ ~Renews(r)
      BY <2>2 DEF Renews
    <3> QED BY <1>2, <1>5, <2>1, <2>2, <2>3, <3>1, WithinOthers
  <2> QED BY <1>4, <2>1, <2>5, <2>6 DEF faultVars
<1>7. CASE Delete(r)
  <2> DEFINE k == KeyOf(Head(todo[r]))
  <2>1. k = 0 /\ UNCHANGED <<lastToken, failures, lost, restarts>>
    BY <1>1, <1>7 DEF Delete, serverVars, faultVars
  <2>2. /\ pc[r] = "delete" /\ Others(r) /\ pc'[r] = "fetch" /\ cached'[r] = cached[r]
        /\ items' = [items EXCEPT ![k] = AfterDelete(k, cached[r])]
    BY <1>1, <1>7, DeleteDoes
  <2> HIDE DEF k
  <2>3. items'[0] = IF setup.backend = "dynamodb" THEN items[0]
                    ELSE RemoveFirst(items[0], cached[r])
    BY <1>1, <2>1, <2>2 DEF AfterDelete
  <2>4. /\ \A i \in 1..Len(items'[0]) : \E h \in 1..Len(items[0]) : items'[0][i] = items[0][h]
        /\ \A h \in 1..Len(items[0]) : setup.backend = "dynamodb" \/ items[0][h] # cached[r]
              => \E i \in 1..Len(items'[0]) : items'[0][i] = items[0][h]
    BY <1>1, <2>3, RemoveFirstKeeps
  <2>5. NewestToken'
    <3>1. Tokens' \subseteq Tokens
      BY <2>2, <2>4, TokensOthers
    <3> QED BY <1>1, <1>2, <1>3, <2>1, <2>2, <3>1, NewestQuiet
  <2>6. cached[r] # NoItem /\ (Renews(r) => Renews(r)')
    BY <1>1, <1>2, <2>1, <2>2 DEF Renews, ShapeOf
  <2>7. Within => Within'
    <3>1. CASE setup.backend # "dynamodb" /\ cached[r].refreshToken = lastToken
      <4>1. Renews(r)'
        BY <2>2, <2>6, <3>1 DEF Renews
      <4> QED BY <4>1 DEF Within
    <3>2. CASE setup.backend = "dynamodb" \/ cached[r].refreshToken # lastToken
      <4>1. \A i \in 1..Len(items[0]) : items[0][i].refreshToken = lastToken
               => \E h \in 1..Len(items'[0]) : items'[0][h] = items[0][i]
        BY <2>4, <3>2
      <4> QED BY <1>2, <2>1, <2>2, <2>6, <4>1, WithinOthers
    <3> QED BY <3>1, <3>2
  <2> QED BY <1>4, <2>1, <2>5, <2>7 DEF faultVars
<1>8. CASE Fetch(r)
  BY <1>1, <1>8 DEF Fetch
<1>9. CASE Redeem(r)
  <2>1. /\ pc[r] = "fetch" /\ TokenToRedeem(r) \in redeemable /\ Grant(TokenToRedeem(r))
        /\ Others(r) /\ items' = items /\ Holds(r, TRUE, lastToken')
    BY <1>9, RedeemDoes DEF Redeem
  <2>2. lastToken' = lastToken + 1
    BY <2>1, GrantDoes
  <2>3. \A s \in Readers : pc[s] # "insert"
    BY <1>1, <2>1, OneRenewal
  <2>4. pc'[r] = "insert" /\ item'[r].refreshToken = lastToken' /\ cached'[r] = cached[r]
    BY <2>1 DEF Holds
  <2>5. \A s \in Readers : pc'[s] = "insert" => s = r
    BY <1>3, <2>1, <2>3
  <2>6. \A t \in Tokens' : t <= lastToken
    <3>1. Tokens' \subseteq Tokens
      BY <1>5, <2>1, <2>4, TokensOthers
    <3> QED BY <1>1, <3>1 DEF NewestToken
  <2>7. /\ \A t \in Tokens' : t <= lastToken'
        /\ lastToken' \notin Tokens' /\ lastToken' # ConfiguredToken
    <3>1. ASSUME NEW t \in Tokens' PROVE t <= lastToken' /\ t # lastToken'
      <4>1. t <= lastToken /\ t \in Int
        <5>1. t \in Int
          <6>1. Tokens' \subseteq Int
            <7>1. items'[0] \in Seq(Items) /\ cached' \in [Readers -> Items \union {NoItem}]
              BY <1>1, <2>1, ReadersAreSound, <1>9 DEF Sound, TypeOK, ReaderStep
            <7>2. \A i \in Items : i.refreshToken \in Int
              BY LookupAssumption DEF Items, MaxToken
            <7> QED BY <7>1, <7>2, ElementOfSeq DEF Tokens
          <6> QED BY <6>1
        <5> QED BY <2>6, <5>1
      <4> QED BY <1>1, <2>2, <4>1
    <3> QED BY <1>1, <2>2, <3>1 DEF ConfiguredToken
  <2>8. NewestToken'
    BY <2>4, <2>5, <2>7 DEF NewestToken, ConfiguredToken
  <2>9. Within'
    BY <2>4 DEF Within
  <2> QED BY <2>8, <2>9
<1>10. CASE RedeemRejected(r)
  <2>1. /\ UNCHANGED <<setup, now, items, serverVars, requests, faultVars>>
        /\ pc[r] = "fetch" /\ Settle(r) /\ TokenToRedeem(r) # lastToken
    BY <1>1, <1>10 DEF RedeemRejected
  <2>2. Ends(r) /\ Others(r)
    BY <1>1, <2>1, TypesOfReaders, SettleDoes
  <2>3. cached'[r] = NoItem /\ pc'[r] # "insert" /\ items' = items /\ lastToken' = lastToken
    BY <2>1, <2>2 DEF Ends, serverVars
  <2>4. NewestToken'
    <3>1. Tokens' \subseteq Tokens
      BY <1>5, <2>2, <2>3, TokensOthers
    <3> QED BY <1>1, <1>2, <1>3, <2>2, <2>3, <3>1, NewestQuiet
  <2>5. Within => Within'
    <3>1. pc[r] # "insert" /\ ~Renews(r)
      BY <1>1, <2>1 DEF Renews, TokenToRedeem
    <3> QED BY <1>2, <1>5, <2>2, <2>3, <3>1, WithinOthers
  <2> QED BY <1>4, <2>1, <2>4, <2>5
<1>11. CASE RedeemAnswerLost(r)
  <2>1. /\ UNCHANGED <<setup, now, items, requests, failures, restarts>>
        /\ pc[r] = "fetch" /\ Settle(r) /\ lost' = lost + 1
        /\ TokenToRedeem(r) \in redeemable /\ Grant(TokenToRedeem(r))
    BY <1>11 DEF RedeemAnswerLost
  <2>2. Ends(r) /\ Others(r)
    BY <1>1, <2>1, TypesOfReaders, SettleDoes
  <2>3. lastToken' = lastToken + 1 /\ \A s \in Readers : pc[s] # "insert"
    BY <1>1, <2>1, GrantDoes, OneRenewal
  <2>4. cached'[r] = NoItem /\ \A s \in Readers : pc'[s] # "insert"
    BY <1>3, <2>2, <2>3 DEF Ends
  <2>5. \A t \in Tokens' : t <= lastToken'
    <3>1. Tokens' \subseteq Tokens
      BY <1>5, <2>1, <2>2, <2>4, TokensOthers
    <3>2. Tokens \subseteq Int
      <4>1. items[0] \in Seq(Items) /\ cached \in [Readers -> Items \union {NoItem}]
        BY <1>1 DEF TypeOK
      <4>2. \A i \in Items : i.refreshToken \in Int
        BY LookupAssumption DEF Items, MaxToken
      <4> QED BY <4>1, <4>2, ElementOfSeq DEF Tokens
    <3>3. \A t \in Tokens : t <= lastToken
      BY <1>1 DEF NewestToken
    <3> QED BY <1>1, <2>3, <3>1, <3>2, <3>3
  <2>6. ~Undisturbed'
    <3>1. lost \in Nat
      BY <1>1, LookupAssumption DEF TypeOK
    <3> QED BY <2>1, <3>1 DEF Undisturbed
  <2> QED BY <2>4, <2>5, <2>6 DEF NewestToken
<1>12. CASE Insert(r)
  <2> DEFINE k == KeyOf(Head(todo[r]))
             i == Stored(item[r])
  <2>1. k = 0 /\ lastToken' = lastToken
    BY <1>1, <1>12 DEF Insert, serverVars
  <2>2. /\ pc[r] = "insert" /\ Others(r) /\ Advances(r) /\ item[r] \in Items
        /\ items' = [items EXCEPT ![k] = AfterInsert(k, item[r])]
    BY <1>1, <1>12, InsertDoes
  <2> HIDE DEF k
  <2>3. /\ items'[0] = IF Appends THEN Append(items[0], i) ELSE <<i>>
        /\ i.refreshToken = item[r].refreshToken /\ i \in Items
    BY <1>1, <2>1, <2>2, StoredTypes
  <2> HIDE DEF i
  <2>4. i.refreshToken = lastToken /\ \A s \in Readers : pc[s] = "insert" => s = r
    BY <1>1, <2>2, <2>3 DEF NewestToken
  <2>5. /\ \E h \in 1..Len(items'[0]) : items'[0][h] = i
        /\ \A h \in 1..Len(items'[0]) :
              items'[0][h] = i \/ \E g \in 1..Len(items[0]) : items'[0][h] = items[0][g]
    <3>1. CASE Appends
      <4>1. /\ Len(items[0]) \in Nat /\ items'[0] = Append(items[0], i)
            /\ Len(items'[0]) = Len(items[0]) + 1 /\ items'[0][Len(items[0]) + 1] = i
            /\ \A g \in 1..Len(items[0]) : items'[0][g] = items[0][g]
        BY <1>1, <2>3, <3>1, AppendProperties
      <4>2. Len(items[0]) + 1 \in 1..Len(items'[0])
        BY <4>1
      <4>3. \A h \in 1..Len(items'[0]) : h = Len(items[0]) + 1 \/ h \in 1..Len(items[0])
        BY <4>1
      <4> QED BY <4>1, <4>2, <4>3, Zenon
    <3>2. CASE ~Appends
      <4>1. items'[0] = <<i>>
        BY <2>3, <3>2
      <4>2. Len(<<i>>) = 1 /\ <<i>>[1] = i /\ 1 \in 1..1 /\ \A h \in 1..1 : h = 1
        OBVIOUS
      <4> QED BY <4>1, <4>2, Zenon
    <3> QED BY <3>1, <3>2
  <2>6. cached'[r] = NoItem /\ \A s \in Readers : pc'[s] # "insert"
    <3>1. cached'[r] = NoItem /\ pc'[r] # "insert"
      BY <2>2 DEF Advances, Turns, Ends
    <3> QED BY <1>3, <2>2, <2>4, <3>1
  <2>7. NewestToken'
    <3>1. \A t \in Tokens : t <= lastToken
      BY <1>1 DEF NewestToken
    <3>2. lastToken <= lastToken
      BY <1>1
    <3>3. ASSUME NEW h \in 1..Len(items'[0]) PROVE items'[0][h].refreshToken <= lastToken
      BY <2>4, <2>5, <3>1, <3>2 DEF Tokens
    <3>4. ASSUME NEW s \in Readers, cached'[s] # NoItem
          PROVE  cached'[s].refreshToken <= lastToken
      <4>1. s # r /\ cached'[s] = cached[s]
        BY <2>2, <2>6, <3>4 DEF Others
      <4> QED BY <3>1, <3>4, <4>1 DEF Tokens
    <3> QED BY <2>1, <2>6, <3>3, <3>4 DEF NewestToken, Tokens
  <2>8. Within'
    BY <2>1, <2>4, <2>5 DEF Within
  <2> QED BY <2>7, <2>8
<1>13. CASE CallFails(r)
  <2>1. /\ Ends(r) /\ Others(r) /\ items' = items /\ lastToken' = lastToken
        /\ restarts' = restarts /\ lost \in Nat /\ failures \in Nat
        /\ IF pc[r] = "insert" THEN lost' # 0 ELSE lost' = lost /\ failures' # 0
    BY <1>1, <1>13, CallFailsDoes, LookupAssumption DEF CallFails, serverVars, TypeOK
  <2>2. cached'[r] = NoItem /\ pc'[r] # "insert"
    BY <2>1 DEF Ends
  <2>3. NewestToken'
    <3>1. Tokens' \subseteq Tokens
      BY <1>5, <2>1, <2>2, TokensOthers
    <3> QED BY <1>1, <1>2, <1>3, <2>1, <2>2, <3>1, NewestQuiet
  <2>4. Undisturbed' => Within'
    <3> SUFFICES ASSUME Undisturbed' PROVE Within'
      OBVIOUS
    <3>1. setup.backend = "dynamodb" /\ pc[r] # "insert" /\ lost = 0 /\ restarts = 0
      BY <1>2, <2>1 DEF Undisturbed
    <3>2. Within /\ ~Renews(r)
      BY <3>1 DEF TokenKept, Undisturbed, Renews
    <3> QED BY <1>2, <1>5, <2>1, <3>1, <3>2, WithinOthers
  <2> QED BY <2>3, <2>4
<1> QED BY <1>6, <1>7, <1>8, <1>9, <1>10, <1>11, <1>12, <1>13 DEF ReaderStep

LEMMA TokenKeptNext == Sound /\ TokenKept /\ [Next]_vars => TokenKept'
<1> SUFFICES ASSUME Sound, TokenKept, [Next]_vars, setup.rotating
             PROVE  NewestToken' /\ (Undisturbed' => Within')
  <2>1. [Next]_vars => setup' = setup
    BY DEF Next, Request, ReaderStep, Find, Delete, Fetch, Insert, Redeem, RedeemRejected,
           RedeemAnswerLost, CallFails, StoreExpires, Restart, Tick, vars
  <2> QED BY <2>1 DEF TokenKept, NewestToken
<1>1. /\ TypeOK /\ Shape /\ NewestToken
      /\ setup.collection = "tokens" /\ ~ExpiryEnabled /\ 0 \in Keys
  BY RotatingSetup DEF Sound, TokenKept
<1>2. CASE \E r \in Readers : Request(r)
  <2>1. PICK r \in Readers : Request(r)
    BY <1>2
  <2>2. UNCHANGED <<setup, items, lastToken, failures, lost, restarts>>
    BY <2>1 DEF Request, serverVars, faultVars
  <2>3. /\ Others(r) /\ pc[r] = "idle" /\ pc'[r] \notin {"insert"}
        /\ cached'[r] = cached[r] \/ cached'[r] = NoItem
    BY <1>1, <2>1, RequestDoes DEF Turns
  <2>4. /\ \A i \in 1..Len(items'[0]) : \E h \in 1..Len(items[0]) : items'[0][i] = items[0][h]
        /\ \A i \in 1..Len(items[0]) : \E h \in 1..Len(items'[0]) : items'[0][h] = items[0][i]
    BY <2>2
  <2>5. NewestToken'
    <3>1. Tokens' \subseteq Tokens
      BY <2>3, <2>4, TokensOthers
    <3>2. \A s \in Readers : pc'[s] = "insert" => pc[s] = "insert" /\ item'[s] = item[s]
      BY <2>3 DEF Others
    <3> QED BY <1>1, <2>2, <3>1, <3>2, NewestQuiet
  <2>6. Within => Within'
    <3>1. pc[r] # "insert" /\ ~Renews(r)
      BY <2>3 DEF Renews
    <3> QED BY <2>2, <2>3, <2>4, <3>1, WithinOthers
  <2>7. Undisturbed' => Within
    BY <2>2 DEF TokenKept, Undisturbed
  <2> QED BY <2>5, <2>6, <2>7
<1>3. CASE \E r \in Readers : ReaderStep(r)
  BY <1>3, TokenReader
<1>4. CASE \E k \in Keys : StoreExpires(k)
  BY <1>1, <1>4 DEF StoreExpires
<1>5. CASE Restart
  <2>1. /\ \A r \in Readers : pc'[r] = "idle" /\ cached'[r] = NoItem
        /\ items'[0] = items[0] \/ items'[0] = <<>>
        /\ restarts' # 0
    BY <1>1, <1>5, RestartDoes
  <2>2. setup' = setup /\ lastToken' = lastToken
    BY <1>5 DEF Restart, serverVars
  <2>3. Tokens' \subseteq Tokens
    <3>1. \A i : i \notin 1..Len(<<>>)
      OBVIOUS
    <3> QED BY <2>1, <3>1 DEF Tokens
  <2>4. NewestToken'
    BY <1>1, <2>1, <2>2, <2>3, NewestQuiet
  <2> QED BY <2>1, <2>4 DEF Undisturbed
<1>6. CASE Tick \/ UNCHANGED vars
  <2>1. UNCHANGED <<setup, items, pc, cached, item, lastToken, failures, lost, restarts>>
    BY <1>6 DEF Tick, vars, readerVars, serverVars, faultVars
  <2>2. NewestToken'
    BY <1>1, <2>1 DEF NewestToken, Tokens
  <2>3. Undisturbed' => Within'
    BY <2>1 DEF TokenKept, Undisturbed, Within, Renews
  <2> QED BY <2>2, <2>3
<1> QED BY <1>2, <1>3, <1>4, <1>5, <1>6 DEF Next

\* getApiKey with a rotating server: however its callers overlap, the one valid
\* refresh token stays within reach of the next renewal, as long as no value is
\* lost before it is stored; with DynamoDB, whatever call fails.
THEOREM ValidTokenIsKept == Spec => []RefreshTokenIsKept
<1>1. Init => TokenKept
  <2> SUFFICES ASSUME Init PROVE TokenKept
    OBVIOUS
  <2>1. /\ setup \in Setups /\ lastToken = ConfiguredToken
        /\ \A r \in Readers : pc[r] = "idle" /\ cached[r] = NoItem
    BY DEF Init
  <2>2. setup.rotating => 0 \in Keys
    <3>1. setup.rotating => KeyOf(0) = 0 /\ 0 \in -1..MaxDay
      BY <2>1, Days, SetupFields DEF KeyOf
    <3> QED BY <2>1, <3>1, KeysOfDates
  <2>3. setup.rotating => Tokens = {}
    <3>1. \A i : i \notin 1..Len(<<>>)
      OBVIOUS
    <3>2. setup.rotating => items[0] = <<>>
      BY <2>2 DEF Init
    <3> QED BY <2>1, <3>1, <3>2 DEF Tokens
  <2> QED BY <2>1, <2>3 DEF TokenKept, NewestToken, Within
<1>2. Spec => [](Sound /\ TokenKept)
  BY <1>1, SoundInit, SoundNext, TokenKeptNext, PTL DEF Spec
<1>3. Sound /\ TokenKept => RefreshTokenIsKept
  <2> SUFFICES ASSUME Sound, TokenKept, setup.rotating, Undisturbed
               PROVE  redeemable \intersect Reachable # {}
    BY DEF RefreshTokenIsKept, Undisturbed
  <2>1. /\ items[0] \in Seq(Items) /\ redeemable = {lastToken} /\ Within
        /\ \A i \in 1..Len(items[0]) : items[0][i] \in ToSet(items[0])
    <3>1. items[0] \in Seq(Items) /\ redeemable = {lastToken}
      BY RotatingSetup
    <3>2. DOMAIN items[0] = 1..Len(items[0])
      BY <3>1
    <3> QED BY <3>1, <3>2 DEF TokenKept, ToSet
  <2>2. lastToken \in Reachable
    <3>1. CASE lastToken = ConfiguredToken
      BY <3>1 DEF Reachable
    <3>2. CASE \E i \in 1..Len(items[0]) : items[0][i].refreshToken = lastToken
      BY <2>1, <3>2 DEF Reachable
    <3>3. ASSUME NEW r \in Readers, pc[r] = "insert" PROVE lastToken \in Reachable
      <4>1. item[r] # NoItem /\ item[r].refreshToken = lastToken
        BY <3>3 DEF Sound, Shape, ShapeOf, TokenKept, NewestToken
      <4> QED BY <4>1 DEF Reachable
    <3>4. ASSUME NEW r \in Readers, Renews(r) PROVE lastToken \in Reachable
      BY <3>4 DEF Renews, Reachable
    <3> QED BY <2>1, <3>1, <3>2, <3>3, <3>4 DEF Within
  <2> QED BY <2>1, <2>2
<1> QED BY <1>2, <1>3, PTL

-----------------------------------------------------------------------------
(* A step result: what is kept for ever stays.                             *)

KeptIn(k, i) == \E j \in 1..Len(items'[k]) : items'[k][j] = items[k][i]

PermanentDaysStand ==
    /\ setup.collection = "dated" /\ Appends
    /\ restarts' = restarts \/ setup.backend = "mongodb"
    => \A k \in Keys : \A i \in 1..Len(items[k]) :
            items[k][i].expireAt = DO_NOT_EXPIRE => KeptIn(k, i)

\* A day's entries all survive where none is taken out, or only an expired one.
LEMMA TakingTheExpired ==
  ASSUME TypeOK, NEW k \in Keys, NEW j \in 1..Len(items[k]), Expired(items[k][j]),
         items' = [items EXCEPT ![k] = RemoveAt(items[k], j)],
         NEW l \in Keys, NEW i \in 1..Len(items[l]), items[l][i].expireAt = DO_NOT_EXPIRE
  PROVE  KeptIn(l, i)
<1>1. CASE l # k
  <2>1. items'[l] = items[l]
    BY <1>1 DEF TypeOK
  <2> QED BY <2>1 DEF KeptIn
<1>2. CASE l = k
  <2>1. items[k] \in Seq(Items) /\ items'[k] = RemoveAt(items[k], j)
    BY DEF TypeOK
  <2>2. i # j
    BY <1>2 DEF Expired
  <2>3. \E h \in 1..Len(items'[k]) : items'[k][h] = items[k][i]
    BY <1>2, <2>1, <2>2, RemoveAtKeeps
  <2> QED BY <1>2, <2>3 DEF KeptIn
<1> QED BY <1>1, <1>2

LEMMA FindSparesThePermanent ==
  ASSUME TypeOK, Shape, NEW r \in Readers, Find(r),
         NEW l \in Keys, NEW i \in 1..Len(items[l]), items[l][i].expireAt = DO_NOT_EXPIRE
  PROVE  KeptIn(l, i)
<1> DEFINE k == KeyOf(Head(todo[r]))
<1>1. k \in Keys /\ items' = [items EXCEPT ![k] = AfterFind(k)]
  BY FindDoes
<1> HIDE DEF k
<1>2. CASE Evicts(k)
  <2>1. items[k] \in Seq(Items) /\ items[k] # <<>> /\ Expired(Head(items[k]))
    BY <1>1, <1>2 DEF TypeOK, Evicts
  <2>2. 1 \in 1..Len(items[k]) /\ Head(items[k]) = items[k][1]
    BY <2>1, HeadAndTail
  <2>3. Tail(items[k]) = RemoveAt(items[k], 1)
    <3>1. /\ Tail(items[k]) \in Seq(Items) /\ Len(Tail(items[k])) = Len(items[k]) - 1
          /\ \A h \in 1..(Len(items[k]) - 1) : Tail(items[k])[h] = items[k][h + 1]
      BY <2>1, HeadAndTail
    <3>2. /\ RemoveAt(items[k], 1) \in Seq(Items) /\ Len(RemoveAt(items[k], 1)) = Len(items[k]) - 1
          /\ \A h \in 1..(Len(items[k]) - 1) :
                RemoveAt(items[k], 1)[h] = IF h < 1 THEN items[k][h] ELSE items[k][h + 1]
      BY <2>1, <2>2, RemoveAtEffect
    <3>3. \A h \in 1..(Len(items[k]) - 1) : ~(h < 1)
      OBVIOUS
    <3>4. \A h \in 1..Len(Tail(items[k])) : Tail(items[k])[h] = RemoveAt(items[k], 1)[h]
      BY <3>1, <3>2, <3>3
    <3> QED BY <3>1, <3>2, <3>4, SeqEqual
  <2>4. items' = [items EXCEPT ![k] = RemoveAt(items[k], 1)] /\ Expired(items[k][1])
    BY <1>1, <1>2, <2>1, <2>2, <2>3 DEF AfterFind
  <2> QED BY <1>1, <2>2, <2>4, TakingTheExpired
<1>3. CASE ~Evicts(k)
  <2>1. items'[l] = items[l]
    BY <1>1, <1>3 DEF AfterFind, TypeOK
  <2> QED BY <2>1 DEF KeptIn
<1> QED BY <1>2, <1>3

LEMMA InsertSparesThePermanent ==
  ASSUME TypeOK, Shape, Appends, NEW r \in Readers, Insert(r),
         NEW l \in Keys, NEW i \in 1..Len(items[l])
  PROVE  KeptIn(l, i)
<1> DEFINE k == KeyOf(Head(todo[r]))
<1>1. k \in Keys /\ items' = [items EXCEPT ![k] = AfterInsert(k, item[r])]
  BY InsertDoes
<1> HIDE DEF k
<1>2. AfterInsert(k, item[r]) = Append(items[k], Stored(item[r]))
  BY DEF AfterInsert
<1>3. CASE l # k
  <2>1. items'[l] = items[l]
    BY <1>1, <1>3 DEF TypeOK
  <2> QED BY <2>1 DEF KeptIn
<1>4. CASE l = k
  <2> DEFINE e == Stored(item[r])
  <2>1. items[k] \in Seq(Items) /\ items'[k] = Append(items[k], e)
    BY <1>1, <1>2 DEF TypeOK
  <2> HIDE DEF e
  <2>2. i \in 1..Len(Append(items[k], e)) /\ Append(items[k], e)[i] = items[k][i]
    BY <1>4, <2>1
  <2> QED BY <1>4, <2>1, <2>2 DEF KeptIn
<1> QED BY <1>3, <1>4

\* The date walker keeps a past day for ever: in the stores that append (db/inmem,
\* db/mongo) no lookup, eviction, concurrent insertion, failure or restart takes
\* such an entry away again; the in-memory store loses it with its process only.
THEOREM PermanentDaysStay == Spec => [][PermanentDaysStand]_vars
<1>1. Sound /\ [Next]_vars => PermanentDaysStand
  <2> SUFFICES ASSUME Sound, [Next]_vars, setup.collection = "dated", Appends,
                      restarts' = restarts \/ setup.backend = "mongodb",
                      NEW k \in Keys, NEW i \in 1..Len(items[k]),
                      items[k][i].expireAt = DO_NOT_EXPIRE
               PROVE  KeptIn(k, i)
    BY DEF PermanentDaysStand
  <2>1. TypeOK /\ Shape
    BY DEF Sound
  <2>2. items' = items => KeptIn(k, i)
    BY DEF KeptIn
  <2>3. CASE \E r \in Readers : Request(r)
    BY <2>2, <2>3 DEF Request
  <2>4. ASSUME NEW r \in Readers, ReaderStep(r) PROVE KeptIn(k, i)
    <3>1. CASE Find(r)
      BY <2>1, <3>1, FindSparesThePermanent
    <3>2. CASE Delete(r)
      <4>1. pc[r] # "delete"
        BY <2>1 DEF Shape, ShapeOf
      <4> QED BY <3>2, <4>1 DEF Delete
    <3>3. CASE Insert(r)
      BY <2>1, <3>3, InsertSparesThePermanent
    <3>4. CASE Fetch(r) \/ Redeem(r) \/ RedeemRejected(r) \/ RedeemAnswerLost(r) \/ CallFails(r)
      BY <2>2, <3>4 DEF Fetch, Redeem, RedeemRejected, RedeemAnswerLost, CallFails
    <3> QED BY <2>4, <3>1, <3>2, <3>3, <3>4 DEF ReaderStep
  <2>5. ASSUME NEW l \in Keys, StoreExpires(l) PROVE KeptIn(k, i)
    <3>1. PICK j \in 1..Len(items[l]) :
            Expired(items[l][j]) /\ items' = [items EXCEPT ![l] = RemoveAt(items[l], j)]
      BY <2>5 DEF StoreExpires
    <3> QED BY <2>1, <3>1, TakingTheExpired
  <2>6. CASE Restart
    <3>1. restarts' # restarts
      BY <2>1, <2>6 DEF Restart, TypeOK
    <3>2. items' = items
      BY <2>6, <3>1 DEF Restart
    <3> QED BY <2>2, <3>2
  <2>7. CASE Tick \/ UNCHANGED vars
    BY <2>2, <2>7 DEF Tick, vars
  <2> QED BY <2>3, <2>4, <2>5, <2>6, <2>7 DEF Next
<1> QED BY <1>1, SoundInit, SoundNext, PTL DEF Spec
=============================================================================
