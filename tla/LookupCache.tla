----------------------------- MODULE LookupCache -----------------------------
(***************************************************************************)
(* The lookup cache of the backend: AbstractDatastore.findOrInsertOne over *)
(* its four stores, as used by the date walker (one entry per day), by the *)
(* cached version control calls (repository lists, files) and by the OAuth *)
(* tokens of remote servers.  Every await of findOrInsertOneInternal is a  *)
(* step of its own, so readers overlap between lookup, deletion, fetch and *)
(* insertion.  A fetched value is represented by the time it was fetched   *)
(* at and whether the fetch really returned the remote's data.             *)
(***************************************************************************)
EXTENDS Integers, Sequences, SequencesExt, FiniteSets

CONSTANTS
    Readers,        \* concurrent callers
    NoReader,       \* no query in flight
    NoItem,         \* null
    DayLength,      \* ticks of the clock in a day
    ItemTtl,        \* expireAfterSeconds and ttlIfToday, in ticks
    TokenLife,      \* lifetime of an access token, in ticks
    MaxNow,         \* bound: end of the clock
    MaxRequests,    \* bound: requests
    MaxFaults       \* bound: failing calls, lost answers and restarts

ASSUME LookupAssumption ==
    /\ DayLength \in Nat \ {0}
    /\ ItemTtl \in Nat \ {0} /\ TokenLife \in Nat \ {0}
    /\ MaxNow \in Nat /\ MaxRequests \in Nat
    /\ MaxFaults \in Nat
    /\ IsFiniteSet(Readers) /\ NoReader \notin Readers

DO_NOT_EXPIRE == -1

VARIABLES
    setup,      \* what the environment variables and the caller fix
    now,        \* the clock
    items,      \* the collection: key -> stored items, oldest first
    pc,         \* reader -> the await it stands at
    todo,       \* reader -> the dates it still has to look up
    ttl,        \* reader -> ttl chosen when its current call began
    cached,     \* reader -> what the lookup returned
    item,       \* reader -> what the populator returned
    vcsQueries, \* the reader running the shared repository query
    redeemable, \* refresh tokens the authorization server accepts
    lastToken,  \* number of the last refresh token it issued
    requests,   \* number of requests so far
    failures,   \* number of failed calls, and of answers without data
    lost,       \* number of fetched values lost before they were stored
    restarts    \* number of restarts of the process

readerVars == <<pc, todo, ttl, cached, item, vcsQueries>>
serverVars == <<redeemable, lastToken>>
faultVars  == <<failures, lost, restarts>>
vars == <<setup, now, items, readerVars, serverVars, requests, faultVars>>

(* Offsets from UTC the process may run with. *)
Offsets     == (1 - DayLength)..(DayLength - 1)
Backends    == {"inmem", "localdb", "dynamodb", "mongodb"}
Collections == {"dated", "repos", "files", "tokens"}
Setups == { s \in [backend: Backends, collection: Collections, offset: Offsets,
                   cacheEnabled: BOOLEAN, rotating: BOOLEAN] :
              /\ s.cacheEnabled \/ s.backend = "inmem"
              /\ s.rotating => s.collection = "tokens"
              /\ s.offset # 0 => s.collection = "dated" }

ConfiguredToken == 1
MoreFaults == failures + lost + restarts < MaxFaults
MaxToken == MaxRequests + 1
MaxDay   == MaxNow \div DayLength
Keys     == -2..(MaxDay + 1)
Items    == [asOf: 0..MaxNow, ok: BOOLEAN, refreshToken: 0..MaxToken,
             expireAt: {DO_NOT_EXPIRE} \union 0..(MaxNow + ItemTtl)]
ASSUME NoItemAssumption == NoItem \notin Items

Appends == setup.backend \in {"inmem", "mongodb"}
StoreEnabled  == setup.collection = "tokens" \/ setup.cacheEnabled
ExpiryEnabled == setup.collection # "tokens"
ExpireAfter   == IF setup.collection \in {"repos", "files"} THEN ItemTtl
                                                           ELSE DO_NOT_EXPIRE

-----------------------------------------------------------------------------
(* Calendar: a date is the UTC midnight that begins it, and the process     *)
(* truncates instants to days of its own time zone.                         *)

LocalDate(instant) == (instant + setup.offset) \div DayLength

\* Mutant: the walk takes one day too many.
WalkDates_OneMore(start, end) ==
    LET first == LocalDate(start * DayLength)
    IN  [i \in 1..(LocalDate(end * DayLength) - first + 2) |-> first + i - 1]

WalkDates(start, end) ==
    LET first == LocalDate(start * DayLength)
        days  == LocalDate(end * DayLength) - first
    IN  [i \in 1..(days + 1) |-> first + i - 1]

KeyOf(date) == IF setup.collection = "dated" THEN LocalDate(date * DayLength) ELSE 0
\* Mutant: yesterday's midnight instead of today's.
IsToday_DayBefore(date) == LocalDate(date * DayLength) = LocalDate(now) - 1

IsToday(date) == LocalDate(date * DayLength) = LocalDate(now)

(* buildBehaviour: the ttl of the call, fixed before the lookup.            *)
TtlFor(date) ==
    IF setup.collection = "dated" /\ IsToday(date) THEN ItemTtl ELSE ExpireAfter

-----------------------------------------------------------------------------
(* The four stores.                                                         *)

Expired(i) == i.expireAt # DO_NOT_EXPIRE /\ i.expireAt <= now

LooksAtExpiry == ExpiryEnabled /\ setup.backend \in {"inmem", "localdb"}

(* findOne: the oldest match; in-memory and local stores evict it lazily.   *)
Evicts(k) == items[k] # <<>> /\ LooksAtExpiry /\ Expired(Head(items[k]))
FoundIn(k) == IF items[k] = <<>> \/ Evicts(k) THEN NoItem ELSE Head(items[k])
\* Mutant: an expired item is reported as missing but stays.
AfterFind_NoEviction(k) == items[k]

AfterFind(k) == IF Evicts(k) THEN Tail(items[k]) ELSE items[k]

\* Mutant: the item is deleted by its key, whichever item is stored by now.
AfterDelete_ByKey(k, i) == IF items[k] = <<>> THEN <<>> ELSE Tail(items[k])

(* deleteOne(cached): DynamoDB builds the key from the whole item, which is *)
(* the key of no item.                                                      *)
AfterDelete(k, i) == IF setup.backend = "dynamodb" THEN items[k]
                     ELSE RemoveFirst(items[k], i)

(* insertOne: the local store gives items without expiry the store's own    *)
(* expireAfterSeconds, which is -1 s where only ttlIfToday is configured.   *)
Stored(i) ==
    IF /\ setup.backend = "localdb" /\ ExpiryEnabled
       /\ i.expireAt = DO_NOT_EXPIRE
    THEN [i EXCEPT !.expireAt = IF ExpireAfter = DO_NOT_EXPIRE THEN now
                                                               ELSE now + ExpireAfter]
    ELSE i
AfterInsert(k, i) == IF Appends THEN Append(items[k], Stored(i)) ELSE <<Stored(i)>>

(* The validators: a token must not have expired, a cached version control  *)
(* answer must hold a value, a day's entry only has to exist.               *)
Valid(i) ==
    /\ i # NoItem
    /\ setup.collection = "tokens" => now < i.asOf + TokenLife
    /\ setup.collection = "files" => i.ok

-----------------------------------------------------------------------------
Init ==
    /\ setup \in Setups
    /\ now = 0
    /\ items = [k \in Keys |-> <<>>]
    /\ pc = [r \in Readers |-> "idle"]
    /\ todo = [r \in Readers |-> <<>>]
    /\ ttl = [r \in Readers |-> DO_NOT_EXPIRE]
    /\ cached = [r \in Readers |-> NoItem]
    /\ item = [r \in Readers |-> NoItem]
    /\ vcsQueries = NoReader
    /\ redeemable = {ConfiguredToken}
    /\ lastToken = ConfiguredToken
    /\ requests = 0 /\ failures = 0 /\ lost = 0 /\ restarts = 0

(* The reader's next findOrInsertOne call, on the first date of dates.      *)
Begin(r, dates) ==
    /\ todo' = [todo EXCEPT ![r] = dates]
    /\ ttl' = [ttl EXCEPT ![r] = TtlFor(Head(dates))]
    /\ cached' = [cached EXCEPT ![r] = NoItem]
    /\ item' = [item EXCEPT ![r] = NoItem]
    /\ pc' = [pc EXCEPT ![r] = IF StoreEnabled THEN "find" ELSE "fetch"]

\* Mutant: the running query is not looked up.
ActiveQuery_None == NoReader

(* readThroughCacheSingleton: readers of a running query share its promise. *)
ActiveQuery == vcsQueries
\* Mutant: the readers sharing a query are not resumed.
Sharing_Nobody(r) == {}

Sharing(r) == IF vcsQueries = r THEN {s \in Readers : pc[s] = "join"} ELSE {}

(* The reader's promise settles, and with it the one other readers share.   *)
Settle(r) ==
    LET done == {r} \union Sharing(r)
    IN  /\ pc' = [s \in Readers |-> IF s \in done THEN "idle" ELSE pc[s]]
        /\ todo' = [todo EXCEPT ![r] = <<>>]
        /\ cached' = [cached EXCEPT ![r] = NoItem]
        /\ item' = [item EXCEPT ![r] = NoItem]
        /\ ttl' = [ttl EXCEPT ![r] = DO_NOT_EXPIRE]
        /\ vcsQueries' = IF vcsQueries = r THEN NoReader ELSE vcsQueries

(* The current call returned: on to the next date, or settle.               *)
Proceed(r) == IF Len(todo[r]) > 1 THEN Begin(r, Tail(todo[r])) /\ UNCHANGED vcsQueries
                                  ELSE Settle(r)

Request(r) ==
    /\ pc[r] = "idle" /\ requests < MaxRequests
    /\ requests' = requests + 1
    /\ \/ /\ setup.collection = "dated"
          /\ \E start, end \in 0..MaxDay :
                /\ start <= end /\ end * DayLength <= now
                /\ Begin(r, WalkDates(start, end))
          /\ UNCHANGED vcsQueries
       \/ /\ setup.collection \in {"files", "tokens"}
          /\ Begin(r, <<0>>)
          /\ UNCHANGED vcsQueries
       \/ /\ setup.collection = "repos" /\ ActiveQuery = NoReader
          /\ vcsQueries' = r
          /\ Begin(r, <<0>>)
       \/ /\ setup.collection = "repos" /\ ActiveQuery # NoReader
          /\ pc' = [pc EXCEPT ![r] = "join"]
          /\ UNCHANGED <<todo, ttl, cached, item, vcsQueries>>
    /\ UNCHANGED <<setup, now, items, serverVars, faultVars>>

Find(r) ==
    LET k == KeyOf(Head(todo[r]))
    IN  /\ pc[r] = "find"
        /\ items' = [items EXCEPT ![k] = AfterFind(k)]
        /\ IF Valid(FoundIn(k)) THEN Proceed(r)
           ELSE /\ cached' = [cached EXCEPT ![r] = FoundIn(k)]
                /\ pc' = [pc EXCEPT ![r] = IF FoundIn(k) = NoItem THEN "fetch" ELSE "delete"]
                /\ UNCHANGED <<todo, ttl, item, vcsQueries>>
        /\ UNCHANGED <<setup, now, serverVars, requests, faultVars>>

Delete(r) ==
    LET k == KeyOf(Head(todo[r]))
    IN  /\ pc[r] = "delete"
        /\ items' = [items EXCEPT ![k] = AfterDelete(k, cached[r])]
        /\ pc' = [pc EXCEPT ![r] = "fetch"]
        /\ UNCHANGED <<setup, now, todo, ttl, cached, item, vcsQueries, serverVars,
                       requests, faultVars>>

(* The populator's answer: to be inserted with its expiry, or returned.     *)
Populated(r, ok, token) ==
    IF StoreEnabled
    THEN /\ item' = [item EXCEPT ![r] =
                [asOf |-> now, ok |-> ok, refreshToken |-> token,
                 expireAt |-> IF ttl[r] = DO_NOT_EXPIRE THEN DO_NOT_EXPIRE ELSE now + ttl[r]]]
         /\ pc' = [pc EXCEPT ![r] = "insert"]
         /\ UNCHANGED <<todo, ttl, cached, vcsQueries>>
    ELSE Proceed(r)

(* The remote answers.  ok = FALSE is an answer that holds no data: the     *)
(* provider caught the failure and returned an empty list or null.          *)
Fetch(r) ==
    /\ pc[r] = "fetch" /\ setup.collection # "tokens"
    /\ \/ /\ Populated(r, TRUE, 0)
          /\ UNCHANGED failures
       \/ /\ MoreFaults
          /\ failures' = failures + 1
          /\ Populated(r, FALSE, 0)
    /\ UNCHANGED <<setup, now, items, serverVars, requests, lost, restarts>>

(* obtainTokens: the cached refresh token if there is one, otherwise the    *)
(* configured one.  A rotating server replaces it with every use.           *)
TokenToRedeem(r) == IF cached[r] # NoItem /\ cached[r].refreshToken # 0
                    THEN cached[r].refreshToken ELSE ConfiguredToken

Grant(t) ==
    IF setup.rotating
    THEN /\ lastToken' = lastToken + 1
         /\ redeemable' = (redeemable \ {t}) \union {lastToken + 1}
    ELSE UNCHANGED serverVars

Redeem(r) ==
    /\ pc[r] = "fetch" /\ setup.collection = "tokens"
    /\ TokenToRedeem(r) \in redeemable
    /\ Grant(TokenToRedeem(r))
    /\ Populated(r, TRUE, IF setup.rotating THEN lastToken + 1 ELSE 0)
    /\ UNCHANGED <<setup, now, items, requests, faultVars>>

RedeemRejected(r) ==
    /\ pc[r] = "fetch" /\ setup.collection = "tokens"
    /\ TokenToRedeem(r) \notin redeemable
    /\ Settle(r)
    /\ UNCHANGED <<setup, now, items, serverVars, requests, faultVars>>

(* The server granted new tokens and its answer never arrived.              *)
RedeemAnswerLost(r) ==
    /\ pc[r] = "fetch" /\ setup.collection = "tokens"
    /\ TokenToRedeem(r) \in redeemable /\ MoreFaults
    /\ lost' = lost + 1
    /\ Grant(TokenToRedeem(r))
    /\ Settle(r)
    /\ UNCHANGED <<setup, now, items, requests, failures, restarts>>

Insert(r) ==
    LET k == KeyOf(Head(todo[r]))
    IN  /\ pc[r] = "insert"
        /\ items' = [items EXCEPT ![k] = AfterInsert(k, item[r])]
        /\ Proceed(r)
        /\ UNCHANGED <<setup, now, serverVars, requests, faultVars>>

(* A call of the store, or of the remote before it acted, fails: the error  *)
(* is thrown to the caller, whatever was deleted or fetched before.         *)
CallFails(r) ==
    /\ \/ /\ pc[r] \in {"find", "delete", "fetch"} /\ MoreFaults
          /\ failures' = failures + 1
          /\ UNCHANGED lost
       \/ /\ pc[r] = "insert" /\ MoreFaults
          /\ lost' = lost + 1
          /\ UNCHANGED failures
    /\ Settle(r)
    /\ UNCHANGED <<setup, now, items, serverVars, requests, restarts>>

(* DynamoDB's and MongoDB's time-to-live process, whenever they like.       *)
StoreExpires(k) ==
    /\ ExpiryEnabled /\ setup.backend \in {"dynamodb", "mongodb"}
    /\ \E i \in 1..Len(items[k]) :
          /\ Expired(items[k][i])
          /\ items' = [items EXCEPT ![k] = RemoveAt(@, i)]
    /\ UNCHANGED <<setup, now, readerVars, serverVars, requests, faultVars>>

Restart ==
    /\ MoreFaults
    /\ restarts' = restarts + 1
    /\ items' = IF setup.backend = "inmem" THEN [k \in Keys |-> <<>>] ELSE items
    /\ pc' = [r \in Readers |-> "idle"]
    /\ todo' = [r \in Readers |-> <<>>]
    /\ cached' = [r \in Readers |-> NoItem]
    /\ item' = [r \in Readers |-> NoItem]
    /\ ttl' = [r \in Readers |-> DO_NOT_EXPIRE]
    /\ vcsQueries' = NoReader
    /\ UNCHANGED <<setup, now, serverVars, requests, failures, lost>>

Tick ==
    /\ now < MaxNow
    /\ now' = now + 1
    /\ UNCHANGED <<setup, items, readerVars, serverVars, requests, faultVars>>

ReaderStep(r) ==
    \/ Find(r) \/ Delete(r) \/ Fetch(r) \/ Insert(r)
    \/ Redeem(r) \/ RedeemRejected(r) \/ RedeemAnswerLost(r) \/ CallFails(r)

Next ==
    \/ \E r \in Readers : Request(r) \/ ReaderStep(r)
    \/ \E k \in Keys : StoreExpires(k)
    \/ Restart
    \/ Tick

(* The event loop and the remotes come back to every pending call; clients, *)
(* the clock, the stores' expiry and restarts are not obliged to act.       *)
Fairness == \A r \in Readers : WF_vars(ReaderStep(r))

Spec == Init /\ [][Next]_vars /\ Fairness
-----------------------------------------------------------------------------
(* Type correctness: the shapes findOrInsertOneInternal, the stores and the *)
(* token server keep their data in.                                         *)
TypeOK ==
    /\ setup \in Setups
    /\ now \in 0..MaxNow
    /\ items \in [Keys -> Seq(Items)]
    /\ pc \in [Readers -> {"idle", "join", "find", "delete", "fetch", "insert"}]
    /\ todo \in [Readers -> Seq(-1..MaxDay)]
    /\ ttl \in [Readers -> {DO_NOT_EXPIRE, ItemTtl}]
    /\ cached \in [Readers -> Items \union {NoItem}]
    /\ item \in [Readers -> Items \union {NoItem}]
    /\ vcsQueries \in Readers \union {NoReader}
    /\ redeemable \subseteq 1..MaxToken
    /\ lastToken \in 1..MaxToken
    /\ requests \in 0..MaxRequests
    /\ failures \in 0..MaxFaults /\ lost \in 0..MaxFaults
    /\ restarts \in 0..MaxFaults

(* buildBehaviour keeps a day for ever once it is no longer today: what is  *)
(* kept for ever was fetched after the day's last event could happen, so no *)
(* query is answered from half a day.  It relies on a process that does not *)
(* run ahead of UTC, and on requests for days that have begun.              *)
PermanentDayIsComplete ==
    setup.collection = "dated" /\ setup.offset <= 0 =>
        \A date \in -1..MaxDay : \A i \in ToSet(items[KeyOf(date)]) :
            i.ok /\ i.expireAt = DO_NOT_EXPIRE => i.asOf >= (date + 1) * DayLength

(* readThroughCacheSingleton: readers of a repository list wait for one     *)
(* running query, which is the one on record, and never store it twice.     *)
OneSharedQuery ==
    setup.collection = "repos" =>
        /\ \A r \in Readers : pc[r] \notin {"idle", "join"} => vcsQueries = r
        /\ vcsQueries # NoReader => pc[vcsQueries] \notin {"idle", "join"}
        /\ Len(items[0]) <= 1

(* Concurrent misses of a day insert it once each in the stores that append *)
(* (db/inmem, db/mongo): copies never accumulate beyond the readers.        *)
Fetching(k) == { r \in Readers : pc[r] \in {"fetch", "insert"} /\ KeyOf(Head(todo[r])) = k }
CopiesAreBounded ==
    setup.collection = "dated" /\ StoreEnabled =>
        \A k \in Keys :
            /\ Len(items[k]) + Cardinality(Fetching(k)) <= Cardinality(Readers)
            /\ ~Appends => Len(items[k]) <= 1

(* A server that rotates refresh tokens accepts only the newest.  However   *)
(* callers of getApiKey overlap, that one stays within reach of the next    *)
(* renewal: stored, with a caller about to store it, or configured.  Where  *)
(* the expired item is deleted first, a failing renewal may lose it.        *)
Reachable ==
    {ConfiguredToken} \union { i.refreshToken : i \in ToSet(items[0]) }
    \union { i.refreshToken : i \in ({ item[r] : r \in Readers }
                                \union { cached[r] : r \in Readers }) \ {NoItem} }
RefreshTokenIsKept ==
    /\ setup.rotating /\ lost = 0 /\ restarts = 0
    /\ failures = 0 \/ setup.backend = "dynamodb"
    => redeemable \intersect Reachable # {}

(* Every caller of the cache, and every reader sharing another's query, is  *)
(* answered or gets an error.                                               *)
Answered == \A r \in Readers : pc[r] # "idle" ~> pc[r] = "idle"
=============================================================================
