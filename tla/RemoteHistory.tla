---------------------------- MODULE RemoteHistory ----------------------------
(***************************************************************************)
(* How the backend reads the history of a remote system: the pipeline      *)
(* runs, commits, pull requests or issues of a range of days, a page at a  *)
(* time, while that history goes on.  The providers differ in how they cut *)
(* the range into requests, page through a list that changes between two   *)
(* pages, select what belongs to the range, cache, and fail.  One query    *)
(* runs at a time: two that meet in the cache are LookupCache's subject.   *)
(* The process runs in UTC and its store looks at expiry.                  *)
(***************************************************************************)
EXTENDS Integers, FiniteSets, FiniteSetsExt

CONSTANTS
    NumThings,      \* bound: runs, commits, pull requests or issues
    PageSize,       \* entries of a page
    MaxCommits,     \* MAX_COMMITS_PER_DAY: Azure reads on no further that day
    DayLength,      \* ticks of the clock in a day
    TodayTtl,       \* ttlIfToday, in ticks
    MaxNow,         \* bound: end of the clock
    MaxQueries,     \* bound: queries
    MaxFailures     \* bound: failing requests

ASSUME HistoryAssumption ==
    /\ NumThings \in Nat /\ PageSize \in Nat \ {0} /\ MaxCommits \in Nat \ {0}
    /\ DayLength \in Nat \ {0} /\ TodayTtl \in Nat \ {0}
    /\ MaxNow \in Nat /\ MaxQueries \in Nat /\ MaxFailures \in Nat

NotYet == -1        \* a thing that is not created, or still in progress
Never  == -1        \* an entry that does not expire

VARIABLES
    provider,   \* which service answers
    now,        \* the clock
    created,    \* thing -> when it began
    closed,     \* thing -> when it ended
    status,     \* of the query
    query,      \* its first and last day, and when it began
    builds,     \* Jenkins: number of the job's last build
    windows,    \* spans of days still to be read
    began,      \* when the call for the earliest of them began
    cursor,     \* how far that one has been read
    gathered,   \* thing -> how often its pages held it
    result,     \* thing -> how often the query has collected it
    cache,      \* span of days -> what is stored for it
    forgiven,   \* spans cut short with no more than a warning in the log
    queries,    \* number of queries so far
    failures    \* number of failed requests so far

remoteVars == <<now, created, closed>>
readVars   == <<windows, began, cursor, gathered>>
vars == <<provider, remoteVars, status, query, builds, readVars, result, cache,
          forgiven, queries, failures>>

-----------------------------------------------------------------------------
(* The providers.  walk: a request per day, for the whole range, or for     *)
(* each gap of the cache.  sieves: the remote lists everything and the code *)
(* selects.  forgives: what a logged failure of a page leaves.  details:    *)
(* each item needs a request of its own.  instant: complete when created.   *)

ByDay ==
    [walk |-> "days", cached |-> TRUE, paging |-> "link", sieves |-> FALSE, window |-> "closed",
     forgives |-> "no", details |-> FALSE, instant |-> FALSE]
WholeRange == [ByDay EXCEPT !.walk = "range", !.cached = FALSE]
Moments == [ByDay EXCEPT !.window = "touched", !.forgives = "empty", !.instant = TRUE]

GithubRuns   == [ByDay EXCEPT !.window = "started"]
AzureRuns    == [ByDay EXCEPT !.window = "finished", !.paging = "token"]
CodePipeline == [WholeRange EXCEPT !.window = "within", !.paging = "token", !.sieves = TRUE]
Jenkins      == [WholeRange EXCEPT !.window = "stamped", !.paging = "number"]
Dynatrace    == [Moments EXCEPT !.paging = "whole"]

GithubCommits    == [Moments EXCEPT !.details = TRUE]
AzureCommits     == [Moments EXCEPT !.paging = "short"]
BitbucketCommits == [Moments EXCEPT !.window = "inside", !.paging = "until", !.sieves = TRUE,
                                    !.forgives = "partial"]

GithubPRs    == [ByDay EXCEPT !.sieves = TRUE, !.forgives = "empty", !.details = TRUE]
AzurePRs     == [ByDay EXCEPT !.sieves = TRUE, !.paging = "short"]
BitbucketPRs == [ByDay EXCEPT !.sieves = TRUE, !.forgives = "partial", !.details = TRUE]

GithubIssues == [WholeRange EXCEPT !.window = "resolved", !.cached = TRUE, !.sieves = TRUE,
                              !.forgives = "empty"]
AzureIssues  == [ByDay EXCEPT !.walk = "gaps", !.paging = "whole", !.forgives = "empty"]
Jira         == [WholeRange EXCEPT !.window = "resolved"]
ServiceNow   == [WholeRange EXCEPT !.window = "after", !.paging = "empty"]

Profile ==
  [githubRuns |-> GithubRuns, azureRuns |-> AzureRuns, codePipeline |-> CodePipeline,
   jenkins |-> Jenkins, dynatrace |-> Dynatrace,
   githubCommits |-> GithubCommits, azureCommits |-> AzureCommits,
   bitbucketCommits |-> BitbucketCommits,
   githubPRs |-> GithubPRs, azurePRs |-> AzurePRs, bitbucketPRs |-> BitbucketPRs,
   githubIssues |-> GithubIssues, azureIssues |-> AzureIssues, jira |-> Jira,
   serviceNow |-> ServiceNow]

Providers == DOMAIN Profile
p == Profile[provider]

Things == 1..NumThings
Day(t) == t \div DayLength
Today  == Day(now)
Days   == 0..Day(MaxNow)
Spans  == { s \in [first: Days, last: Days] : s.first <= s.last }
Started(t) == created[t] # NotYet
Ended(t)   == closed[t] # NotYet

(* Counts of things.                                                        *)
Nothing    == [t \in Things |-> 0]
Add(f, g)  == [t \in Things |-> f[t] + g[t]]
Seen(f)    == { t \in Things : f[t] > 0 }
NoEntry    == [things |-> Nothing, asOf |-> 0, expireAt |-> -2]
NoQuery    == [first |-> 0, last |-> 0, begun |-> 0]

-----------------------------------------------------------------------------
(* The span being read is the earliest one left.                            *)
Current == CHOOSE s \in windows : \A o \in windows : s.first <= o.first

(* What a request selects: thing t and the days of s.                       *)

Midnight(d) == d * DayLength

Since(t, s)  == created[t] >= Midnight(s.first)
Before(t, s) == created[t] < Midnight(s.last + 1)

(* Azure lists what completed in the day, and the code excludes what began  *)
(* before it.                                                               *)
Completed(t, s) == Ended(t) /\ closed[t] \in Midnight(s.first)..Midnight(s.last + 1)
\* Mutant: builds that began before the day are not excluded.
Finished_AnyStart(t, s) == Completed(t, s)
Finished(t, s) == Completed(t, s) /\ Since(t, s)

(* CodePipeline: until the end of a single day, or the last one's midnight. *)
Within(t, s) ==
    /\ Ended(t) /\ Since(t, s)
    /\ IF s.first = s.last THEN closed[t] < Midnight(s.last + 1)
                           ELSE closed[t] <= Midnight(s.last)

(* GitHub's runs by the day they began, Jenkins' until the last midnight.   *)
Began(t, s)   == Ended(t) /\ Since(t, s) /\ Before(t, s)
Stamped(t, s) == Ended(t) /\ Since(t, s) /\ created[t] <= Midnight(s.last)

(* Commits and events, the following midnight included; Bitbucket leaves    *)
(* both midnights out.                                                      *)
Touched(t, s) == Since(t, s) /\ created[t] <= Midnight(s.last + 1)
Inside(t, s)  == created[t] > Midnight(s.first) /\ Before(t, s)

(* Pull requests and issues by their end.  What ServiceNow leaves out of    *)
(* the last day, its last second, is shorter than a tick.                   *)
ClosedIn(t, s) == Ended(t) /\ closed[t] \in Midnight(s.first)..(Midnight(s.last + 1) - 1)
Resolved(t, s) == Ended(t) /\ closed[t] \in Midnight(s.first)..Midnight(s.last)
After(t, s)    == Ended(t) /\ closed[t] \in Midnight(s.first + 1)..(Midnight(s.last + 1) - 1)

Selects(t, s) ==
    /\ Started(t)
    /\ \/ p.window = "started"  /\ Began(t, s)
       \/ p.window = "finished" /\ Finished(t, s)
       \/ p.window = "within"   /\ Within(t, s)
       \/ p.window = "stamped"  /\ Stamped(t, s)
       \/ p.window = "touched"  /\ Touched(t, s)
       \/ p.window = "inside"   /\ Inside(t, s)
       \/ p.window = "closed"   /\ ClosedIn(t, s)
       \/ p.window = "resolved" /\ Resolved(t, s)
       \/ p.window = "after"    /\ After(t, s)

(* The list the remote pages through, as it is at the moment, and its order:*)
(* newest first, GitHub's pull requests and ServiceNow's issues oldest      *)
(* first.                                                                   *)
Listed(s) ==
    { t \in Things : IF p.sieves THEN Started(t) /\ (p.window = "closed" => Ended(t))
                     ELSE \/ Selects(t, s)
                          \/ p.window = "finished" /\ Started(t) /\ Completed(t, s) }
Precedes(t, u) == IF provider \in {"githubPRs", "serviceNow"} THEN t < u ELSE t > u
Rank(t, list)  == Cardinality({ u \in list : Precedes(u, t) })

(* What lies before the page: the items up to the last one read (a token),  *)
(* or as many as have been read.                                            *)
Skipped(list) ==
    IF p.paging = "token" THEN Cardinality({ t \in list : cursor # 0 /\ t >= cursor })
                          ELSE cursor

(* The page at the cursor, or a build by its number.                        *)
Page(list) ==
    IF p.paging = "number" THEN {cursor + 1}
    ELSE IF p.paging = "whole" THEN list
    ELSE { t \in list : Rank(t, list) \in Skipped(list)..(Skipped(list) + PageSize - 1) }

\* Mutant: a full page ends the list.
IsLast_WhenFull(list, page) == p.paging # "number" \/ cursor + 1 = builds

(* Azure's limit on the commits of a day, and whether it leaves any out.    *)
AtLimit(page) == provider = "azureCommits" /\ cursor + Cardinality(page) >= MaxCommits
CutShort(list, page) == AtLimit(page) /\ cursor + Cardinality(page) < Cardinality(list)

(* The remote says so (no next link or token, the total is reached), or the *)
(* code concludes it from a page that is not full, that is empty, or that   *)
(* ends before the span, or it has read as much as it cares to.             *)
IsLast(list, page) ==
    \/ p.paging = "whole"
    \/ p.paging = "number" /\ cursor + 1 = builds
    \/ p.paging \in {"link", "until"} /\ cursor + Cardinality(page) >= Cardinality(list)
    \/ p.paging = "until" /\ page # {} /\ ~Since(Min(page), Current)
    \/ p.paging = "token" /\ (page = {} \/ \A t \in list : t >= Min(page))
    \/ p.paging = "short" /\ Cardinality(page) < PageSize
    \/ p.paging = "empty" /\ page = {}
    \/ AtLimit(page)

\* Mutant: the position is not advanced.
NextCursor_Stays(page) == cursor

NextCursor(page) == IF p.paging = "token" THEN Min(page) ELSE cursor + Cardinality(page)

-----------------------------------------------------------------------------
Init ==
    /\ provider \in Providers
    /\ now = 0
    /\ created = [t \in Things |-> NotYet]
    /\ closed = [t \in Things |-> NotYet]
    /\ status = "idle" /\ query = NoQuery
    /\ builds = 0
    /\ windows = {} /\ began = 0 /\ cursor = 0
    /\ gathered = Nothing /\ result = Nothing
    /\ cache = [s \in Spans |-> NoEntry]
    /\ forgiven = {}
    /\ queries = 0 /\ failures = 0

\* Mutant: the next span is read from where the last one ended.
TurnTo_KeepsPosition(ss) ==
    /\ windows' = ss
    /\ began' = IF ss = {} THEN 0 ELSE now
    /\ gathered' = Nothing /\ UNCHANGED cursor

(* Turns to the spans ss: the first one's call begins, which fixes its ttl. *)
TurnTo(ss) ==
    /\ windows' = ss
    /\ began' = IF ss = {} THEN 0 ELSE now
    /\ cursor' = 0 /\ gathered' = Nothing

DayOf(d) == [first |-> d, last |-> d]

(* Azure issues: a past day is served from the cache, the days between two  *)
(* cached ones are read at once; the last day is not part of the range.     *)
Hit(d) == d < Today /\ cache[DayOf(d)] # NoEntry
Gaps(first, last) ==
    LET missing == { d \in first..(last - 1) : ~Hit(d) }
    IN  { s \in Spans : /\ s.first..s.last \subseteq missing
                        /\ {s.first - 1, s.last + 1} \cap missing = {} }
Cached(first, last) ==
    [t \in Things |-> LET hits == { d \in first..(last - 1) : Hit(d) }
                      IN  IF \E d \in hits : cache[DayOf(d)].things[t] > 0 THEN 1 ELSE 0]

Spread(first, last) ==
    IF p.walk = "days" THEN { DayOf(d) : d \in first..last }
    ELSE IF p.walk = "gaps" THEN Gaps(first, last)
    ELSE {[first |-> first, last |-> last]}

(* A query covers the days from first until today (todayDateOnly).          *)
Begin(first) ==
    LET last == Today IN
    /\ status = "idle" /\ queries < MaxQueries
    /\ queries' = queries + 1
    /\ status' = "running"
    /\ query' = [first |-> first, last |-> last, begun |-> now]
    /\ builds' = IF p.paging = "number" THEN Cardinality({ t \in Things : Started(t) }) ELSE 0
    /\ TurnTo(Spread(first, last))
    /\ result' = IF p.walk = "gaps" THEN Cached(first, last) ELSE Nothing
    /\ forgiven' = IF p.walk = "gaps" THEN {} ELSE forgiven
    /\ UNCHANGED <<provider, remoteVars, cache, failures>>

(* Decided when the call begins, counted from the insertion.                *)
ExpireAt(s) == IF Day(began) = s.first THEN now + TodayTtl ELSE Never

(* The entries the cache gets for span s.  Azure issues are stored day by   *)
(* day, the days before the query's own one only.                           *)
StoredIn(s, things) ==
    IF ~p.cached THEN cache
    ELSE IF p.walk = "gaps"
    THEN [c \in Spans |->
            IF c.first = c.last /\ c.first \in s.first..s.last /\ c.first < Day(query.begun)
            THEN [things |-> [t \in Things |-> IF Day(closed[t]) = c.first THEN things[t] ELSE 0],
                  asOf |-> began, expireAt |-> Never]
            ELSE cache[c]]
    ELSE [cache EXCEPT ![s] = [things |-> things, asOf |-> began,
                              expireAt |-> ExpireAt(s)]]

(* The span is read: its things join the result, the next one is turned to. *)
Complete(s, things, cut) ==
    /\ result' = Add(result, things)
    /\ cache' = StoredIn(s, things)
    /\ forgiven' = IF cut THEN forgiven \union {s} ELSE forgiven \ {s}
    /\ TurnTo(windows \ {Current})
    /\ UNCHANGED status

Reading == status = "running" /\ windows # {}
Fresh(s) == /\ p.cached /\ p.walk # "gaps" /\ cursor = 0
            /\ cache[s] # NoEntry
            /\ cache[s].expireAt = Never \/ now < cache[s].expireAt

ServeCached ==
    /\ Reading /\ Fresh(Current)
    /\ result' = Add(result, cache[Current].things)
    /\ TurnTo(windows \ {Current})
    /\ UNCHANGED <<provider, remoteVars, status, query, builds, cache, forgiven, queries,
                   failures>>

(* A job without builds has no first and last build, and the query fails.   *)
NoBuilds == p.paging = "number" /\ builds = 0

(* Reads one page.  GitHub issues are counted once, whichever page they are *)
(* on.                                                                      *)
ReadPage ==
    /\ Reading /\ ~Fresh(Current) /\ ~NoBuilds
    /\ LET s    == Current
           list == Listed(s)
           page == Page(list)
           kept == [t \in Things |-> IF t \in page /\ Selects(t, s) THEN 1 ELSE 0]
           all  == [t \in Things |->
                       IF provider = "githubIssues" /\ gathered[t] > 0 THEN 1
                       ELSE gathered[t] + kept[t]]
       IN  IF IsLast(list, page) THEN Complete(s, all, CutShort(list, page))
           ELSE /\ gathered' = all
                /\ cursor' = NextCursor(page)
                /\ UNCHANGED <<status, windows, began, result, cache, forgiven>>
    /\ UNCHANGED <<provider, remoteVars, query, builds, queries, failures>>

(* A request fails: the query does, or, for a page, a warning is logged and *)
(* the span is taken to hold what was read of it (Bitbucket), or nothing -  *)
(* and stored as such, by all but the Azure issues.                         *)
Fail ==
    /\ Reading /\ ~Fresh(Current)
    /\ \/ NoBuilds /\ UNCHANGED failures
       \/ failures < MaxFailures /\ failures' = failures + 1
    /\ \/ /\ p.forgives = "no" \/ p.details
          /\ status' = "failed"
          /\ TurnTo({})
          /\ UNCHANGED <<result, cache, forgiven>>
       \/ /\ p.forgives # "no"
          /\ LET s    == Current
                 left == IF p.forgives = "partial" THEN gathered ELSE Nothing
             IN  /\ result' = Add(result, left)
                 /\ cache' = IF p.walk = "gaps" THEN cache ELSE StoredIn(s, left)
                 /\ forgiven' = forgiven \union {s}
          /\ TurnTo(windows \ {Current})
          /\ UNCHANGED status
    /\ UNCHANGED <<provider, remoteVars, query, builds, queries>>

Finish ==
    /\ status = "running" /\ windows = {}
    /\ status' = "done"
    /\ UNCHANGED <<provider, remoteVars, query, builds, readVars, result, cache, forgiven,
                   queries, failures>>

(* The caller takes the answer.                                             *)
Deliver ==
    /\ status \in {"done", "failed"}
    /\ status' = "idle" /\ query' = NoQuery /\ builds' = 0
    /\ result' = Nothing
    /\ UNCHANGED <<provider, remoteVars, readVars, cache, forgiven, queries, failures>>

(* The remote's history goes on, as far as a query can still see it.        *)
Seeable == Reading \/ (status = "idle" /\ queries < MaxQueries)

(* Pull requests and issues are selected by their end: when they began is   *)
(* not told apart.                                                          *)
ByEnd == p.window \in {"closed", "resolved", "after"}

Create(t) ==
    /\ Seeable
    /\ ~Started(t) /\ \A u \in 1..(t - 1) : Started(u)
    /\ created' = [created EXCEPT ![t] = IF ByEnd THEN 0 ELSE now]
    /\ closed' = IF p.instant THEN [closed EXCEPT ![t] = now] ELSE closed
    /\ UNCHANGED <<provider, now, status, query, builds, readVars, result, cache, forgiven,
                   queries, failures>>

(* A run takes time, and so does an issue.                                  *)
Close(t) ==
    /\ Seeable
    /\ Started(t) /\ ~Ended(t) /\ created[t] < now
    /\ closed' = [closed EXCEPT ![t] = now]
    /\ UNCHANGED <<provider, now, created, status, query, builds, readVars, result, cache,
                   forgiven, queries, failures>>

Tick ==
    /\ Seeable /\ now < MaxNow
    /\ now' = now + 1
    /\ UNCHANGED <<provider, created, closed, status, query, builds, readVars, result, cache,
                   forgiven, queries, failures>>

QueryStep == ServeCached \/ ReadPage \/ Fail \/ Finish \/ Deliver

Next ==
    \/ \E first \in Days : first <= Today /\ Begin(first)
    \/ ServeCached \/ ReadPage \/ Fail \/ Finish \/ Deliver
    \/ \E t \in Things : Create(t) \/ Close(t)
    \/ Tick

Spec == Init /\ [][Next]_vars /\ WF_vars(QueryStep)

-----------------------------------------------------------------------------
(* The figures of the days first..last: the deployments that began on a day *)
(* - a run that was collected twice counts twice - and, for a day of the    *)
(* walk that has any, the share of them that failed or, incidents being     *)
(* reported that day, may have.                                             *)

Collected(things) == UNION { {t} \X (1..result[t]) : t \in things }
DeploymentsOn(d, things) ==
    Cardinality({ run \in Collected(things) : Day(created[run[1]]) = d })

DeploymentFrequency == [d \in { Day(created[t]) : t \in Seen(result) } |->
                            DeploymentsOn(d, Seen(result))]

\* Mutant: the walk over the days leaves out the last one.
ChangeFailureRate_LastDayMissing(failing, incidents, first, last) ==
    [d \in { e \in first..(last - 1) : DeploymentsOn(e, Things) > 0 } |->
        LET all == DeploymentsOn(d, Things)
        IN  [of |-> all, failed |-> Min({all, incidents[d] + DeploymentsOn(d, failing)})]]

ChangeFailureRate(failing, incidents, first, last) ==
    [d \in { e \in first..last : DeploymentsOn(e, Things) > 0 } |->
        LET all == DeploymentsOn(d, Things)
        IN  [of |-> all, failed |-> Min({all, incidents[d] + DeploymentsOn(d, failing)})]]

-----------------------------------------------------------------------------
(* Types, and where a query stands.                                         *)
TypeOK ==
    /\ provider \in Providers
    /\ now \in 0..MaxNow
    /\ created \in [Things -> {NotYet} \union 0..now]
    /\ closed \in [Things -> {NotYet} \union 0..now]
    /\ \A t \in Things : Ended(t) => Started(t) /\ created[t] <= closed[t]
    /\ status \in {"idle", "running", "done", "failed"}
    /\ query.first <= query.last /\ query.last <= Today /\ query.begun <= now
    /\ builds \in 0..NumThings
    /\ windows \subseteq Spans /\ began <= now
    /\ cursor \in 0..NumThings
    /\ DOMAIN gathered = Things /\ DOMAIN result = Things
    /\ DOMAIN cache = Spans
    /\ \A s \in Spans : cache[s].expireAt \in {-2, Never} \union 0..(MaxNow + TodayTtl)
    /\ forgiven \subseteq Spans
    /\ queries \in 0..MaxQueries /\ failures \in 0..MaxFailures
    /\ status # "running" => windows = {} /\ cursor = 0

(* The days of s the provider answers for: not the last one where the range *)
(* ends at its midnight, not the first one at ServiceNow.                   *)
AnsweredDays(s) ==
    IF p.window = "after" THEN (s.first + 1)..s.last
    ELSE IF \/ p.window \in {"stamped", "resolved"}
            \/ p.window = "within" /\ s.first < s.last
    THEN s.first..(s.last - 1)
    ELSE s.first..s.last

(* ... and of the query: the day walk of the Azure issues leaves out the    *)
(* last one.                                                                *)
QueriedDays == { d \in AnsweredDays(query) : p.walk = "gaps" => d < query.last }

(* Whether t happened on day d; a run only if it began and ended that day,  *)
(* a Bitbucket commit only after the day's midnight.                        *)
HappenedOn(t, d) ==
    /\ Ended(t) /\ Day(closed[t]) = d
    /\ ByEnd \/ Day(created[t]) = d
    /\ p.window = "inside" => created[t] # Midnight(d)

(* What the answer for day d is based on: the call that stored it, if any,  *)
(* and whether a logged failure or the limit cut that one short.            *)
EntryFor(d) == IF p.walk = "range" THEN cache[[first |-> query.first, last |-> query.last]]
                                   ELSE cache[DayOf(d)]
KnownUntil(d) == IF p.cached THEN EntryFor(d).asOf ELSE query.begun
Forgiven(d) ==
    IF p.walk = "range" THEN [first |-> query.first, last |-> query.last] \in forgiven
                        ELSE \E s \in forgiven : d \in s.first..s.last

(* What is settled is reported: when a query is answered, everything that   *)
(* happened on one of its days, and had ended before the call that read the *)
(* day began, is in the answer - however the pages shifted and the cache    *)
(* was filled meanwhile - and a day is only kept for good if that call      *)
(* began after it was over.  Days that were cut short, and logged, excepted.*)
SettledIsReported ==
    status = "done" =>
        \A d \in QueriedDays :
            ~Forgiven(d) =>
                /\ \A t \in Things :
                      HappenedOn(t, d) /\ closed[t] < KnownUntil(d) => result[t] > 0
                /\ p.cached /\ EntryFor(d).expireAt = Never => KnownUntil(d) >= Midnight(d + 1)

(* Nothing is counted twice by the providers that read a span at once, by   *)
(* token or by number, or drop what they have seen: figures add up the      *)
(* things of all days, and a day's midnight belongs to two requests.        *)
CountedOnce ==
    p.paging \in {"token", "number"} \/ provider \in {"githubIssues", "azureIssues"}
        => \A t \in Things : result[t] <= 1

(* Every failed deployment shows: the days with a deployment frequency are  *)
(* those with a change failure rate, which is a share of as many, and the   *)
(* rate is positive exactly where a deployment failed or, on a day with     *)
(* deployments, an incident was created.                                    *)
FailuresShow ==
    status = "done" /\ provider \in {"githubRuns", "azureRuns", "codePipeline", "jenkins"} =>
        \A failing \in SUBSET Seen(result), incident \in Days :
            LET incidents == [d \in Days |-> IF d = incident THEN 1 ELSE 0]
                rate == ChangeFailureRate(failing, incidents, query.first, query.last)
            IN  /\ DOMAIN rate = DOMAIN DeploymentFrequency
                /\ \A d \in DOMAIN rate :
                      /\ rate[d].of = DeploymentFrequency[d]
                      /\ rate[d].failed > 0 <=> \/ d = incident
                                                \/ \E t \in failing : Day(created[t]) = d

(* Every query is answered, with its data or with an error: the paging      *)
(* loops end although the lists they page through grow.                     *)
Answered == (status = "running") ~> (status \in {"done", "failed"})
=============================================================================
