------------------------- MODULE RemoteHistory_proofs -------------------------
(***************************************************************************)
(* Proofs about RemoteHistory, for any number of things, page size, length *)
(* of a day, queries and failing requests, and for every provider: type    *)
(* correctness, that what is settled is reported although pages shift and  *)
(* days come from the cache, that nothing is counted twice where the code  *)
(* can promise it, and that the figures agree on the days.                 *)
(***************************************************************************)
EXTENDS RemoteHistory, FiniteSetTheorems, WellFoundedInduction, TLAPS

-----------------------------------------------------------------------------
(* Least and greatest elements.                                              *)

\* A nonempty set of naturals has a least element, which Min returns.
LEMMA LeastElement ==
  ASSUME NEW I \in SUBSET Nat, I # {}
  PROVE  Min(I) \in I /\ \A y \in I : Min(I) <= y
<1> DEFINE R == OpToRel(<, Nat)
<1>1. IsWellFoundedOn(R, Nat)
  BY NatLessThanWellFounded
<1>2. \A x, y \in Nat : y < x => <<y, x>> \in R
  BY DEF OpToRel
<1> HIDE DEF R
<1>3. \E x \in I : \A y \in I : ~(<<y, x>> \in R)
  <2>1. I \subseteq Nat /\ I # {}
    OBVIOUS
  <2> QED BY <1>1, <2>1, WFMin, Zenon
<1>4. \E x \in I : \A y \in I : x <= y
  <2>1. PICK x \in I : \A y \in I : ~(<<y, x>> \in R)
    BY <1>3
  <2>2. ASSUME NEW y \in I PROVE x <= y
    <3>1. x \in Nat /\ y \in Nat /\ ~(y < x)
      BY <1>2, <2>1, Zenon
    <3> QED BY <3>1
  <2> QED BY <2>2
<1> QED BY <1>4, Zenon DEF Min

\* A nonempty bounded set of naturals has a greatest one.
LEMMA GreatestElement ==
  ASSUME NEW b \in Nat, NEW I \in SUBSET (0..b), I # {}
  PROVE  \E m \in I : \A y \in I : y <= m
<1> DEFINE J == {b - i : i \in I}
<1>1. J \in SUBSET Nat /\ J # {}
  <2>1. \A i \in I : b - i \in Nat
    OBVIOUS
  <2> QED BY <2>1
<1>2. PICK j \in J : \A y \in J : j <= y
  BY <1>1, LeastElement
<1>3. PICK m \in I : j = b - m
  BY <1>2
<1>4. ASSUME NEW y \in I PROVE y <= m
  <2>1. b - y \in J
    OBVIOUS
  <2>2. b - m <= b - y
    BY <1>2, <1>3, <2>1
  <2> QED BY <2>2
<1> QED BY <1>4

-----------------------------------------------------------------------------
(* Days and their midnights.                                                 *)

LEMMA Constants ==
  /\ NumThings \in Nat /\ PageSize \in Nat \ {0} /\ DayLength \in Nat \ {0}
  /\ TodayTtl \in Nat \ {0} /\ MaxNow \in Nat /\ MaxQueries \in Nat /\ MaxFailures \in Nat
BY HistoryAssumption

LEMMA MulLe ==
  ASSUME NEW b \in Nat \ {0}, NEW x \in Int, NEW y \in Int, x <= y
  PROVE  x * b <= y * b
OBVIOUS

LEMMA MulLt ==
  ASSUME NEW b \in Nat \ {0}, NEW x \in Int, NEW y \in Int, x * b < (y + 1) * b
  PROVE  x <= y
OBVIOUS

LEMMA Midnights ==
  /\ \A d \in Int : Midnight(d) \in Int
  /\ \A d, e \in Int : d <= e => Midnight(d) <= Midnight(e)
  /\ \A d \in Int : Midnight(d) < Midnight(d + 1)
  /\ \A d \in Nat : Midnight(d) >= 0
<1>1. DayLength \in Nat \ {0}
  BY Constants
<1>2. \A d \in Int : Midnight(d) \in Int
  BY <1>1 DEF Midnight
<1>3. ASSUME NEW d \in Int, NEW e \in Int, d <= e PROVE Midnight(d) <= Midnight(e)
  BY <1>1, <1>3, MulLe DEF Midnight
<1>4. ASSUME NEW d \in Int PROVE Midnight(d) < Midnight(d + 1)
  <2>1. (d + 1) * DayLength = d * DayLength + DayLength
    BY <1>1
  <2>2. d * DayLength \in Int
    BY <1>1
  <2> QED BY <1>1, <2>1, <2>2 DEF Midnight
<1>5. ASSUME NEW d \in Nat PROVE Midnight(d) >= 0
  <2>1. Midnight(0) = 0
    BY <1>1 DEF Midnight
  <2>2. Midnight(0) <= Midnight(d)
    BY <1>3
  <2> QED BY <2>1, <2>2
<1> QED BY <1>2, <1>3, <1>4, <1>5

\* A moment lies between the midnights of its day, and of no other.
LEMMA DayOfMoment ==
  ASSUME NEW t \in Nat
  PROVE  /\ Day(t) \in Nat
         /\ Midnight(Day(t)) <= t /\ t < Midnight(Day(t) + 1)
         /\ \A d \in Int : Midnight(d) <= t /\ t < Midnight(d + 1) => Day(t) = d
<1>1. DayLength \in Nat \ {0}
  BY Constants
<1>2. /\ Day(t) \in Int
      /\ Day(t) * DayLength <= t /\ t < (Day(t) + 1) * DayLength
  BY <1>1 DEF Day
<1>3. Day(t) >= 0
  <2>1. 0 * DayLength < (Day(t) + 1) * DayLength
    BY <1>1, <1>2
  <2> QED BY <1>1, <1>2, <2>1, MulLt
<1>4. ASSUME NEW d \in Int, Midnight(d) <= t, t < Midnight(d + 1) PROVE Day(t) = d
  <2>1. d * DayLength < (Day(t) + 1) * DayLength /\ Day(t) * DayLength < (d + 1) * DayLength
    BY <1>1, <1>2, <1>4 DEF Midnight
  <2>2. d <= Day(t) /\ Day(t) <= d
    BY <1>1, <1>2, <2>1, MulLt
  <2> QED BY <1>2, <2>2
<1> QED BY <1>2, <1>3, <1>4 DEF Midnight

LEMMA DaysGoOn ==
  ASSUME NEW t \in Nat, NEW u \in Nat, t <= u
  PROVE  Day(t) <= Day(u)
<1>1. /\ Midnight(Day(t)) <= t /\ u < Midnight(Day(u) + 1)
      /\ Day(t) \in Nat /\ Day(u) \in Nat
  BY DayOfMoment
<1>2. CASE Day(u) + 1 <= Day(t)
  <2>1. Midnight(Day(u) + 1) <= Midnight(Day(t))
    BY <1>1, <1>2, Midnights
  <2>2. Midnight(Day(u) + 1) \in Int /\ Midnight(Day(t)) \in Int
    BY <1>1, Midnights
  <2>3. Midnight(Day(u) + 1) <= u
    BY <1>1, <2>1, <2>2
  <2> QED BY <1>1, <2>2, <2>3
<1> QED BY <1>1, <1>2

LEMMA DaysAndSpans ==
  /\ Days \subseteq Nat
  /\ \A t \in 0..MaxNow : Day(t) \in Days
  /\ \A s \in Spans : s.first \in Days /\ s.last \in Days /\ s.first <= s.last /\ s.first \in Nat /\ s.last \in Nat
  /\ \A d \in Days : DayOf(d) \in Spans /\ DayOf(d).first = d /\ DayOf(d).last = d
<1>1. Day(MaxNow) \in Nat /\ MaxNow \in Nat
  BY Constants, DayOfMoment
<1>2. Days \subseteq Nat
  BY <1>1 DEF Days
<1>3. ASSUME NEW t \in 0..MaxNow PROVE Day(t) \in Days
  BY <1>1, <1>3, DaysGoOn, DayOfMoment DEF Days
<1>4. ASSUME NEW d \in Days PROVE DayOf(d) \in Spans /\ DayOf(d).first = d /\ DayOf(d).last = d
  BY <1>2 DEF Spans, DayOf
<1>5. ASSUME NEW s \in Spans PROVE s.first \in Days /\ s.last \in Days /\ s.first <= s.last
  BY <1>5 DEF Spans
<1> QED BY <1>2, <1>3, <1>4, <1>5

-----------------------------------------------------------------------------
(* What the providers have in common.                                        *)

\* The providers that read a span at once, by token or by number, or drop what
\* they have seen.
Once == p.paging \in {"token", "number"} \/ provider \in {"githubIssues", "azureIssues"}

\* The traits q of provider n, as far as the proofs depend on them.
Traits(n, q) ==
  /\ q.walk \in {"days", "range", "gaps"}
  /\ q.paging \in {"link", "until", "token", "number", "whole", "short", "empty"}
  /\ q.window \in {"started", "finished", "within", "stamped", "touched", "inside",
                   "closed", "resolved", "after"}
  /\ q.instant <=> q.window \in {"touched", "inside"}
  /\ q.walk = "gaps" <=> n = "azureIssues"
  /\ q.walk = "gaps" => q.window = "closed" /\ q.cached /\ q.paging = "whole"
  /\ q.walk # "range" => q.window \notin {"stamped", "resolved", "after", "within"}
  /\ q.walk = "range" /\ q.cached => q.window = "resolved"
  /\ ~q.cached => q.walk = "range" /\ q.forgives = "no"
  /\ q.paging \in {"token", "until"} => n \notin {"githubPRs", "serviceNow"}
  /\ q.paging = "until" => q.window = "inside"
  /\ q.paging = "number" => q.walk = "range" /\ q.window = "stamped" /\ ~q.cached
  /\ q.paging = "token" => q.walk = "range" \/ q.window = "finished"
  /\ n = "githubIssues" => q.walk = "range"
  /\ n \in {"githubRuns", "azureRuns", "codePipeline", "jenkins"} =>
       q.window \in {"started", "finished", "within", "stamped"}
  /\ n = "azureCommits" => q.walk = "days" /\ q.paging = "short" /\ q.forgives = "empty"

LEMMA ProviderTraits ==
  ASSUME provider \in Providers
  PROVE  Traits(provider, p)
<1> USE DEF Traits
<1>1. provider \in {"githubRuns", "azureRuns", "codePipeline", "jenkins", "dynatrace",
                    "githubCommits", "azureCommits", "bitbucketCommits", "githubPRs", "azurePRs",
                    "bitbucketPRs", "githubIssues", "azureIssues", "jira", "serviceNow"}
  BY DEF Providers, Profile
<1> DEFINE R == [walk : {"days", "range", "gaps"}, cached : BOOLEAN,
                 paging : {"link", "until", "token", "number", "whole", "short", "empty"},
                 sieves : BOOLEAN,
                 window : {"started", "finished", "within", "stamped", "touched", "inside",
                           "closed", "resolved", "after"},
                 forgives : {"no", "empty", "partial"}, details : BOOLEAN, instant : BOOLEAN]
<1>2. /\ ByDay \in R
      /\ ByDay.walk = "days" /\ ByDay.cached /\ ByDay.paging = "link" /\ ByDay.window = "closed"
      /\ ByDay.forgives = "no" /\ ~ByDay.instant
  BY DEF ByDay
<1>3. /\ WholeRange \in R
      /\ WholeRange.walk = "range" /\ ~WholeRange.cached /\ WholeRange.paging = "link"
      /\ WholeRange.window = "closed" /\ WholeRange.forgives = "no" /\ ~WholeRange.instant
  BY <1>2 DEF WholeRange
<1>4. /\ Moments \in R
      /\ Moments.walk = "days" /\ Moments.cached /\ Moments.paging = "link"
      /\ Moments.window = "touched" /\ Moments.forgives = "empty" /\ Moments.instant
  BY <1>2 DEF Moments
<1>5. CASE provider = "githubRuns"
  <2>1. p = GithubRuns
    BY <1>5 DEF p, Profile
  <2> QED BY <1>2, <1>5, <2>1 DEF GithubRuns
<1>6. CASE provider = "azureRuns"
  <2>1. p = AzureRuns
    BY <1>6 DEF p, Profile
  <2> QED BY <1>2, <1>6, <2>1 DEF AzureRuns
<1>7. CASE provider = "codePipeline"
  <2>1. p = CodePipeline
    BY <1>7 DEF p, Profile
  <2> QED BY <1>3, <1>7, <2>1 DEF CodePipeline
<1>8. CASE provider = "jenkins"
  <2>1. p = Jenkins
    BY <1>8 DEF p, Profile
  <2> QED BY <1>3, <1>8, <2>1 DEF Jenkins
<1>9. CASE provider = "dynatrace"
  <2>1. p = Dynatrace
    BY <1>9 DEF p, Profile
  <2> QED BY <1>4, <1>9, <2>1 DEF Dynatrace
<1>10. CASE provider = "githubCommits"
  <2>1. p = GithubCommits
    BY <1>10 DEF p, Profile
  <2> QED BY <1>4, <1>10, <2>1 DEF GithubCommits
<1>11. CASE provider = "azureCommits"
  <2>1. p = AzureCommits
    BY <1>11 DEF p, Profile
  <2> QED BY <1>4, <1>11, <2>1 DEF AzureCommits
<1>12. CASE provider = "bitbucketCommits"
  <2>1. p = BitbucketCommits
    BY <1>12 DEF p, Profile
  <2> QED BY <1>4, <1>12, <2>1 DEF BitbucketCommits
<1>13. CASE provider = "githubPRs"
  <2>1. p = GithubPRs
    BY <1>13 DEF p, Profile
  <2> QED BY <1>2, <1>13, <2>1 DEF GithubPRs
<1>14. CASE provider = "azurePRs"
  <2>1. p = AzurePRs
    BY <1>14 DEF p, Profile
  <2> QED BY <1>2, <1>14, <2>1 DEF AzurePRs
<1>15. CASE provider = "bitbucketPRs"
  <2>1. p = BitbucketPRs
    BY <1>15 DEF p, Profile
  <2> QED BY <1>2, <1>15, <2>1 DEF BitbucketPRs
<1>16. CASE provider = "githubIssues"
  <2>1. p = GithubIssues
    BY <1>16 DEF p, Profile
  <2> QED BY <1>3, <1>16, <2>1 DEF GithubIssues
<1>17. CASE provider = "azureIssues"
  <2>1. p = AzureIssues
    BY <1>17 DEF p, Profile
  <2> QED BY <1>2, <1>17, <2>1 DEF AzureIssues
<1>18. CASE provider = "jira"
  <2>1. p = Jira
    BY <1>18 DEF p, Profile
  <2> QED BY <1>3, <1>18, <2>1 DEF Jira
<1>19. CASE provider = "serviceNow"
  <2>1. p = ServiceNow
    BY <1>19 DEF p, Profile
  <2> QED BY <1>3, <1>19, <2>1 DEF ServiceNow
<1> QED BY <1>1, <1>5, <1>6, <1>7, <1>8, <1>9, <1>10, <1>11, <1>12, <1>13, <1>14, <1>15, <1>16, <1>17, <1>18, <1>19

-----------------------------------------------------------------------------
(* Positions in a list and the chunks it is read in.                         *)

LEMMA ListsAreFinite ==
  ASSUME NEW list \in SUBSET Things
  PROVE  IsFiniteSet(list) /\ Cardinality(list) \in Nat /\ Cardinality(list) <= NumThings
<1>1. IsFiniteSet(Things) /\ Cardinality(Things) = NumThings
  BY Constants, FS_Interval DEF Things
<1>2. IsFiniteSet(list) /\ Cardinality(list) <= Cardinality(Things)
  BY <1>1, FS_Subset
<1> QED BY <1>1, <1>2, FS_CardinalityType

LEMMA Order ==
  /\ Things \subseteq Nat \ {0}
  /\ \A t, u \in Things : t # u => Precedes(t, u) \/ Precedes(u, t)
  /\ \A t \in Things : ~Precedes(t, t)
  /\ \A t, u, v \in Things : Precedes(t, u) /\ Precedes(u, v) => Precedes(t, v)
BY Constants DEF Things, Precedes

LEMMA RankBounds ==
  ASSUME NEW list \in SUBSET Things, NEW t \in list
  PROVE  Rank(t, list) \in Nat /\ Rank(t, list) < Cardinality(list)
<1> DEFINE Prior == {u \in list : Precedes(u, t)}
<1>1. IsFiniteSet(list) /\ Cardinality(list) \in Nat
  BY ListsAreFinite
<1>2. Prior \in SUBSET list /\ t \notin Prior
  BY Order
<1> HIDE DEF Prior
<1>3. /\ IsFiniteSet(Prior) /\ Cardinality(Prior) <= Cardinality(list)
      /\ Cardinality(list) = Cardinality(Prior) => list = Prior
  BY <1>1, <1>2, FS_Subset
<1>4. Cardinality(Prior) \in Nat /\ Cardinality(Prior) # Cardinality(list)
  BY <1>2, <1>3, FS_CardinalityType
<1> QED BY <1>1, <1>3, <1>4 DEF Rank, Prior

LEMMA RankGrows ==
  ASSUME NEW list \in SUBSET Things, NEW longer \in SUBSET Things, list \subseteq longer,
         NEW t \in Things
  PROVE  Rank(t, list) \in Nat /\ Rank(t, longer) \in Nat /\ Rank(t, list) <= Rank(t, longer)
<1> DEFINE Prior == {u \in list : Precedes(u, t)}
           More == {u \in longer : Precedes(u, t)}
<1>1. IsFiniteSet(More) /\ IsFiniteSet(Prior) /\ Cardinality(Prior) \in Nat /\ Cardinality(More) \in Nat
  BY ListsAreFinite
<1>2. Prior \in SUBSET More
  OBVIOUS
<1> HIDE DEF Prior, More
<1>3. Cardinality(Prior) <= Cardinality(More)
  BY <1>1, <1>2, FS_Subset
<1> QED BY <1>1, <1>3 DEF Rank, Prior, More

LEMMA RankOrders ==
  ASSUME NEW list \in SUBSET Things, NEW t \in list, NEW u \in list, Precedes(u, t)
  PROVE  Rank(u, list) < Rank(t, list)
<1> DEFINE PriorT == {v \in list : Precedes(v, t)}
           PriorU == {v \in list : Precedes(v, u)}
<1>1. IsFiniteSet(PriorT) /\ Cardinality(PriorT) \in Nat
  BY ListsAreFinite
<1>2. PriorU \in SUBSET PriorT /\ u \in PriorT /\ u \notin PriorU
  BY Order
<1> HIDE DEF PriorT, PriorU
<1>3. /\ IsFiniteSet(PriorU) /\ Cardinality(PriorU) <= Cardinality(PriorT)
      /\ Cardinality(PriorU) # Cardinality(PriorT)
  BY <1>1, <1>2, FS_Subset
<1>4. Cardinality(PriorU) \in Nat
  BY <1>3, FS_CardinalityType
<1> QED BY <1>1, <1>3, <1>4 DEF Rank, PriorT, PriorU

LEMMA RankIsInjective ==
  ASSUME NEW list \in SUBSET Things, NEW t \in list, NEW u \in list, Rank(t, list) = Rank(u, list)
  PROVE  t = u
<1>1. Rank(t, list) \in Nat
  BY RankBounds
<1>2. CASE Precedes(t, u)
  BY <1>1, <1>2, RankOrders
<1>3. CASE Precedes(u, t)
  BY <1>1, <1>3, RankOrders
<1> QED BY <1>2, <1>3, Order

\* Every position of the list is taken.
LEMMA RankIsOnto ==
  ASSUME NEW list \in SUBSET Things, NEW k \in Nat, k < Cardinality(list)
  PROVE  \E t \in list : Rank(t, list) = k
<1> DEFINE n == Cardinality(list)
           f == [t \in list |-> Rank(t, list)]
<1>1. IsFiniteSet(list) /\ n \in Nat
  BY ListsAreFinite
<1>2. \A t \in list : Rank(t, list) \in 0..(n - 1)
  BY <1>1, RankBounds
<1>3. f \in Injection(list, 0..(n - 1))
  <2>1. f \in [list -> 0..(n - 1)]
    BY <1>2
  <2>2. IsInjective(f)
    BY RankIsInjective DEF IsInjective
  <2> QED BY <2>1, <2>2 DEF Injection
<1>4. IsFiniteSet(0..(n - 1)) /\ Cardinality(0..(n - 1)) = n
  <2> HIDE DEF n
  <2>1. n - 1 \in Int /\ 0 \in Int
    BY <1>1
  <2>2. IsFiniteSet(0..(n - 1))
        /\ Cardinality(0..(n - 1)) = IF 0 > n - 1 THEN 0 ELSE (n - 1) - 0 + 1
    BY <2>1, FS_Interval
  <2> QED BY <1>1, <2>2
<1>5. f \in Surjection(list, 0..(n - 1))
  <2> HIDE DEF f
  <2> QED BY <1>3, <1>4, FS_Injection DEF n
<1>6. k \in 0..(n - 1)
  BY <1>1
<1> QED BY <1>5, <1>6 DEF Surjection

\* The n items of the list from position k on.
Chunk(list, k, n) == { t \in list : Rank(t, list) \in k..(k + n - 1) }

LEMMA Chunks ==
  ASSUME NEW list \in SUBSET Things, NEW k \in Nat, NEW n \in Nat \ {0}
  PROVE  /\ Cardinality(Chunk(list, k, n)) \in Nat
         /\ Cardinality(Chunk(list, k, n)) <= n
         /\ k <= Cardinality(list) => k + Cardinality(Chunk(list, k, n)) <= Cardinality(list)
         /\ k + n <= Cardinality(list) => Cardinality(Chunk(list, k, n)) = n
         /\ k < Cardinality(list) => Chunk(list, k, n) # {}
<1> DEFINE C == Chunk(list, k, n)
           f == [t \in C |-> Rank(t, list)]
<1>1. C \in SUBSET list /\ IsFiniteSet(C) /\ Cardinality(C) \in Nat /\ Cardinality(list) \in Nat
  BY ListsAreFinite DEF Chunk
<1>2. /\ \A t \in C : Rank(t, list) \in k..(k + n - 1)
      /\ \A t \in C : Rank(t, list) \in k..(Cardinality(list) - 1)
  BY <1>1, RankBounds DEF Chunk
<1>3. /\ IsFiniteSet(k..(k + n - 1)) /\ Cardinality(k..(k + n - 1)) = n
      /\ IsFiniteSet(k..(Cardinality(list) - 1))
      /\ k <= Cardinality(list) => Cardinality(k..(Cardinality(list) - 1)) = Cardinality(list) - k
  <2>1. k \in Int /\ k + n - 1 \in Int /\ Cardinality(list) - 1 \in Int
    BY <1>1
  <2>2. /\ IsFiniteSet(k..(k + n - 1)) /\ IsFiniteSet(k..(Cardinality(list) - 1))
        /\ Cardinality(k..(k + n - 1)) = IF k > k + n - 1 THEN 0 ELSE (k + n - 1) - k + 1
        /\ Cardinality(k..(Cardinality(list) - 1))
             = IF k > Cardinality(list) - 1 THEN 0 ELSE (Cardinality(list) - 1) - k + 1
    BY <2>1, FS_Interval
  <2> QED BY <1>1, <2>2
<1>4. IsInjective(f)
  BY <1>1, RankIsInjective DEF IsInjective
<1>5. f \in Injection(C, k..(k + n - 1)) /\ f \in Injection(C, k..(Cardinality(list) - 1))
  BY <1>2, <1>4 DEF Injection
<1>6. /\ Cardinality(C) <= n
      /\ Cardinality(C) = n <=> f \in Surjection(C, k..(k + n - 1))
  <2> HIDE DEF C, f
  <2>1. /\ Cardinality(C) <= Cardinality(k..(k + n - 1))
        /\ Cardinality(C) = Cardinality(k..(k + n - 1)) <=> f \in Surjection(C, k..(k + n - 1))
    BY <1>3, <1>5, FS_Injection
  <2> QED BY <1>3, <2>1
<1>7. k <= Cardinality(list) => k + Cardinality(C) <= Cardinality(list)
  <2> HIDE DEF C, f
  <2>1. Cardinality(C) <= Cardinality(k..(Cardinality(list) - 1))
    BY <1>3, <1>5, FS_Injection
  <2> QED BY <1>1, <1>3, <2>1
<1>8. ASSUME k + n <= Cardinality(list) PROVE Cardinality(C) = n
  <2>1. ASSUME NEW i \in k..(k + n - 1) PROVE \E t \in C : Rank(t, list) = i
    <3>1. i \in Nat /\ i < Cardinality(list)
      BY <1>1, <1>8
    <3> QED BY <3>1, RankIsOnto DEF Chunk
  <2>2. f \in [C -> k..(k + n - 1)]
    BY <1>2
  <2>3. f \in Surjection(C, k..(k + n - 1))
    BY <2>1, <2>2 DEF Surjection
  <2> QED BY <1>6, <2>3
<1>9. ASSUME k < Cardinality(list) PROVE C # {}
  <2>1. PICK t \in list : Rank(t, list) = k
    BY <1>9, RankIsOnto
  <2> QED BY <2>1 DEF Chunk
<1> QED BY <1>1, <1>6, <1>7, <1>8, <1>9

-----------------------------------------------------------------------------
(* One page: what it holds, and what is still ahead of the cursor after it.  *)

\* Item t of the list is not read yet.
Ahead(t, list) ==
  IF p.paging = "token" THEN cursor = 0 \/ t < cursor ELSE Rank(t, list) >= cursor

\* The state of the reader, as far as pages depend on it.
Reader ==
  /\ provider \in Providers /\ p.paging # "number"
  /\ cursor \in 0..NumThings

LEMMA SkippedIsNat ==
  ASSUME Reader, NEW list \in SUBSET Things
  PROVE  Skipped(list) \in Nat
<1>1. CASE p.paging = "token"
  <2>1. {t \in list : cursor # 0 /\ t >= cursor} \in SUBSET Things
    OBVIOUS
  <2> QED BY <1>1, <2>1, ListsAreFinite DEF Skipped
<1>2. CASE p.paging # "token"
  BY <1>2, Constants DEF Skipped, Reader
<1> QED BY <1>1, <1>2

\* A token marks a position, too.
LEMMA AheadByRank ==
  ASSUME Reader, NEW list \in SUBSET Things, NEW t \in list
  PROVE  Ahead(t, list) <=> Rank(t, list) >= Skipped(list)
<1>1. CASE p.paging # "token"
  BY <1>1 DEF Ahead, Skipped
<1>2. CASE p.paging = "token"
  <2> DEFINE Read == {u \in list : cursor # 0 /\ u >= cursor}
             Prior == {u \in list : Precedes(u, t)}
  <2>1. Skipped(list) = Cardinality(Read) /\ Rank(t, list) = Cardinality(Prior)
    BY <1>2 DEF Skipped, Rank
  <2>2. /\ IsFiniteSet(Read) /\ Cardinality(Read) \in Nat
        /\ IsFiniteSet(Prior) /\ Cardinality(Prior) \in Nat
    BY ListsAreFinite
  <2>3. /\ cursor \in Nat /\ list \subseteq Nat /\ t \in Nat
        /\ \A u \in list : u \in Prior <=> u > t
    <3>1. Traits(provider, p)
      BY ProviderTraits DEF Reader
    <3>2. provider \notin {"githubPRs", "serviceNow"}
      BY <1>2, <3>1 DEF Traits
    <3>3. cursor \in Nat /\ list \subseteq Nat /\ t \in Nat
      BY Order, Constants DEF Reader
    <3> QED BY <3>2, <3>3 DEF Precedes
  <2>4. Read \subseteq list /\ Prior \subseteq list
    OBVIOUS
  <2>5. \A u \in list : u \in Read <=> cursor # 0 /\ u >= cursor
    OBVIOUS
  <2> HIDE DEF Read, Prior
  <2>6. CASE cursor = 0 \/ t < cursor
    <3>1. Read \in SUBSET Prior
      BY <2>3, <2>4, <2>5, <2>6
    <3>2. Cardinality(Read) <= Cardinality(Prior)
      BY <2>2, <3>1, FS_Subset
    <3> QED BY <1>2, <2>1, <2>2, <2>6, <3>2 DEF Ahead
  <2>7. CASE ~(cursor = 0 \/ t < cursor)
    <3>1. Prior \in SUBSET Read /\ t \in Read /\ t \notin Prior
      BY <2>3, <2>4, <2>5, <2>7
    <3>2. Cardinality(Prior) <= Cardinality(Read) /\ Cardinality(Prior) # Cardinality(Read)
      BY <2>2, <3>1, FS_Subset
    <3> QED BY <1>2, <2>1, <2>2, <2>7, <3>2 DEF Ahead
  <2> QED BY <2>6, <2>7
<1> QED BY <1>1, <1>2

LEMMA PageIsChunk ==
  ASSUME Reader, NEW list \in SUBSET Things
  PROVE  /\ p.paging = "whole" => Page(list) = list
         /\ p.paging # "whole" => Page(list) = Chunk(list, Skipped(list), PageSize)
         /\ Page(list) \subseteq list
         /\ Page(list) # {} => Min(Page(list)) \in Page(list)
         /\ \A t \in Page(list) : Min(Page(list)) <= t
<1>1. /\ p.paging = "whole" => Page(list) = list
      /\ p.paging # "whole" => Page(list) = Chunk(list, Skipped(list), PageSize)
      /\ Page(list) \subseteq list
  BY DEF Page, Chunk, Reader
<1>2. Page(list) \in SUBSET Nat
  BY <1>1, Order
<1>3. Page(list) # {} => Min(Page(list)) \in Page(list) /\ \A t \in Page(list) : Min(Page(list)) <= t
  BY <1>2, LeastElement
<1> QED BY <1>1, <1>3

\* The cursor stays within the list.
LEMMA NextCursorBounds ==
  ASSUME Reader, NEW list \in SUBSET Things, ~IsLast(list, Page(list)),
         p.paging # "token" => cursor <= Cardinality(list)
  PROVE  /\ NextCursor(Page(list)) \in 0..NumThings
         /\ p.paging # "token" => NextCursor(Page(list)) <= Cardinality(list)
         /\ p.paging = "token" => /\ NextCursor(Page(list)) # 0
                                  /\ NextCursor(Page(list)) = Min(Page(list))
                                  /\ Page(list) # {}
<1>1. Cardinality(list) \in Nat /\ Cardinality(list) <= NumThings
  BY ListsAreFinite
<1>2. CASE p.paging = "token"
  <2>1. Page(list) # {} /\ Min(Page(list)) \in Things
    BY <1>2, PageIsChunk DEF IsLast
  <2> QED BY <1>2, <2>1, Constants DEF NextCursor, Things
<1>3. CASE p.paging # "token"
  <2>1. p.paging # "whole" /\ Skipped(list) = cursor /\ cursor \in Nat
    BY <1>3, Constants DEF IsLast, Skipped, Reader
  <2>2. /\ Cardinality(Page(list)) \in Nat
        /\ cursor + Cardinality(Page(list)) <= Cardinality(list)
    BY <1>3, <2>1, PageIsChunk, Chunks, Constants
  <2> QED BY <1>1, <1>3, <2>1, <2>2, Constants DEF NextCursor
<1> QED BY <1>2, <1>3

\* An item that is ahead is on the page, or the list goes on and it is still
\* ahead: no way of paging passes over it or ends before it, a limit apart.
LEMMA PageByPage ==
  ASSUME Reader, NEW list \in SUBSET Things, NEW t \in list, Ahead(t, list),
         ~CutShort(list, Page(list)),
         p.paging = "until" =>
           Since(t, Current) /\ \A u \in list : t < u => created[t] <= created[u],
         created \in [Things -> Int], Current.first \in Int
  PROVE  \/ t \in Page(list)
         \/ /\ ~IsLast(list, Page(list))
            /\ IF p.paging = "token" THEN t < NextCursor(Page(list))
                                     ELSE Rank(t, list) >= NextCursor(Page(list))
<1> DEFINE page == Page(list)
           k == Skipped(list)
<1> SUFFICES ASSUME t \notin page
             PROVE  /\ ~IsLast(list, page)
                    /\ IF p.paging = "token" THEN t < NextCursor(page)
                                             ELSE Rank(t, list) >= NextCursor(page)
  OBVIOUS
<1>1. p.paging # "whole" /\ page = Chunk(list, k, PageSize)
  BY PageIsChunk
<1>2. /\ k \in Nat /\ PageSize \in Nat \ {0}
      /\ Rank(t, list) \in Nat /\ Rank(t, list) < Cardinality(list) /\ Cardinality(list) \in Nat
  BY SkippedIsNat, RankBounds, ListsAreFinite, Constants
<1>3. Rank(t, list) >= k + PageSize
  <2>1. Rank(t, list) >= k
    BY AheadByRank
  <2>2. Rank(t, list) \notin k..(k + PageSize - 1)
    BY <1>1 DEF Chunk
  <2> QED BY <1>2, <2>1, <2>2
<1>4. Cardinality(page) = PageSize /\ page # {}
  <2>1. k + PageSize <= Cardinality(list) /\ k < Cardinality(list)
    BY <1>2, <1>3
  <2> QED BY <1>1, <1>2, <2>1, Chunks
<1>5. \A u \in page : u \in list /\ Rank(u, list) \in Nat /\ Rank(u, list) < Rank(t, list)
  <2>1. \A u \in page : u \in list /\ Rank(u, list) \in k..(k + PageSize - 1)
    BY <1>1 DEF Chunk
  <2> QED BY <1>2, <1>3, <2>1
<1>6. Min(page) \in page /\ Min(page) \in list
  BY <1>4, PageIsChunk
<1>7. p.paging \in {"token", "until"} => t < Min(page)
  <2> SUFFICES ASSUME p.paging \in {"token", "until"} PROVE t < Min(page)
    OBVIOUS
  <2>1. provider \notin {"githubPRs", "serviceNow"}
    BY ProviderTraits DEF Reader, Traits
  <2>2. t \in Nat /\ Min(page) \in Nat
    BY <1>6, Order
  <2>3. ~Precedes(t, Min(page)) /\ t # Min(page)
    BY <1>2, <1>5, <1>6, RankOrders
  <2> QED BY <2>1, <2>2, <2>3 DEF Precedes
<1>8. p.paging # "token" => k = cursor /\ cursor \in Nat
  BY Constants DEF Skipped, Reader
<1> HIDE DEF page, k
<1>9. ~IsLast(list, page)
  <2>1. p.paging \in {"link", "until"} => ~(cursor + Cardinality(page) >= Cardinality(list))
    <3> SUFFICES ASSUME p.paging \in {"link", "until"} PROVE cursor + PageSize < Cardinality(list)
      BY <1>2, <1>4, <1>8
    <3> QED BY <1>2, <1>3, <1>8
  <2>2. p.paging = "until" => Since(Min(page), Current)
    <3> SUFFICES ASSUME p.paging = "until" PROVE created[Min(page)] >= Midnight(Current.first)
      BY DEF Since
    <3>1. created[t] >= Midnight(Current.first) /\ t \in Things /\ Min(page) \in Things
      BY <1>6 DEF Since
    <3>2. created[t] <= created[Min(page)]
      BY <1>6, <1>7
    <3>3. created[t] \in Int /\ created[Min(page)] \in Int /\ Midnight(Current.first) \in Int
      BY <3>1, Midnights
    <3> QED BY <3>1, <3>2, <3>3
  <2>3. p.paging = "token" => ~(\A u \in list : u >= Min(page))
    <3>1. t \in Nat /\ Min(page) \in Nat
      BY <1>6, Order
    <3> QED BY <1>7, <3>1
  <2>4. PageSize \in Nat /\ ~(Cardinality(page) < PageSize)
    BY <1>2, <1>4
  <2>5. p.paging # "number"
    BY DEF Reader
  <2>6. ~AtLimit(page)
    <3> SUFFICES ASSUME provider = "azureCommits"
                 PROVE  cursor + Cardinality(page) < Cardinality(list)
      BY DEF CutShort, AtLimit, page
    <3>1. k = cursor /\ cursor \in Nat
      BY <1>8, ProviderTraits DEF Traits, Reader
    <3> QED BY <1>2, <1>3, <1>4, <3>1
  <2> QED BY <1>1, <1>4, <2>1, <2>2, <2>3, <2>4, <2>5, <2>6 DEF IsLast
<1>10. p.paging # "token" => Rank(t, list) >= NextCursor(page)
  BY <1>3, <1>4, <1>8 DEF NextCursor
<1>11. p.paging = "token" => t < NextCursor(page)
  BY <1>7 DEF NextCursor
<1> QED BY <1>9, <1>10, <1>11

-----------------------------------------------------------------------------
(* The history of the remote system, and what a request selects of it.       *)

\* Things begin in their order; a run ends after it began, a commit or an event
\* is complete at once.
History ==
  /\ provider \in Providers
  /\ now \in 0..MaxNow
  /\ created \in [Things -> {NotYet} \union 0..now]
  /\ closed \in [Things -> {NotYet} \union 0..now]
  /\ \A t \in Things : Ended(t) => Started(t) /\ (created[t] < closed[t] \/ p.instant)
  /\ p.instant => \A t \in Things : closed[t] = created[t]
  /\ ByEnd => \A t \in Things : Started(t) => created[t] = 0
  /\ \A t, u \in Things : t < u /\ Started(u) => Started(t) /\ created[t] <= created[u]

LEMMA Clock ==
  ASSUME History
  PROVE  now \in Nat /\ now <= MaxNow
BY Constants DEF History

LEMMA MomentsTyped ==
  ASSUME History, NEW t \in Things
  PROVE  /\ created[t] \in Int /\ closed[t] \in Int
         /\ Started(t) => created[t] \in 0..now
         /\ Ended(t) => closed[t] \in 0..now /\ Started(t) /\ created[t] <= closed[t]
         /\ now \in Nat
<1>1. now \in Nat /\ now \in 0..MaxNow
  BY Constants DEF History
<1>2. created[t] \in {NotYet} \union 0..now /\ closed[t] \in {NotYet} \union 0..now
  BY DEF History
<1>3. Started(t) <=> created[t] # NotYet
  BY DEF Started
<1>4. Ended(t) <=> closed[t] # NotYet
  BY DEF Ended
<1>5. Ended(t) => Started(t) /\ (created[t] < closed[t] \/ closed[t] = created[t])
  BY DEF History
<1> QED BY <1>1, <1>2, <1>3, <1>4, <1>5 DEF NotYet

\* A moment of the days first..last lies between their midnights.
LEMMA WithinDays ==
  ASSUME NEW m \in Nat, NEW first \in Int, NEW last \in Int,
         Day(m) \in first..last
  PROVE  Midnight(first) <= m /\ m < Midnight(last + 1)
<1>1. Day(m) \in Int /\ Midnight(Day(m)) <= m /\ m < Midnight(Day(m) + 1)
  BY DayOfMoment
<1>2. Midnight(first) <= Midnight(Day(m)) /\ Midnight(Day(m) + 1) <= Midnight(last + 1)
  BY <1>1, Midnights
<1>3. /\ Midnight(first) \in Int /\ Midnight(Day(m)) \in Int
      /\ Midnight(Day(m) + 1) \in Int /\ Midnight(last + 1) \in Int
  BY <1>1, Midnights
<1> QED BY <1>1, <1>2, <1>3

\* ... and the other way round.
LEMMA InTheDays ==
  ASSUME NEW m \in Nat, NEW first \in Nat, NEW last \in Nat,
         Midnight(first) <= m, m < Midnight(last + 1)
  PROVE  Day(m) \in first..last
<1>1. Day(m) \in Nat /\ Midnight(Day(m)) <= m /\ m < Midnight(Day(m) + 1)
  BY DayOfMoment
<1>2. /\ Midnight(first) \in Int /\ Midnight(Day(m)) \in Int
      /\ Midnight(Day(m) + 1) \in Int /\ Midnight(last + 1) \in Int
  BY <1>1, Midnights
<1>3. CASE Day(m) < first
  <2>1. Day(m) + 1 <= first
    BY <1>1, <1>3
  <2>2. Midnight(Day(m) + 1) <= Midnight(first)
    BY <1>1, <2>1, Midnights
  <2> QED BY <1>1, <1>2, <2>2
<1>4. CASE last < Day(m)
  <2>1. last + 1 <= Day(m)
    BY <1>1, <1>4
  <2>2. Midnight(last + 1) <= Midnight(Day(m))
    BY <1>1, <2>1, Midnights
  <2> QED BY <1>1, <1>2, <2>2
<1> QED BY <1>1, <1>3, <1>4

LEMMA AnsweredDaysInSpan ==
  ASSUME NEW s, s.first \in Nat, s.last \in Nat, NEW d \in AnsweredDays(s)
  PROVE  /\ d \in s.first..s.last /\ d \in Nat
         /\ p.window = "after" => d \in (s.first + 1)..s.last
         /\ p.window \in {"stamped", "resolved"} => d \in s.first..(s.last - 1)
         /\ p.window = "within" /\ s.first < s.last => d \in s.first..(s.last - 1)
BY DEF AnsweredDays

\* What happened on a day the provider answers for is in the request's window.
LEMMA DueIsSelected ==
  ASSUME History, NEW s \in Spans, NEW d \in AnsweredDays(s), NEW t \in Things, HappenedOn(t, d)
  PROVE  Selects(t, s)
<1>1. /\ s.first \in Nat /\ s.last \in Nat /\ s.first <= s.last
  BY DaysAndSpans
<1>2. /\ d \in s.first..s.last /\ d \in Nat
      /\ p.window = "after" => d \in (s.first + 1)..s.last
      /\ p.window \in {"stamped", "resolved"} => d \in s.first..(s.last - 1)
      /\ p.window = "within" /\ s.first < s.last => d \in s.first..(s.last - 1)
  BY <1>1, AnsweredDaysInSpan
<1>3. /\ Ended(t) /\ Day(closed[t]) = d /\ Started(t)
      /\ closed[t] \in Nat /\ created[t] \in Nat /\ created[t] <= closed[t]
      /\ ByEnd \/ Day(created[t]) = d
      /\ p.window = "inside" => created[t] # Midnight(d)
  BY MomentsTyped DEF HappenedOn
<1>4. /\ Midnight(s.first) \in Int /\ Midnight(s.last) \in Int /\ Midnight(s.last + 1) \in Int
      /\ Midnight(s.first + 1) \in Int /\ Midnight(s.first) < Midnight(s.first + 1)
  <2>1. s.first \in Int /\ s.last \in Int /\ s.first + 1 \in Int /\ s.last + 1 \in Int
    BY <1>1
  <2> HIDE <1>1
  <2> QED BY <2>1, Midnights
<1>5. Midnight(s.first) <= closed[t] /\ closed[t] < Midnight(s.last + 1)
  BY <1>1, <1>2, <1>3, WithinDays
<1>6. ~ByEnd => Since(t, s) /\ Before(t, s)
  <2> SUFFICES ASSUME ~ByEnd PROVE Since(t, s) /\ Before(t, s)
    OBVIOUS
  <2>1. Midnight(s.first) <= created[t] /\ created[t] < Midnight(s.last + 1)
    BY <1>1, <1>2, <1>3, WithinDays
  <2> QED BY <1>3, <1>4, <2>1 DEF Since, Before
<1>7. d \in s.first..(s.last - 1) => closed[t] < Midnight(s.last) /\ (~ByEnd => created[t] < Midnight(s.last))
  <2> SUFFICES ASSUME d \in s.first..(s.last - 1)
               PROVE  closed[t] < Midnight(s.last) /\ (~ByEnd => created[t] < Midnight(s.last))
    OBVIOUS
  <2>1. s.last - 1 + 1 = s.last /\ s.last - 1 \in Int
    BY <1>1
  <2> QED BY <1>1, <1>3, <2>1, WithinDays
<1>8. d \in (s.first + 1)..s.last => Midnight(s.first + 1) <= closed[t]
  BY <1>1, <1>3, WithinDays
<1>9. p.window \in {"started", "finished", "within", "stamped", "touched", "inside",
                    "closed", "resolved", "after"}
  BY ProviderTraits DEF History, Traits
<1>10. CASE p.window \in {"started", "touched"}
  BY <1>3, <1>4, <1>6, <1>10 DEF Selects, Began, Touched, ByEnd, Before
<1>11. CASE p.window = "finished"
  BY <1>3, <1>4, <1>5, <1>6, <1>11 DEF Selects, Finished, Completed, ByEnd
<1>12. CASE p.window = "within"
  BY <1>1, <1>2, <1>3, <1>4, <1>5, <1>6, <1>7, <1>12 DEF Selects, Within, ByEnd
<1>13. CASE p.window = "stamped"
  BY <1>2, <1>3, <1>4, <1>6, <1>7, <1>13 DEF Selects, Stamped, ByEnd
<1>14. CASE p.window = "inside"
  <2>1. created[t] # Midnight(s.first)
    <3>1. CASE d = s.first
      BY <1>3, <1>14, <3>1
    <3>2. CASE d # s.first
      <4>1. Day(created[t]) \in (s.first + 1)..s.last
        BY <1>1, <1>2, <1>3, <1>14, <3>2 DEF ByEnd
      <4>2. Midnight(s.first + 1) <= created[t]
        BY <1>1, <1>3, <4>1, WithinDays
      <4> QED BY <1>3, <1>4, <4>2
    <3> QED BY <3>1, <3>2
  <2> QED BY <1>3, <1>4, <1>6, <1>14, <2>1 DEF Selects, Inside, ByEnd, Since
<1>15. CASE p.window = "closed"
  BY <1>3, <1>4, <1>5, <1>15 DEF Selects, ClosedIn
<1>16. CASE p.window = "resolved"
  BY <1>2, <1>3, <1>4, <1>5, <1>7, <1>16 DEF Selects, Resolved
<1>17. CASE p.window = "after"
  BY <1>2, <1>3, <1>4, <1>5, <1>8, <1>17 DEF Selects, After
<1> QED BY <1>9, <1>10, <1>11, <1>12, <1>13, <1>14, <1>15, <1>16, <1>17

\* A selected run began on one of the days, a selected pull request or work item
\* ended on one.
LEMMA SelectedDays ==
  ASSUME History, NEW s \in Spans, NEW t \in Things, Selects(t, s)
  PROVE  /\ created[t] \in Nat
         /\ p.window \in {"started", "finished", "within", "stamped"} =>
              Day(created[t]) \in s.first..s.last
         /\ p.window = "closed" => closed[t] \in Nat /\ Day(closed[t]) \in s.first..s.last
<1>1. /\ s.first \in Nat /\ s.last \in Nat /\ s.first <= s.last
  BY DaysAndSpans
<1>2. /\ Started(t) /\ created[t] \in Nat
      /\ Ended(t) => closed[t] \in Nat /\ created[t] <= closed[t]
  BY MomentsTyped DEF Selects
<1>3. /\ Midnight(s.first) \in Int /\ Midnight(s.last) \in Int /\ Midnight(s.last + 1) \in Int
      /\ Midnight(s.last) < Midnight(s.last + 1)
  <2>1. s.first \in Int /\ s.last \in Int /\ s.last + 1 \in Int
    BY <1>1
  <2> HIDE <1>1
  <2> QED BY <2>1, Midnights
<1>4. ASSUME p.window \in {"started", "finished", "within", "stamped"}
      PROVE  Midnight(s.first) <= created[t] /\ created[t] < Midnight(s.last + 1)
  <2>1. Ended(t) /\ created[t] < closed[t]
    <3>1. Ended(t)
      BY <1>4 DEF Selects, Began, Finished, Completed, Within, Stamped
    <3>2. ~p.instant
      BY <1>4, ProviderTraits DEF History, Traits
    <3> QED BY <3>1, <3>2 DEF History
  <2>2. CASE p.window = "started"
    BY <1>2, <1>3, <2>2 DEF Selects, Began, Since, Before
  <2>3. CASE p.window = "finished"
    BY <1>2, <1>3, <2>1, <2>3 DEF Selects, Finished, Completed, Since
  <2>4. CASE p.window = "within"
    BY <1>1, <1>2, <1>3, <2>1, <2>4 DEF Selects, Within, Since
  <2>5. CASE p.window = "stamped"
    BY <1>2, <1>3, <2>5 DEF Selects, Stamped, Since
  <2> QED BY <1>4, <2>2, <2>3, <2>4, <2>5
<1>5. p.window \in {"started", "finished", "within", "stamped"} => Day(created[t]) \in s.first..s.last
  BY <1>1, <1>2, <1>4, InTheDays
<1>6. ASSUME p.window = "closed"
      PROVE  closed[t] \in Nat /\ Day(closed[t]) \in s.first..s.last
  <2>1. Ended(t) /\ closed[t] \in Midnight(s.first)..(Midnight(s.last + 1) - 1)
    BY <1>6 DEF Selects, ClosedIn
  <2>2. closed[t] \in Nat /\ Midnight(s.first) <= closed[t] /\ closed[t] < Midnight(s.last + 1)
    BY <1>2, <1>3, <2>1
  <2> QED BY <1>1, <2>2, InTheDays
<1> QED BY <1>2, <1>5, <1>6


-----------------------------------------------------------------------------
(* The inductive invariant.                                                  *)

Apart(s, o) == s.last < o.first \/ o.last < s.first

\* Thing t belongs to the answer for span s and had ended before the moment.
Due(t, s, since) == \E d \in AnsweredDays(s) : HappenedOn(t, d) /\ closed[t] < since

\* The query, and where it stands.
Control ==
  /\ status \in {"idle", "running", "done", "failed"}
  /\ query \in [first : Days, last : Days, begun : Nat]
  /\ query.first <= query.last /\ query.last <= Today /\ query.begun <= now
  /\ status # "idle" => query.last = Day(query.begun)
  /\ builds \in 0..NumThings
  /\ windows \subseteq Spans /\ began \in 0..now /\ cursor \in 0..NumThings
  /\ windows = {} => cursor = 0 /\ gathered = Nothing
  /\ windows # {} => status = "running" /\ query.begun <= began
  /\ p.walk = "range" /\ windows # {} => began = query.begun
  /\ gathered \in [Things -> Nat] /\ result \in [Things -> Nat]
  /\ forgiven \subseteq Spans
  /\ p.forgives = "no" => forgiven = {}
  /\ queries \in 0..MaxQueries /\ failures \in 0..MaxFailures

\* The spans left to read are parts of the query that have no day in common.
Cut ==
  /\ \A s \in windows : query.first <= s.first /\ s.last <= query.last
  /\ \A s, o \in windows : s # o => Apart(s, o)
  /\ p.walk = "days" => \A s \in windows : s.first = s.last
  /\ p.walk = "range" => \A s \in windows : s.first = query.first /\ s.last = query.last
  /\ p.walk = "gaps" => \A s \in windows : s.last < query.last

Earliest(s) == s \in windows /\ \A o \in windows : s.first <= o.first

ToCome(t, s) ==
  IF p.paging = "number" THEN t > cursor /\ t <= builds ELSE Ahead(t, Listed(s))

\* Of the span being read, the pages so far hold what the request selects, and
\* what is due is among it or still ahead of the cursor.
ReadSoFar(s) ==
  /\ \A t \in Things : gathered[t] > 0 => Selects(t, s)
  /\ \A t \in Things : Due(t, s, began) /\ ~NoBuilds => gathered[t] > 0 \/ ToCome(t, s)
  /\ p.paging = "whole" => gathered = Nothing
  /\ Once => \A t \in Things :
       /\ gathered[t] <= 1
       /\ p.paging = "token" => (gathered[t] > 0 => cursor # 0 /\ t >= cursor)
       /\ p.paging = "number" => (gathered[t] > 0 => t <= cursor)
  /\ p.paging \notin {"token", "number"} => cursor <= Cardinality(Listed(s))
  /\ p.paging = "number" /\ builds # 0 => cursor < builds

Paging == \A s \in Spans : Earliest(s) => ReadSoFar(s)

Entries == [things : [Things -> Nat], asOf : Nat,
            expireAt : {-2, Never} \union 0..(MaxNow + TodayTtl)]

\* The entry for s holds what was due when its call began, unless that call was
\* cut short, and nothing else; it is for ever only if the days were over.
StoredWell(s) ==
  /\ cache[s].asOf <= now
  /\ \A t \in Things : cache[s].things[t] > 0 => Selects(t, s)
  /\ \/ s \in forgiven /\ p.walk # "gaps"
     \/ \A t \in Things : Due(t, s, cache[s].asOf) => cache[s].things[t] > 0
  /\ cache[s].expireAt = Never => \A d \in AnsweredDays(s) : cache[s].asOf >= Midnight(d + 1)
  /\ Once => \A t \in Things : cache[s].things[t] <= 1

CacheWell == cache \in [Spans -> Entries] /\ \A s \in Spans : StoredWell(s)

\* Day d is read and no logged failure cut it short.
Covered(d) == (\A o \in windows : d \notin o.first..o.last) /\ ~Forgiven(d)

\* What is in the result was selected for days that are read; what settled on a
\* day that is read is in the result.
Gained ==
  /\ \A t \in Things : result[t] > 0 =>
       \E s \in Spans : /\ query.first <= s.first /\ s.last <= query.last
                        /\ \A o \in windows : Apart(s, o)
                        /\ Selects(t, s)
  /\ status \in {"running", "done"} =>
       \A d \in QueriedDays : Covered(d) =>
          \A t \in Things : HappenedOn(t, d) /\ closed[t] < KnownUntil(d) => result[t] > 0
  /\ Once => \A t \in Things : result[t] <= 1

IInv == History /\ Control /\ Cut /\ Paging /\ CacheWell /\ Gained

-----------------------------------------------------------------------------
(* Steps that leave the remote alone, and those of the remote.               *)

\* What is said of the remote stands while it does.
LEMMA RemoteStands ==
  ASSUME UNCHANGED <<provider, remoteVars>>
  PROVE  /\ p' = p /\ Once' = Once /\ ByEnd' = ByEnd /\ now' = now /\ closed' = closed
         /\ History => History'
         /\ \A t \in Things : \A s : Selects(t, s)' <=> Selects(t, s)
         /\ \A t \in Things : \A d : HappenedOn(t, d)' <=> HappenedOn(t, d)
         /\ \A s : AnsweredDays(s)' = AnsweredDays(s)
         /\ \A t \in Things : \A s, m : Due(t, s, m)' <=> Due(t, s, m)
         /\ \A s : Listed(s)' = Listed(s)
<1>1. provider' = provider /\ now' = now /\ created' = created /\ closed' = closed
  BY DEF remoteVars
<1>2. p' = p
  BY <1>1 DEF p
<1>3. Once' = Once /\ ByEnd' = ByEnd
  BY <1>1, <1>2 DEF Once, ByEnd
<1>4. \A t \in Things : (Started(t)' <=> Started(t)) /\ (Ended(t)' <=> Ended(t))
  BY <1>1 DEF Started, Ended
<1>5. History => History'
  BY <1>1, <1>2, <1>3, <1>4 DEF History
<1>6. ASSUME NEW t \in Things, NEW s PROVE Selects(t, s)' <=> Selects(t, s)
  BY <1>1, <1>2, <1>4 DEF Selects, Began, Finished, Completed, Within, Stamped, Touched, Inside, ClosedIn,
     Resolved, After, Since, Before
<1>7. ASSUME NEW t \in Things, NEW d PROVE HappenedOn(t, d)' <=> HappenedOn(t, d)
  BY <1>1, <1>2, <1>3, <1>4 DEF HappenedOn
<1>8. ASSUME NEW s PROVE AnsweredDays(s)' = AnsweredDays(s)
  BY <1>2 DEF AnsweredDays
<1>9. ASSUME NEW t \in Things, NEW s, NEW m PROVE Due(t, s, m)' <=> Due(t, s, m)
  BY <1>1, <1>7, <1>8 DEF Due
<1>10. ASSUME NEW s PROVE Listed(s)' = Listed(s)
  BY <1>1, <1>2, <1>4, <1>6 DEF Listed, Completed
<1> QED BY <1>1, <1>2, <1>3, <1>5, <1>6, <1>7, <1>8, <1>9, <1>10

RemoteStep == (\E t \in Things : Create(t) \/ Close(t)) \/ Tick

\* What began and what ended stay as they are; what ends, ends now.
LEMMA HistoryGoesOn ==
  ASSUME History, RemoteStep
  PROVE  /\ provider' = provider /\ p' = p
         /\ now' \in Nat /\ now <= now' /\ History'
         /\ \A t \in Things : Started(t) => Started(t)' /\ created'[t] = created[t]
         /\ \A t \in Things : Ended(t) => Ended(t)' /\ closed'[t] = closed[t]
         /\ \A t \in Things : Ended(t)' => Ended(t) \/ closed'[t] = now
<1> USE DEF History
<1>0. now \in Nat /\ NotYet \notin Nat
  BY Constants DEF NotYet
<1>1. ASSUME NEW t \in Things, Create(t)
      PROVE  /\ provider' = provider /\ p' = p /\ now' = now
             /\ created' = [created EXCEPT ![t] = IF ByEnd THEN 0 ELSE now]
             /\ closed' = IF p.instant THEN [closed EXCEPT ![t] = now] ELSE closed
             /\ ~Started(t) /\ \A u \in 1..(t - 1) : Started(u)
  BY <1>1 DEF Create, p
<1>2. ASSUME NEW t \in Things, Close(t)
      PROVE  /\ provider' = provider /\ p' = p /\ now' = now /\ created' = created
             /\ closed' = [closed EXCEPT ![t] = now]
             /\ Started(t) /\ ~Ended(t) /\ created[t] < now
  BY <1>2 DEF Close, p
<1>3. ASSUME Tick
      PROVE  /\ provider' = provider /\ p' = p /\ now' = now + 1 /\ now < MaxNow
             /\ created' = created /\ closed' = closed
  BY <1>3 DEF Tick, p
<1>4. ASSUME NEW t \in Things, Create(t)
      PROVE  /\ \A u \in Things : Started(u) => Started(u)' /\ created'[u] = created[u]
             /\ \A u \in Things : Ended(u) => Ended(u)' /\ closed'[u] = closed[u]
             /\ \A u \in Things : Ended(u)' => Ended(u) \/ closed'[u] = now
             /\ Things \subseteq Nat
  <2>1. \A u \in Things : Started(u) => u # t
    BY <1>1, <1>4
  <2>2. \A u \in Things : Ended(u) => u # t
    BY <2>1
  <2>3. \A u \in Things : u # t => created'[u] = created[u] /\ closed'[u] = closed[u]
    BY <1>1, <1>4
  <2>4. closed'[t] = IF p.instant THEN now ELSE closed[t]
    BY <1>1, <1>4
  <2> QED BY <2>1, <2>2, <2>3, <2>4, Order DEF Started, Ended
<1>5. ASSUME NEW t \in Things, Create(t) PROVE History'
  <2>1. /\ created'[t] = IF ByEnd THEN 0 ELSE now
        /\ closed'[t] = IF p.instant THEN now ELSE closed[t]
        /\ \A u \in Things : u # t => created'[u] = created[u] /\ closed'[u] = closed[u]
    BY <1>1, <1>5
  <2>2. ByEnd' = ByEnd
    BY <1>1, <1>5 DEF ByEnd
  <2>3. /\ provider' \in Providers /\ now' \in 0..MaxNow
        /\ created' \in [Things -> {NotYet} \union 0..now']
        /\ closed' \in [Things -> {NotYet} \union 0..now']
    BY <1>0, <1>1, <1>5
  <2>4. p.instant => ~ByEnd
    BY ProviderTraits DEF Traits, ByEnd
  <2>5. Started(t)' /\ ~Started(t) /\ ~Ended(t)
    BY <1>0, <1>1, <1>5, <2>1 DEF Started
  <2>6. Ended(t)' <=> p.instant
    <3>1. CASE p.instant
      BY <1>0, <2>1, <3>1 DEF Ended
    <3>2. CASE ~p.instant
      BY <2>1, <2>5, <3>2 DEF Ended
    <3> QED BY <3>1, <3>2
  <2>7. \A u \in Things : u # t => (Started(u)' <=> Started(u)) /\ (Ended(u)' <=> Ended(u))
    BY <2>1 DEF Started, Ended
  <2>8. ASSUME NEW u \in Things, Ended(u)'
        PROVE  Started(u)' /\ (created'[u] < closed'[u] \/ p'.instant)
    BY <1>1, <1>5, <2>1, <2>5, <2>6, <2>7, <2>8
  <2>9. p'.instant => \A u \in Things : closed'[u] = created'[u]
    BY <1>1, <1>5, <2>1, <2>4
  <2>10. ByEnd' => \A u \in Things : Started(u)' => created'[u] = 0
    BY <2>1, <2>2, <2>7
  <2>11. ASSUME NEW u \in Things, NEW v \in Things, u < v, Started(v)'
         PROVE  Started(u)' /\ created'[u] <= created'[v]
    <3>1. CASE v = t
      <4>1. u \in 1..(t - 1) /\ u # t
        BY <2>11, <3>1, Constants DEF Things
      <4>2. Started(u)
        BY <1>1, <1>5, <4>1
      <4>3. created[u] \in 0..now
        BY <4>2 DEF Started
      <4>4. created[u] <= created'[t]
        BY <1>0, <2>1, <4>2, <4>3
      <4> QED BY <2>1, <2>7, <3>1, <4>1, <4>2, <4>4
    <3>2. CASE v # t
      <4>1. Started(v) /\ Started(u) /\ created[u] <= created[v]
        BY <2>7, <2>11, <3>2
      <4> QED BY <2>1, <2>5, <2>7, <3>2, <4>1
    <3> QED BY <3>1, <3>2
  <2> QED BY <2>3, <2>8, <2>9, <2>10, <2>11
<1>6. ASSUME NEW t \in Things, Close(t)
      PROVE  /\ \A u \in Things : Started(u) => Started(u)' /\ created'[u] = created[u]
             /\ \A u \in Things : Ended(u) => Ended(u)' /\ closed'[u] = closed[u]
             /\ \A u \in Things : Ended(u)' => Ended(u) \/ closed'[u] = now
             /\ History'
  <2>1. /\ closed'[t] = now
        /\ \A u \in Things : u # t => closed'[u] = closed[u]
        /\ created' = created /\ now' = now /\ p' = p /\ provider' = provider
    BY <1>2, <1>6
  <2>2. \A u \in Things : Started(u)' <=> Started(u)
    BY <2>1 DEF Started
  <2>3. \A u \in Things : u # t => (Ended(u)' <=> Ended(u))
    BY <2>1 DEF Ended
  <2>4. Ended(t)' /\ ~Ended(t) /\ Started(t) /\ created[t] < now
    BY <1>0, <1>2, <1>6, <2>1 DEF Ended
  <2>5. ~p.instant
    <3>1. created[t] # closed[t]
      BY <2>4 DEF Started, Ended
    <3> QED BY <3>1
  <2>6. closed' \in [Things -> {NotYet} \union 0..now']
    BY <1>0, <1>2, <1>6
  <2>7. ByEnd' = ByEnd
    BY <2>1 DEF ByEnd
  <2>8. \A u \in Things : Ended(u)' => Started(u)' /\ (created'[u] < closed'[u] \/ p'.instant)
    BY <2>1, <2>2, <2>3, <2>4
  <2>9. History'
    BY <2>1, <2>2, <2>5, <2>6, <2>7, <2>8
  <2> QED BY <2>1, <2>2, <2>3, <2>4, <2>9
<1>7. ASSUME Tick
      PROVE  /\ \A u \in Things : Started(u) => Started(u)' /\ created'[u] = created[u]
             /\ \A u \in Things : Ended(u) => Ended(u)' /\ closed'[u] = closed[u]
             /\ \A u \in Things : Ended(u)' => Ended(u) \/ closed'[u] = now
             /\ History'
  <2>1. \A u \in Things : (Started(u)' <=> Started(u)) /\ (Ended(u)' <=> Ended(u))
    BY <1>3, <1>7 DEF Started, Ended
  <2>2. ByEnd' = ByEnd
    BY <1>3, <1>7 DEF ByEnd
  <2>3. now' \in 0..MaxNow /\ 0..now \subseteq 0..now'
    BY <1>0, <1>3, <1>7, Constants
  <2> QED BY <1>3, <1>7, <2>1, <2>2, <2>3
<1>8. now' \in Nat /\ now <= now'
  BY <1>0, <1>1, <1>2, <1>3 DEF RemoteStep
<1> QED BY <1>1, <1>2, <1>3, <1>4, <1>5, <1>6, <1>7, <1>8 DEF RemoteStep

\* What was selected stays selected, lists only grow, and nothing that is new was
\* due before.
LEMMA SelectionGrows ==
  ASSUME History, RemoteStep
  PROVE  /\ Once' = Once
         /\ \A t \in Things : \A s : Selects(t, s) => Selects(t, s)'
         /\ \A s : Listed(s) \subseteq Listed(s)'
         /\ \A s : AnsweredDays(s)' = AnsweredDays(s)
         /\ \A t \in Things : \A d : \A m \in 0..now :
              HappenedOn(t, d)' /\ closed'[t] < m => HappenedOn(t, d) /\ closed[t] < m
         /\ \A t \in Things : \A s : \A m \in 0..now : Due(t, s, m)' => Due(t, s, m)
<1>1. /\ provider' = provider /\ p' = p
      /\ \A t \in Things : Started(t) => Started(t)' /\ created'[t] = created[t]
      /\ \A t \in Things : Ended(t) => Ended(t)' /\ closed'[t] = closed[t]
      /\ \A t \in Things : Ended(t)' => Ended(t) \/ closed'[t] = now
      /\ \A t \in Things : Ended(t) => Started(t)
      /\ now \in Nat
  BY HistoryGoesOn, Clock, MomentsTyped
<1>2. Once' = Once /\ ByEnd' = ByEnd
  BY <1>1 DEF Once, ByEnd
<1>3. ASSUME NEW t \in Things, NEW s, Selects(t, s) PROVE Selects(t, s)'
  <2>1. Started(t) /\ Started(t)' /\ created'[t] = created[t]
    BY <1>1, <1>3 DEF Selects
  <2>2. CASE Ended(t)
    <3>1. Ended(t)' /\ closed'[t] = closed[t]
      BY <1>1, <2>2
    <3> QED BY <1>1, <1>3, <2>1, <2>2, <3>1 DEF Selects, Began, Finished, Completed, Within, Stamped, Touched,
         Inside, ClosedIn, Resolved, After, Since, Before
  <2>3. CASE ~Ended(t)
    BY <1>1, <1>3, <2>1, <2>3 DEF Selects, Began, Finished, Completed, Within, Stamped, Touched,
         Inside, ClosedIn, Resolved, After, Since, Before
  <2> QED BY <2>2, <2>3
<1>4. ASSUME NEW s PROVE Listed(s) \subseteq Listed(s)'
  BY <1>1, <1>3 DEF Listed, Completed
<1>5. ASSUME NEW s PROVE AnsweredDays(s)' = AnsweredDays(s)
  BY <1>1 DEF AnsweredDays
<1>6. ASSUME NEW t \in Things, NEW d, NEW m \in 0..now, HappenedOn(t, d)', closed'[t] < m
      PROVE  HappenedOn(t, d) /\ closed[t] < m
  <2>1. Ended(t)'
    BY <1>6 DEF HappenedOn
  <2>2. Ended(t) /\ Started(t)
    BY <1>1, <1>6, <2>1
  <2>3. created'[t] = created[t] /\ closed'[t] = closed[t]
    BY <1>1, <2>2
  <2> QED BY <1>1, <1>2, <1>6, <2>2, <2>3 DEF HappenedOn
<1>7. ASSUME NEW t \in Things, NEW s, NEW m \in 0..now, Due(t, s, m)' PROVE Due(t, s, m)
  <2>1. PICK d \in AnsweredDays(s) : HappenedOn(t, d)' /\ closed'[t] < m
    BY <1>5, <1>7 DEF Due
  <2>2. HappenedOn(t, d) /\ closed[t] < m
    BY <1>6, <2>1
  <2> QED BY <2>2 DEF Due
<1> QED BY <1>2, <1>3, <1>4, <1>5, <1>6, <1>7

\* The reader and the cache stand still meanwhile.
LEMMA ReaderStands ==
  ASSUME RemoteStep
  PROVE  UNCHANGED <<provider, status, query, builds, readVars, result, cache, forgiven, queries,
                     failures>>
BY DEF RemoteStep, Create, Close, Tick

LEMMA RemoteKeepsControl ==
  ASSUME History, Control, RemoteStep
  PROVE  Control'
<1>1. p' = p /\ now \in Nat /\ now' \in Nat /\ now <= now'
  BY HistoryGoesOn, Clock
<1>2. /\ status' = status /\ query' = query /\ builds' = builds /\ windows' = windows
      /\ began' = began /\ cursor' = cursor /\ gathered' = gathered /\ result' = result
      /\ forgiven' = forgiven /\ queries' = queries /\ failures' = failures
  BY ReaderStands DEF readVars
<1>3. now \in 0..MaxNow /\ now' \in 0..MaxNow
  BY HistoryGoesOn DEF History
<1>4. query.last \in Nat /\ Today \in Nat /\ Today' \in Nat /\ Today <= Today'
  <2>1. query.last \in Days
    BY DEF Control
  <2>2. Day(now) \in Nat /\ Day(now') \in Nat /\ Day(now) <= Day(now')
    BY <1>1, DaysGoOn, DayOfMoment
  <2> QED BY <2>1, <2>2, DaysAndSpans DEF Today, Day
<1>5. query.begun \in Nat /\ 0..now \subseteq 0..now'
  BY <1>1 DEF Control
<1> QED BY <1>1, <1>2, <1>4, <1>5 DEF Control

LEMMA RemoteKeepsCut ==
  ASSUME History, Cut, RemoteStep
  PROVE  Cut'
<1>1. p' = p
  BY HistoryGoesOn
<1>2. query' = query /\ windows' = windows
  BY ReaderStands DEF readVars
<1> QED BY <1>1, <1>2 DEF Cut, Apart

LEMMA RemoteKeepsPaging ==
  ASSUME History, Control, Paging, RemoteStep
  PROVE  Paging'
<1>1. p' = p /\ provider' = provider
  BY HistoryGoesOn
<1>2. /\ builds' = builds /\ windows' = windows /\ began' = began /\ cursor' = cursor
      /\ gathered' = gathered
  BY ReaderStands DEF readVars
<1>3. began \in 0..now /\ cursor \in Nat
  BY Constants DEF Control
<1>4. SUFFICES ASSUME NEW s \in Spans, Earliest(s) PROVE ReadSoFar(s)'
  <2>1. \A s \in Spans : Earliest(s)' => Earliest(s)
    BY <1>2 DEF Earliest
  <2> QED BY <2>1 DEF Paging
<1>5. ReadSoFar(s)
  BY <1>4 DEF Paging
<1>6. Listed(s) \in SUBSET Things /\ Listed(s)' \in SUBSET Things /\ Listed(s) \subseteq Listed(s)'
  BY SelectionGrows DEF Listed
<1>7. \A t \in Things : gathered'[t] > 0 => Selects(t, s)'
  BY <1>2, <1>5, SelectionGrows DEF ReadSoFar
<1>8. ASSUME NEW t \in Things, ToCome(t, s) PROVE ToCome(t, s)'
  <2>1. CASE p.paging \in {"number", "token"}
    BY <1>1, <1>2, <1>8, <2>1 DEF ToCome, Ahead
  <2>2. CASE p.paging \notin {"number", "token"}
    <3>1. Rank(t, Listed(s)) >= cursor
      BY <1>8, <2>2 DEF ToCome, Ahead
    <3>2. /\ Rank(t, Listed(s)) \in Nat /\ Rank(t, Listed(s)') \in Nat
          /\ Rank(t, Listed(s)) <= Rank(t, Listed(s)')
      BY <1>6, RankGrows
    <3>3. Rank(t, Listed(s)') >= cursor
      BY <1>3, <3>1, <3>2
    <3>4. Rank(t, Listed(s))' = Rank(t, Listed(s)')
      BY <1>1 DEF Rank, Precedes
    <3> QED BY <1>1, <1>2, <2>2, <3>3, <3>4 DEF ToCome, Ahead
  <2> QED BY <2>1, <2>2
<1>9. ASSUME NEW t \in Things, Due(t, s, began)', ~NoBuilds'
      PROVE  gathered'[t] > 0 \/ ToCome(t, s)'
  <2>1. Due(t, s, began)
    <3>1. PICK m \in 0..now : m = began
      BY <1>3
    <3>2. Due(t, s, m)'
      BY <1>2, <1>9, <3>1 DEF Due
    <3> QED BY <3>1, <3>2, SelectionGrows
  <2>2. ~NoBuilds
    BY <1>1, <1>2, <1>9 DEF NoBuilds
  <2> QED BY <1>2, <1>5, <1>8, <2>1, <2>2 DEF ReadSoFar
<1>10. p.paging \notin {"token", "number"} => cursor <= Cardinality(Listed(s)')
  <2>1. Cardinality(Listed(s)) <= Cardinality(Listed(s)')
    BY <1>6, ListsAreFinite, FS_Subset
  <2>2. Cardinality(Listed(s)) \in Nat /\ Cardinality(Listed(s)') \in Nat
    BY <1>6, ListsAreFinite
  <2> QED BY <1>3, <1>5, <2>1, <2>2 DEF ReadSoFar
<1>11. Once' => Once
  BY SelectionGrows
<1>12. /\ p.paging = "whole" => gathered = Nothing
       /\ Once => \A t \in Things :
            /\ gathered[t] <= 1
            /\ p.paging = "token" => (gathered[t] > 0 => cursor # 0 /\ t >= cursor)
            /\ p.paging = "number" => (gathered[t] > 0 => t <= cursor)
       /\ p.paging = "number" /\ builds # 0 => cursor < builds
  BY <1>5 DEF ReadSoFar
<1>13. Nothing' = Nothing
  BY DEF Nothing
<1> QED BY <1>1, <1>2, <1>7, <1>9, <1>10, <1>11, <1>12, <1>13 DEF ReadSoFar

LEMMA RemoteKeepsCache ==
  ASSUME History, CacheWell, RemoteStep
  PROVE  CacheWell'
<1>1. p' = p /\ now \in Nat /\ now' \in Nat /\ now <= now'
  BY HistoryGoesOn, Clock
<1>2. cache' = cache /\ forgiven' = forgiven
  BY ReaderStands
<1>3. ASSUME NEW s \in Spans PROVE StoredWell(s)'
  <2>1. StoredWell(s) /\ cache[s] \in Entries
    BY DEF CacheWell
  <2>2. cache[s].asOf \in 0..now
    BY <1>1, <2>1 DEF StoredWell, Entries
  <2>3. PICK m \in 0..now : m = cache[s].asOf
    BY <2>2
  <2>4. \A t \in Things : Due(t, s, cache[s].asOf)' => Due(t, s, cache[s].asOf)
    <3>1. \A t \in Things : Due(t, s, cache[s].asOf)' => Due(t, s, m)'
      BY <1>2, <2>3 DEF Due
    <3> QED BY <2>3, <3>1, SelectionGrows
  <2>5. \A d : Midnight(d)' = Midnight(d)
    BY DEF Midnight
  <2>6. \A t \in Things : cache[s].things[t] > 0 => Selects(t, s)'
    BY <2>1, SelectionGrows DEF StoredWell
  <2>7. Once' = Once /\ AnsweredDays(s)' = AnsweredDays(s)
    BY SelectionGrows
  <2>8. cache[s].asOf <= now'
    BY <1>1, <2>2
  <2>9. (\A d \in AnsweredDays(s) : cache[s].asOf >= Midnight(d + 1)) =>
        (\A d \in AnsweredDays(s)' : cache'[s].asOf >= Midnight(d + 1)')
    BY <1>2, <2>5, <2>7
  <2> QED BY <1>1, <1>2, <2>1, <2>4, <2>6, <2>7, <2>8, <2>9 DEF StoredWell
<1>4. cache' \in [Spans -> Entries]
  BY <1>2 DEF CacheWell
<1> QED BY <1>3, <1>4 DEF CacheWell, Spans, Entries, Days

LEMMA KnownByNow ==
  ASSUME History, Control, CacheWell, NEW d \in QueriedDays
  PROVE  KnownUntil(d) \in 0..now
<1>1. now \in Nat /\ query.first \in Days /\ query.last \in Days /\ query.begun \in 0..now
      /\ query.first <= query.last
  BY Clock DEF Control
<1>2. d \in query.first..query.last
  BY <1>1, AnsweredDaysInSpan, DaysAndSpans DEF QueriedDays
<1>3. d \in Days
  <2>1. query.first \in Nat /\ query.last \in 0..Day(MaxNow)
    BY <1>1, DaysAndSpans DEF Days
  <2>2. Day(MaxNow) \in Nat
    BY Constants, DayOfMoment
  <2> QED BY <1>2, <2>1, <2>2 DEF Days
<1>4. DayOf(d) \in Spans /\ [first |-> query.first, last |-> query.last] \in Spans
  BY <1>1, <1>3, DaysAndSpans DEF Spans
<1>5. \A s \in Spans : cache[s].asOf \in 0..now
  BY <1>1 DEF CacheWell, StoredWell, Entries
<1> QED BY <1>1, <1>4, <1>5 DEF KnownUntil, EntryFor

LEMMA RemoteKeepsGained ==
  ASSUME History, Control, CacheWell, Gained, RemoteStep
  PROVE  Gained'
<1>1. p' = p
  BY HistoryGoesOn
<1>2. /\ status' = status /\ query' = query /\ windows' = windows /\ result' = result
      /\ cache' = cache /\ forgiven' = forgiven
  BY ReaderStands DEF readVars
<1>3. QueriedDays' = QueriedDays
  BY <1>1, <1>2 DEF QueriedDays, AnsweredDays
<1>4. \A d : (Covered(d)' <=> Covered(d)) /\ KnownUntil(d)' = KnownUntil(d)
  BY <1>1, <1>2 DEF Covered, Forgiven, KnownUntil, EntryFor
<1>5. ASSUME NEW t \in Things, result'[t] > 0
      PROVE  \E s \in Spans' : /\ query'.first <= s.first /\ s.last <= query'.last
                               /\ \A o \in windows' : Apart(s, o)'
                               /\ Selects(t, s)'
  <2>1. PICK s \in Spans : /\ query.first <= s.first /\ s.last <= query.last
                           /\ \A o \in windows : Apart(s, o)
                           /\ Selects(t, s)
    BY <1>2, <1>5 DEF Gained
  <2>2. Selects(t, s)'
    BY <2>1, SelectionGrows
  <2>3. Spans' = Spans
    BY DEF Spans, Days, Day
  <2>4. \A o \in windows' : Apart(s, o)'
    BY <1>2, <2>1 DEF Apart
  <2> QED BY <1>2, <2>1, <2>2, <2>3, <2>4
<1>6. ASSUME status' \in {"running", "done"}, NEW d \in QueriedDays', Covered(d)', NEW t \in Things,
             HappenedOn(t, d)', closed'[t] < KnownUntil(d)'
      PROVE  result'[t] > 0
  <2>1. KnownUntil(d) \in 0..now
    BY <1>3, <1>6, KnownByNow
  <2>2. HappenedOn(t, d) /\ closed[t] < KnownUntil(d)
    BY <1>4, <1>6, <2>1, SelectionGrows
  <2> QED BY <1>2, <1>3, <1>4, <1>6, <2>2 DEF Gained
<1>7. Once' => \A t \in Things : result'[t] <= 1
  BY <1>2, SelectionGrows DEF Gained
<1> QED BY <1>5, <1>6, <1>7 DEF Gained

-----------------------------------------------------------------------------
(* Steps of the query.                                                       *)

LEMMA CurrentIsEarliest ==
  ASSUME windows \in SUBSET Spans, windows # {}
  PROVE  Earliest(Current)
<1> DEFINE F == {o.first : o \in windows}
<1>1. F \in SUBSET Nat /\ F # {}
  BY DaysAndSpans
<1>2. PICK f \in F : \A y \in F : f <= y
  BY <1>1, LeastElement
<1>3. \E s \in windows : \A o \in windows : s.first <= o.first
  BY <1>2
<1> QED BY <1>3 DEF Earliest, Current

\* A call begins: nothing is gathered, and all of the list is still to come.
LEMMA FreshCall ==
  ASSUME History, UNCHANGED <<provider, remoteVars>>, cursor' = 0, gathered' = Nothing,
         builds' \in Nat,
         p.paging = "number" => windows' = {} \/ \A t \in Things : Started(t) => t <= builds'
  PROVE  Paging'
<1>1. p' = p /\ Once' = Once /\ Nothing' = Nothing
  BY RemoteStands DEF Nothing
<1> SUFFICES ASSUME NEW s \in Spans', Earliest(s)' PROVE ReadSoFar(s)'
  BY DEF Paging
<1>2. \A t \in Things : gathered'[t] = 0 /\ ~(gathered'[t] > 0)
  BY DEF Nothing
<1>3. ASSUME NEW t \in Things, Due(t, s, began)', ~NoBuilds' PROVE ToCome(t, s)'
  <2>1. CASE p.paging = "number"
    <3>1. windows' # {}
      BY DEF Earliest
    <3>2. Ended(t)' /\ Ended(t)
      BY <1>3 DEF Due, HappenedOn, Ended, remoteVars
    <3>3. Started(t)
      BY <3>2 DEF History
    <3>4. t <= builds' /\ t > 0
      BY <2>1, <3>1, <3>3, Order
    <3> QED BY <1>1, <2>1, <3>4 DEF ToCome
  <2>2. CASE p.paging = "token"
    BY <1>1, <2>2 DEF ToCome, Ahead
  <2>3. CASE p.paging \notin {"number", "token"}
    <3>1. Listed(s)' \in SUBSET Things
      BY DEF Listed
    <3>2. Rank(t, Listed(s)') \in Nat
      BY <3>1, RankGrows
    <3>3. Rank(t, Listed(s))' = Rank(t, Listed(s)')
      BY DEF Rank, Precedes, remoteVars
    <3> QED BY <1>1, <2>3, <3>2, <3>3 DEF ToCome, Ahead
  <2> QED BY <2>1, <2>2, <2>3
<1>4. Cardinality(Listed(s)') \in Nat
  <2>1. Listed(s)' \in SUBSET Things
    BY DEF Listed
  <2> QED BY <2>1, ListsAreFinite
<1>5. p.paging = "number" /\ builds' # 0 => cursor' < builds'
  OBVIOUS
<1>6. cursor' <= Cardinality(Listed(s))'
  BY <1>4
<1> QED BY <1>1, <1>2, <1>3, <1>5, <1>6 DEF ReadSoFar

\* The days of the query in one of its spans are days the request answers for.
LEMMA AnsweredInSpan ==
  ASSUME History, Control, Cut, NEW s \in windows, NEW d \in QueriedDays, d \in s.first..s.last
  PROVE  d \in AnsweredDays(s)
<1>1. Traits(provider, p)
  BY ProviderTraits DEF History
<1>2. CASE p.walk = "range"
  <2>1. s.first = query.first /\ s.last = query.last
    BY <1>2 DEF Cut
  <2> QED BY <2>1 DEF QueriedDays, AnsweredDays
<1>3. CASE p.walk # "range"
  BY <1>1, <1>3 DEF AnsweredDays, Traits
<1> QED BY <1>2, <1>3

\* A thing is not selected for two spans of a query that share no day, by those
\* who count once.
LEMMA SelectedOnce ==
  ASSUME History, Control, Cut, Once, NEW s \in windows, NEW o \in Spans, NEW t \in Things,
         query.first <= o.first, o.last <= query.last, Apart(s, o)
  PROVE  ~(Selects(t, s) /\ Selects(t, o))
<1>1. Traits(provider, p)
  BY ProviderTraits DEF History
<1>2. /\ s \in Spans /\ s.first \in Nat /\ s.last \in Nat /\ s.first <= s.last
      /\ o.first \in Nat /\ o.last \in Nat /\ o.first <= o.last
  BY DaysAndSpans DEF Control
<1>3. CASE p.walk = "range"
  BY <1>2, <1>3 DEF Cut, Apart
<1>4. CASE p.walk # "range"
  <2>1. p.window \in {"finished", "closed"}
    BY <1>1, <1>4 DEF Traits, Once
  <2> SUFFICES ASSUME Selects(t, s), Selects(t, o) PROVE FALSE
    OBVIOUS
  <2>2. \E m \in Nat : m \in s.first..s.last /\ m \in o.first..o.last
    <3>1. CASE p.window = "finished"
      <4>1. Day(created[t]) \in s.first..s.last /\ Day(created[t]) \in o.first..o.last
        BY <1>2, <3>1, SelectedDays
      <4> QED BY <1>2, <4>1
    <3>2. CASE p.window = "closed"
      <4>1. Day(closed[t]) \in s.first..s.last /\ Day(closed[t]) \in o.first..o.last
        BY <1>2, <3>2, SelectedDays
      <4> QED BY <1>2, <4>1
    <3> QED BY <2>1, <3>1, <3>2
  <2> QED BY <1>2, <2>2 DEF Apart
<1> QED BY <1>3, <1>4

\* The span s is done with and the things join the result.
Advance(s, things) ==
  /\ windows # {} /\ s = Current
  /\ UNCHANGED <<provider, remoteVars, status, query, builds, queries>>
  /\ result' = Add(result, things)
  /\ TurnTo(windows \ {Current})

LEMMA AdvanceKeepsCut ==
  ASSUME Cut, NEW s, NEW things, Advance(s, things)
  PROVE  Cut'
<1>1. p' = p /\ query' = query /\ windows' \subseteq windows
  BY DEF Advance, p, TurnTo
<1> QED BY <1>1 DEF Cut, Apart

LEMMA RangeIsSingle ==
  ASSUME Control, Cut, windows # {}, p.walk = "range"
  PROVE  windows \ {Current} = {}
<1>1. \A o \in windows : o \in Spans /\ o.first = query.first /\ o.last = query.last
  BY DEF Cut, Control
<1>2. \A o, r \in windows : o = r
  BY <1>1 DEF Spans
<1>3. Current \in windows
  BY CurrentIsEarliest DEF Control, Earliest
<1> QED BY <1>2, <1>3

LEMMA AdvanceKeepsPaging ==
  ASSUME History, Control, Cut, NEW s, NEW things, Advance(s, things)
  PROVE  Paging'
<1>1. /\ UNCHANGED <<provider, remoteVars>> /\ cursor' = 0 /\ gathered' = Nothing
      /\ builds' = builds /\ builds \in Nat
  BY Constants DEF Advance, TurnTo, Control
<1>2. p.paging = "number" => windows' = {}
  <2> SUFFICES ASSUME p.paging = "number" PROVE windows' = {}
    OBVIOUS
  <2>1. p.walk = "range"
    BY ProviderTraits DEF History, Traits
  <2> QED BY <2>1, RangeIsSingle DEF Advance, TurnTo
<1> QED BY <1>1, <1>2, FreshCall

LEMMA AdvanceKeepsControl ==
  ASSUME History, Control, Cut, NEW s, NEW things \in [Things -> Nat], Advance(s, things),
         forgiven' \subseteq Spans, p.forgives = "no" => forgiven' = {},
         failures' \in 0..MaxFailures
  PROVE  Control'
<1>1. /\ p' = p /\ now' = now /\ query' = query /\ windows' = windows \ {Current}
      /\ status' = status /\ builds' = builds /\ queries' = queries
      /\ result' = Add(result, things) /\ cursor' = 0 /\ gathered' = Nothing
      /\ began' = (IF windows' = {} THEN 0 ELSE now)
  BY DEF Advance, p, TurnTo, remoteVars
<1>2. now \in Nat /\ query.begun \in Nat /\ query.begun <= now
  BY Clock DEF Control
<1>3. began' \in 0..now' /\ (windows' # {} => query'.begun <= began')
  BY <1>1, <1>2
<1>4. p.walk = "range" => windows' = {}
  BY <1>1, RangeIsSingle DEF Advance
<1>5. gathered' \in [Things -> Nat] /\ Nothing' = Nothing
  BY <1>1 DEF Nothing
<1>6. result' \in [Things -> Nat]
  BY <1>1 DEF Add, Control
<1>7. cursor' \in 0..NumThings
  BY <1>1, Constants
<1>8. windows # {}
  BY DEF Advance
<1> QED BY <1>1, <1>3, <1>4, <1>5, <1>6, <1>7, <1>8 DEF Control, Today, Spans, Days, Day

\* What joins the result was selected for s, and covers the days of s.
LEMMA AdvanceKeepsGained ==
  ASSUME History, Control, Cut, Gained, NEW s, NEW things \in [Things -> Nat],
         Advance(s, things),
         \A t \in Things : things[t] > 0 => Selects(t, s),
         Once => \A t \in Things : things[t] <= 1,
         \A d \in QueriedDays : d \in s.first..s.last /\ ~Forgiven(d)' =>
            \A t \in Things : HappenedOn(t, d) /\ closed[t] < KnownUntil(d)' => things[t] > 0,
         \A d \in QueriedDays : d \notin s.first..s.last =>
            KnownUntil(d)' = KnownUntil(d) /\ (Forgiven(d) => Forgiven(d)')
  PROVE  Gained'
<1>1. /\ s \in windows /\ s \in Spans /\ s = Current
      /\ windows' = windows \ {s} /\ status' = status /\ query' = query
      /\ \A t \in Things : result'[t] = result[t] + things[t]
  <2>1. s = Current /\ windows # {}
    BY DEF Advance
  <2>2. s \in windows /\ s \in Spans
    BY <2>1, CurrentIsEarliest DEF Control, Earliest
  <2>3. result' = Add(result, things) /\ windows' = windows \ {s} /\ status' = status /\ query' = query
    BY <2>1 DEF Advance, TurnTo
  <2> QED BY <2>1, <2>2, <2>3 DEF Add
<1>2. /\ p' = p /\ Once' = Once /\ closed' = closed
      /\ \A t \in Things : \A o : Selects(t, o)' <=> Selects(t, o)
      /\ \A t \in Things : \A d : HappenedOn(t, d)' <=> HappenedOn(t, d)
  BY RemoteStands DEF Advance
<1>3. QueriedDays' = QueriedDays /\ Spans' = Spans
  BY <1>1, <1>2 DEF QueriedDays, AnsweredDays, Spans, Days, Day
<1>4. \A t \in Things : result[t] \in Nat /\ things[t] \in Nat
  BY DEF Control
<1>5. ASSUME NEW t \in Things, result'[t] > 0
      PROVE  \E o \in Spans : /\ query.first <= o.first /\ o.last <= query.last
                              /\ \A r \in windows' : Apart(o, r)
                              /\ Selects(t, o)
  <2>1. CASE result[t] > 0
    <3>1. PICK o \in Spans : /\ query.first <= o.first /\ o.last <= query.last
                             /\ \A r \in windows : Apart(o, r)
                             /\ Selects(t, o)
      BY <2>1 DEF Gained
    <3> QED BY <1>1, <3>1
  <2>2. CASE things[t] > 0
    <3>1. query.first <= s.first /\ s.last <= query.last /\ \A r \in windows' : Apart(s, r)
      BY <1>1 DEF Cut
    <3> QED BY <1>1, <2>2, <3>1
  <2> QED BY <1>1, <1>4, <1>5, <2>1, <2>2
<1>6. ASSUME status' \in {"running", "done"}, NEW d \in QueriedDays, Covered(d)', NEW t \in Things,
             HappenedOn(t, d), closed[t] < KnownUntil(d)'
      PROVE  result'[t] > 0
  <2>1. (\A o \in windows' : d \notin o.first..o.last) /\ ~Forgiven(d)'
    BY <1>6 DEF Covered
  <2>2. CASE d \in s.first..s.last
    <3>1. things[t] > 0
      BY <1>6, <2>1, <2>2
    <3> QED BY <1>1, <1>4, <3>1
  <2>3. CASE d \notin s.first..s.last
    <3>1. Covered(d)
      BY <1>1, <2>1, <2>3 DEF Covered
    <3>2. result[t] > 0
      BY <1>1, <1>6, <2>3, <3>1 DEF Gained
    <3> QED BY <1>1, <1>4, <3>2
  <2> QED BY <2>2, <2>3
<1>7. ASSUME Once, NEW t \in Things PROVE result'[t] <= 1
  <2>1. result[t] <= 1 /\ things[t] <= 1
    BY <1>7 DEF Gained
  <2>2. ~(result[t] > 0 /\ things[t] > 0)
    <3> SUFFICES ASSUME result[t] > 0, things[t] > 0 PROVE FALSE
      OBVIOUS
    <3>1. PICK o \in Spans : /\ query.first <= o.first /\ o.last <= query.last
                             /\ \A r \in windows : Apart(o, r)
                             /\ Selects(t, o)
      BY DEF Gained
    <3>2. Apart(s, o) /\ Selects(t, s)
      BY <1>1, <3>1 DEF Apart
    <3> QED BY <1>1, <1>7, <3>1, <3>2, SelectedOnce
  <2> QED BY <1>1, <1>4, <2>1, <2>2
<1>8. \A o, r \in Spans : Apart(o, r)' <=> Apart(o, r)
  BY DEF Apart
<1>9. windows' \subseteq Spans
  BY <1>1 DEF Control
<1>10. \A t \in Things : result'[t] > 0 =>
         \E o \in Spans' : /\ query'.first <= o.first /\ o.last <= query'.last
                           /\ \A r \in windows' : Apart(o, r)'
                           /\ Selects(t, o)'
  BY <1>1, <1>2, <1>3, <1>5, <1>8, <1>9
<1>11. status' \in {"running", "done"} =>
         \A d \in QueriedDays' : Covered(d)' =>
           \A t \in Things : HappenedOn(t, d)' /\ closed'[t] < KnownUntil(d)' => result'[t] > 0
  BY <1>2, <1>3, <1>6
<1> QED BY <1>2, <1>7, <1>10, <1>11 DEF Gained

-----------------------------------------------------------------------------
(* A query begins.                                                           *)

\* Every missing day lies in a gap, which ends where a day is not missing.
LEMMA GapAround ==
  ASSUME NEW missing \in SUBSET Days, NEW d \in missing
  PROVE  \E s \in Spans : /\ d \in s.first..s.last
                          /\ s.first..s.last \subseteq missing
                          /\ {s.first - 1, s.last + 1} \cap missing = {}
<1> DEFINE b == Day(MaxNow)
           I == {i \in 0..d : i..d \subseteq missing}
           J == {j \in 0..b : d <= j /\ d..j \subseteq missing}
<1>1. b \in Nat /\ d \in 0..b /\ missing \subseteq 0..b
  BY Constants, DayOfMoment DEF Days
<1> HIDE DEF b
<1>2. I \in SUBSET Nat /\ d \in I /\ J \in SUBSET (0..b) /\ d \in J
  BY <1>1
<1>3. PICK f \in I : \A i \in I : f <= i
  BY <1>2, LeastElement
<1>4. PICK l \in J : \A j \in J : j <= l
  BY <1>1, <1>2, GreatestElement
<1>5. /\ f \in 0..d /\ f..d \subseteq missing
      /\ l \in 0..b /\ d <= l /\ d..l \subseteq missing
  OBVIOUS
<1>6. f..l \subseteq missing /\ f <= d /\ f \in 0..b /\ f <= l
  BY <1>1, <1>5
<1>7. f - 1 \notin missing
  <2> SUFFICES ASSUME f - 1 \in missing PROVE FALSE
    OBVIOUS
  <2>1. f - 1 \in 0..d /\ (f - 1)..d \subseteq missing
    BY <1>1, <1>5
  <2>2. f <= f - 1
    BY <1>3, <2>1
  <2> QED BY <1>5, <2>2
<1>8. l + 1 \notin missing
  <2> SUFFICES ASSUME l + 1 \in missing PROVE FALSE
    OBVIOUS
  <2>1. l + 1 \in 0..b /\ d <= l + 1 /\ d..(l + 1) \subseteq missing
    BY <1>1, <1>5
  <2>2. l + 1 <= l
    BY <1>4, <2>1
  <2> QED BY <1>1, <1>5, <2>2
<1> DEFINE s == [first |-> f, last |-> l]
<1>9. s \in Spans /\ s.first = f /\ s.last = l
  BY <1>5, <1>6 DEF Spans, Days, b
<1> HIDE DEF s, I, J
<1>10. d \in s.first..s.last
  BY <1>1, <1>5, <1>6, <1>9
<1> QED BY <1>6, <1>7, <1>8, <1>9, <1>10

\* Two gaps have no day in common.
LEMMA GapsApart ==
  ASSUME NEW missing \in SUBSET Days, NEW s \in Spans, NEW o \in Spans, s # o,
         s.first..s.last \subseteq missing, {s.first - 1, s.last + 1} \cap missing = {},
         o.first..o.last \subseteq missing, {o.first - 1, o.last + 1} \cap missing = {}
  PROVE  Apart(s, o)
<1>1. /\ s.first \in Nat /\ s.last \in Nat /\ s.first <= s.last
      /\ o.first \in Nat /\ o.last \in Nat /\ o.first <= o.last
  BY DaysAndSpans
<1>2. s.first # o.first \/ s.last # o.last
  BY DEF Spans
<1> SUFFICES ASSUME s.first <= o.last, o.first <= s.last PROVE FALSE
  BY <1>1 DEF Apart
<1>3. ~(s.first < o.first)
  <2> SUFFICES ASSUME s.first < o.first PROVE o.first - 1 \in s.first..s.last
    OBVIOUS
  <2> QED BY <1>1
<1>4. ~(o.first < s.first)
  <2> SUFFICES ASSUME o.first < s.first PROVE s.first - 1 \in o.first..o.last
    OBVIOUS
  <2> QED BY <1>1
<1>5. ~(s.last < o.last)
  <2> SUFFICES ASSUME s.last < o.last PROVE s.last + 1 \in o.first..o.last
    OBVIOUS
  <2> QED BY <1>1
<1>6. ~(o.last < s.last)
  <2> SUFFICES ASSUME o.last < s.last PROVE o.last + 1 \in s.first..s.last
    OBVIOUS
  <2> QED BY <1>1
<1> QED BY <1>1, <1>2, <1>3, <1>4, <1>5, <1>6

\* The things that began are the first ones.
LEMMA StartedFirst ==
  ASSUME History, NEW t \in Things, Started(t)
  PROVE  t <= Cardinality({u \in Things : Started(u)})
<1> DEFINE S == {u \in Things : Started(u)}
<1>1. S \in SUBSET Things /\ t \in Nat /\ Things \subseteq Nat
  BY Order
<1>2. 1..t \in SUBSET S
  <2> SUFFICES ASSUME NEW u \in 1..t PROVE u \in Things /\ Started(u)
    OBVIOUS
  <2>1. u \in Things
    BY <1>1, Constants DEF Things
  <2>2. u < t \/ u = t
    BY <1>1
  <2> QED BY <2>1, <2>2 DEF History
<1>3. IsFiniteSet(S) /\ Cardinality(S) \in Nat
  BY <1>1, ListsAreFinite
<1> HIDE DEF S
<1>4. Cardinality(1..t) <= Cardinality(S)
  BY <1>2, <1>3, FS_Subset
<1>5. Cardinality(1..t) = IF 1 > t THEN 0 ELSE t - 1 + 1
  BY <1>1, FS_Interval
<1>6. t >= 1
  BY Order, <1>1
<1>7. Cardinality(1..t) = t
  BY <1>1, <1>5, <1>6
<1> QED BY <1>4, <1>7 DEF S

Missing(first, last) == { d \in first..(last - 1) : ~Hit(d) }

\* How a query's days are cut into spans.
LEMMA SpreadCuts ==
  ASSUME History, NEW first \in Days, NEW last \in Days, first <= last
  PROVE  /\ Spread(first, last) \subseteq Spans
         /\ \A s \in Spread(first, last) : first <= s.first /\ s.last <= last
         /\ \A s, o \in Spread(first, last) : s # o => Apart(s, o)
         /\ p.walk = "days" => /\ \A s \in Spread(first, last) : s.first = s.last
                               /\ \A d \in first..last : DayOf(d) \in Spread(first, last)
         /\ p.walk = "range" =>
              Spread(first, last) = {[first |-> first, last |-> last]}
         /\ p.walk = "gaps" =>
              /\ \A s \in Spread(first, last) : s.last < last
              /\ \A s \in Spread(first, last) : s.first..s.last \subseteq Missing(first, last)
              /\ \A d \in Missing(first, last) :
                   \E s \in Spread(first, last) : d \in s.first..s.last
<1>1. first \in Nat /\ last \in Nat /\ first..last \subseteq Days
  <2>1. Day(MaxNow) \in Nat
    BY Constants, DayOfMoment
  <2> QED BY <2>1 DEF Days
<1>2. p.walk \in {"days", "range", "gaps"}
  BY ProviderTraits DEF History, Traits
<1> DEFINE S == Spread(first, last)
<1>3. CASE p.walk = "days"
  <2>1. S = {DayOf(d) : d \in first..last}
    BY <1>3 DEF Spread
  <2>2. \A d \in first..last : DayOf(d) \in Spans /\ DayOf(d).first = d /\ DayOf(d).last = d
    BY <1>1, DaysAndSpans
  <2>3. \A s, o \in S : s # o => Apart(s, o)
    <3> SUFFICES ASSUME NEW d \in first..last, NEW e \in first..last, DayOf(d) # DayOf(e)
                 PROVE  Apart(DayOf(d), DayOf(e))
      BY <2>1
    <3>1. d # e
      OBVIOUS
    <3> QED BY <1>1, <2>2, <3>1 DEF Apart
  <2> HIDE DEF S
  <2>4. \A s \in S : s \in Spans /\ s.first = s.last /\ first <= s.first /\ s.last <= last
    BY <1>1, <2>1, <2>2
  <2>5. \A d \in first..last : DayOf(d) \in S
    BY <2>1
  <2> QED BY <1>3, <2>3, <2>4, <2>5 DEF S
<1>4. CASE p.walk = "range"
  <2>1. S = {[first |-> first, last |-> last]}
    BY <1>4 DEF Spread
  <2>2. [first |-> first, last |-> last] \in Spans
    BY DEF Spans
  <2> HIDE DEF S
  <2> QED BY <1>1, <1>4, <2>1, <2>2 DEF S
<1>5. CASE p.walk = "gaps"
  <2> DEFINE M == Missing(first, last)
  <2>1. S = {s \in Spans : /\ s.first..s.last \subseteq M
                           /\ {s.first - 1, s.last + 1} \cap M = {}}
    BY <1>5 DEF Spread, Gaps, Missing
  <2>2. M \in SUBSET Days /\ \A d \in M : d \in first..(last - 1)
    BY <1>1 DEF Missing
  <2> HIDE DEF S, M
  <2>3. \A s, o \in S : s # o => Apart(s, o)
    BY <2>1, <2>2, GapsApart
  <2>4. ASSUME NEW s \in S
        PROVE  s \in Spans /\ first <= s.first /\ s.last < last /\ s.last <= last
    <3>1. s \in Spans /\ s.first \in Nat /\ s.last \in Nat /\ s.first <= s.last
      BY <2>1, DaysAndSpans
    <3>2. s.first \in M /\ s.last \in M
      BY <2>1, <3>1
    <3> QED BY <1>1, <2>2, <3>1, <3>2
  <2>5. ASSUME NEW d \in M PROVE \E s \in S : d \in s.first..s.last
    BY <2>1, <2>2, GapAround
  <2>6. \A s \in S : s.first..s.last \subseteq M
    BY <2>1
  <2> QED BY <1>5, <2>3, <2>4, <2>5, <2>6 DEF S, M
<1> QED BY <1>2, <1>3, <1>4, <1>5

LEMMA BeginDoes ==
  ASSUME NEW first \in Days, Begin(first)
  PROVE  /\ UNCHANGED <<provider, remoteVars, cache, failures>> /\ p' = p
         /\ status' = "running" /\ queries' = queries + 1 /\ queries < MaxQueries
         /\ query' = [first |-> first, last |-> Today, begun |-> now]
         /\ builds' = IF p.paging = "number" THEN Cardinality({ t \in Things : Started(t) }) ELSE 0
         /\ windows' = Spread(first, Today)
         /\ began' = (IF windows' = {} THEN 0 ELSE now)
         /\ cursor' = 0 /\ gathered' = Nothing
         /\ result' = IF p.walk = "gaps" THEN Cached(first, Today) ELSE Nothing
         /\ forgiven' = IF p.walk = "gaps" THEN {} ELSE forgiven
BY DEF Begin, TurnTo, p

LEMMA BeginKeepsControl ==
  ASSUME History, Control, NEW first \in Days, first <= Today, Begin(first)
  PROVE  Control' /\ Cut' /\ Paging'
<1>1. now \in Nat /\ Today \in Days /\ Today \in Nat /\ first \in Nat
  BY Clock, DaysAndSpans DEF Today, History
<1>2. /\ query'.first = first /\ query'.last = Today /\ query'.begun = now
      /\ query' \in [first : Days, last : Days, begun : Nat]
      /\ now' = now /\ p' = p
  <2>1. query' = [first |-> first, last |-> Today, begun |-> now] /\ p' = p /\ now' = now
    BY BeginDoes DEF remoteVars
  <2> QED BY <1>1, <2>1
<1>3. Cardinality({t \in Things : Started(t)}) \in 0..NumThings
  <2>1. {t \in Things : Started(t)} \in SUBSET Things
    OBVIOUS
  <2> QED BY <2>1, ListsAreFinite, Constants
<1>4. builds' \in 0..NumThings /\ builds' \in Nat
  BY <1>3, BeginDoes, Constants
<1>5. result' \in [Things -> Nat] /\ gathered' \in [Things -> Nat]
  <2>1. Cached(first, Today) \in [Things -> Nat] /\ Nothing \in [Things -> Nat]
    BY DEF Cached, Nothing
  <2>2. gathered' = Nothing /\ (result' = Cached(first, Today) \/ result' = Nothing)
    BY BeginDoes
  <2> QED BY <2>1, <2>2
<1>6. windows' \subseteq Spans
  <2>1. windows' = Spread(first, Today)
    BY BeginDoes
  <2> QED BY <1>1, <2>1, SpreadCuts
<1>7. began' \in 0..now' /\ (windows' # {} => began' = now)
  <2>1. began' = (IF windows' = {} THEN 0 ELSE now)
    BY BeginDoes
  <2> QED BY <1>1, <1>2, <2>1
<1>8. forgiven' \subseteq Spans /\ (p.forgives = "no" => forgiven' = {})
  BY BeginDoes DEF Control
<1>9. queries' \in 0..MaxQueries /\ failures' \in 0..MaxFailures /\ cursor' \in 0..NumThings
  <2>1. /\ queries' = queries + 1 /\ queries < MaxQueries /\ failures' = failures /\ cursor' = 0
        /\ queries \in 0..MaxQueries /\ failures \in 0..MaxFailures
    BY BeginDoes DEF Control
  <2> QED BY <2>1, Constants
<1>10. Nothing' = Nothing /\ Spans' = Spans /\ Days' = Days
  BY DEF Nothing, Spans, Days, Day
<1>11. Control'
  <2>1. Today' = Today /\ query'.last = Day(query'.begun) /\ Day(query.begun)' = Day(query'.begun)
    BY <1>2 DEF Today, Day
  <2>2. status' = "running" /\ gathered' = Nothing /\ cursor' = 0
    BY BeginDoes
  <2> QED BY <1>1, <1>2, <1>4, <1>5, <1>6, <1>7, <1>8, <1>9, <1>10, <2>1, <2>2 DEF Control
<1>12. Cut'
  <2>1. windows' = Spread(first, Today)
    BY BeginDoes
  <2>2. \A s, o \in Spans : Apart(s, o)' <=> Apart(s, o)
    BY DEF Apart
  <2>3. /\ \A s \in windows' : first <= s.first /\ s.last <= Today
        /\ \A s, o \in windows' : s # o => Apart(s, o)
        /\ p.walk = "days" => \A s \in windows' : s.first = s.last
        /\ p.walk = "range" => windows' = {[first |-> first, last |-> Today]}
        /\ p.walk = "gaps" => \A s \in windows' : s.last < Today
    BY <1>1, <2>1, SpreadCuts
  <2>4. p.walk = "range" => \A s \in windows' : s.first = first /\ s.last = Today
    BY <2>3
  <2> HIDE <2>1
  <2> QED BY <1>2, <1>6, <2>2, <2>3, <2>4 DEF Cut
<1>13. Paging'
  <2>1. p.paging = "number" => \A t \in Things : Started(t) => t <= builds'
    BY StartedFirst, BeginDoes
  <2> QED BY <1>4, <2>1, FreshCall, BeginDoes
<1> QED BY <1>11, <1>12, <1>13

\* An entry that is not touched is as good as before.
LEMMA StoredWellStays ==
  ASSUME UNCHANGED <<provider, remoteVars>>, NEW s, cache'[s] = cache[s],
         s \in forgiven /\ p.walk # "gaps" => s \in forgiven',
         StoredWell(s)
  PROVE  StoredWell(s)'
<1>1. /\ p' = p /\ now' = now /\ Once' = Once /\ AnsweredDays(s)' = AnsweredDays(s)
      /\ \A t \in Things : Selects(t, s)' <=> Selects(t, s)
      /\ \A t \in Things : \A m : Due(t, s, m)' <=> Due(t, s, m)
  BY RemoteStands
<1>2. \A t \in Things : Due(t, s, cache[s].asOf)' => Due(t, s, cache[s].asOf)
  <2> SUFFICES ASSUME NEW t \in Things, Due(t, s, cache[s].asOf)' PROVE Due(t, s, cache[s].asOf)
    OBVIOUS
  <2>1. PICK d \in AnsweredDays(s) : HappenedOn(t, d)' /\ closed'[t] < cache'[s].asOf
    BY <1>1 DEF Due
  <2>2. HappenedOn(t, d) /\ closed'[t] = closed[t]
    BY <2>1, RemoteStands
  <2> QED BY <2>1, <2>2 DEF Due
<1>3. (\A d \in AnsweredDays(s) : cache[s].asOf >= Midnight(d + 1)) =>
        (\A d \in AnsweredDays(s)' : cache'[s].asOf >= Midnight(d + 1)')
  BY <1>1 DEF Midnight
<1> QED BY <1>1, <1>2, <1>3 DEF StoredWell

LEMMA CacheStays ==
  ASSUME CacheWell, UNCHANGED <<provider, remoteVars, cache>>,
         p.walk # "gaps" => forgiven \subseteq forgiven'
  PROVE  CacheWell'
<1>1. \A s \in Spans : StoredWell(s)'
  BY StoredWellStays DEF CacheWell
<1>2. cache' \in [Spans -> Entries]
  BY DEF CacheWell
<1> QED BY <1>1, <1>2 DEF CacheWell, Spans, Entries, Days, Day

LEMMA BeginKeepsCache ==
  ASSUME CacheWell, NEW first \in Days, Begin(first)
  PROVE  CacheWell'
<1>1. p.walk # "gaps" => forgiven' = forgiven
  BY BeginDoes
<1> QED BY <1>1, BeginDoes, CacheStays

\* The days that Azure issues are served from the cache for.
LEMMA HitsAreGood ==
  ASSUME History, CacheWell, p.walk = "gaps", NEW d \in Days
  PROVE  /\ \A t \in Things : cache[DayOf(d)].things[t] > 0 => Selects(t, DayOf(d))
         /\ \A t \in Things : HappenedOn(t, d) /\ closed[t] < cache[DayOf(d)].asOf
              => cache[DayOf(d)].things[t] > 0
<1>1. /\ DayOf(d) \in Spans /\ DayOf(d).first = d /\ DayOf(d).last = d /\ d \in Nat
  BY DaysAndSpans
<1>2. StoredWell(DayOf(d))
  BY <1>1 DEF CacheWell
<1>3. d \in AnsweredDays(DayOf(d))
  <2>1. p.window = "closed"
    BY ProviderTraits DEF History, Traits
  <2> QED BY <1>1, <2>1 DEF AnsweredDays
<1> QED BY <1>2, <1>3 DEF StoredWell, Due

LEMMA BeginKeepsGained ==
  ASSUME History, Control, CacheWell, NEW first \in Days, first <= Today, Begin(first)
  PROVE  Gained'
<1>1. now \in Nat /\ Today \in Days /\ Today \in Nat /\ first \in Nat
  BY Clock, DaysAndSpans DEF Today, History
<1>2. /\ query'.first = first /\ query'.last = Today
      /\ windows' = Spread(first, Today) /\ cache' = cache
      /\ result' = IF p.walk = "gaps" THEN Cached(first, Today) ELSE Nothing
  <2>1. query' = [first |-> first, last |-> Today, begun |-> now]
    BY BeginDoes
  <2>2. /\ windows' = Spread(first, Today) /\ cache' = cache
        /\ result' = IF p.walk = "gaps" THEN Cached(first, Today) ELSE Nothing
    BY BeginDoes
  <2> QED BY <2>1, <2>2
<1>3. /\ p' = p /\ Once' = Once /\ closed' = closed
      /\ \A t \in Things : \A o : Selects(t, o)' <=> Selects(t, o)
      /\ \A t \in Things : \A d : HappenedOn(t, d)' <=> HappenedOn(t, d)
  <2>1. UNCHANGED <<provider, remoteVars>>
    BY BeginDoes
  <2> QED BY <2>1, RemoteStands
<1>4. Spans' = Spans /\ \A s, o : Apart(s, o)' <=> Apart(s, o)
  BY DEF Spans, Days, Day, Apart
<1>5. \A t \in Things : result'[t] \in {0, 1}
  BY <1>2 DEF Cached, Nothing
<1>6. first..Today \subseteq Days /\ first..Today \subseteq Nat
  <2>1. Day(MaxNow) \in Nat
    BY Constants, DayOfMoment
  <2> QED BY <1>1, <2>1 DEF Days
<1>7. QueriedDays' \subseteq first..Today /\ (p.walk = "gaps" => QueriedDays' \subseteq first..(Today - 1))
  <2>1. ASSUME NEW d \in QueriedDays' PROVE d \in first..Today /\ (p.walk = "gaps" => d < Today)
    <3>1. d \in AnsweredDays(query)' /\ (p.walk = "gaps" => d < Today)
      BY <1>2, <1>3 DEF QueriedDays
    <3>2. d \in first..Today
      BY <1>1, <1>2, <3>1 DEF AnsweredDays
    <3> QED BY <3>1, <3>2
  <2> QED BY <1>1, <2>1
<1>8. CASE p.walk = "gaps"
  <2> DEFINE hits == {d \in first..(Today - 1) : Hit(d)}
             M == Missing(first, Today)
  <2>1. \A t \in Things : result'[t] > 0 <=> \E d \in hits : cache[DayOf(d)].things[t] > 0
    BY <1>2, <1>8 DEF Cached
  <2>2. /\ \A s \in windows' : s \in Spans /\ s.first..s.last \subseteq M
        /\ \A d \in M : \E s \in windows' : d \in s.first..s.last
    BY <1>1, <1>2, <1>8, SpreadCuts
  <2>3. \A d \in hits : d \in first..(Today - 1) /\ d \notin M /\ d \in Days
    BY <1>1, <1>6 DEF Missing
  <2>4. \A d \in first..(Today - 1) : d \in hits \/ d \in M
    BY DEF Missing
  <2> HIDE DEF hits, M
  <2>5. ASSUME NEW t \in Things, result'[t] > 0
        PROVE  \E s \in Spans : /\ first <= s.first /\ s.last <= Today
                                /\ \A o \in windows' : Apart(s, o)
                                /\ Selects(t, s)
    <3>1. PICK d \in hits : cache[DayOf(d)].things[t] > 0
      BY <2>1, <2>5
    <3>2. /\ DayOf(d) \in Spans /\ DayOf(d).first = d /\ DayOf(d).last = d
          /\ d \in first..(Today - 1) /\ d \in Nat /\ d \in Days
      BY <2>3, DaysAndSpans
    <3>3. Selects(t, DayOf(d))
      BY <1>8, <3>1, <3>2, HitsAreGood
    <3>4. ASSUME NEW o \in windows' PROVE Apart(DayOf(d), o)
      <4>1. o \in Spans /\ o.first \in Nat /\ o.last \in Nat /\ d \notin o.first..o.last
        BY <2>2, <2>3, DaysAndSpans
      <4> QED BY <3>2, <4>1 DEF Apart
    <3>5. first <= DayOf(d).first /\ DayOf(d).last <= Today
      BY <1>1, <3>2
    <3> QED BY <3>2, <3>3, <3>4, <3>5
  <2>6. ASSUME NEW d \in QueriedDays', Covered(d)', NEW t \in Things,
               HappenedOn(t, d), closed[t] < KnownUntil(d)'
        PROVE  result'[t] > 0
    <3>1. d \in first..(Today - 1) /\ d \in Days
      BY <1>1, <1>6, <1>7, <1>8, <2>6
    <3>2. d \notin M
      BY <2>2, <2>6 DEF Covered
    <3>3. d \in hits
      BY <2>4, <3>1, <3>2
    <3>4. KnownUntil(d)' = cache[DayOf(d)].asOf
      <4>1. p.cached
        BY <1>8, ProviderTraits DEF History, Traits
      <4>2. DayOf(d)' = DayOf(d)
        BY DEF DayOf
      <4> QED BY <1>2, <1>3, <1>8, <4>1, <4>2 DEF KnownUntil, EntryFor
    <3>5. cache[DayOf(d)].things[t] > 0
      BY <1>8, <2>6, <3>1, <3>4, HitsAreGood
    <3> QED BY <2>1, <3>3, <3>5
  <2> QED BY <1>2, <1>3, <1>4, <1>5, <2>5, <2>6 DEF Gained
<1>9. CASE p.walk # "gaps"
  <2>1. \A t \in Things : result'[t] = 0
    BY <1>2, <1>9 DEF Nothing
  <2>2. ASSUME NEW d \in QueriedDays' PROVE ~Covered(d)'
    <3> SUFFICES \E o \in windows' : d \in o.first..o.last
      BY DEF Covered
    <3>1. d \in first..Today
      BY <1>7, <2>2
    <3>2. CASE p.walk = "days"
      <4>1. DayOf(d) \in windows' /\ DayOf(d).first = d /\ DayOf(d).last = d /\ d \in Nat
        BY <1>1, <1>2, <1>6, <3>1, <3>2, SpreadCuts, DaysAndSpans
      <4> QED BY <4>1
    <3>3. CASE p.walk = "range"
      <4>1. [first |-> first, last |-> Today] \in windows'
        BY <1>1, <1>2, <3>3, SpreadCuts
      <4> QED BY <3>1, <4>1
    <3> QED BY <1>9, <3>2, <3>3, ProviderTraits DEF History, Traits
  <2> QED BY <2>1, <2>2 DEF Gained
<1> QED BY <1>8, <1>9

-----------------------------------------------------------------------------
(* A span is read and stored.                                                *)

LEMMA DayIsOver ==
  ASSUME NEW m \in Nat, NEW d \in Nat, d < Day(m)
  PROVE  Midnight(d + 1) <= m
<1>1. Day(m) \in Nat /\ Midnight(Day(m)) <= m
  BY DayOfMoment
<1>2. d + 1 \in Int /\ Day(m) \in Int /\ d + 1 <= Day(m)
  BY <1>1
<1>3. Midnight(d + 1) <= Midnight(Day(m)) /\ Midnight(d + 1) \in Int /\ Midnight(Day(m)) \in Int
  BY <1>2, Midnights
<1> QED BY <1>1, <1>3

\* The span being read.
LEMMA CurrentSpan ==
  ASSUME History, Control, Cut, windows # {}, NEW s, s = Current
  PROVE  /\ s \in windows /\ s \in Spans /\ Earliest(s)
         /\ s.first \in Nat /\ s.last \in Nat /\ s.first <= s.last
         /\ query.first <= s.first /\ s.last <= query.last
         /\ query.first \in Nat /\ query.last \in Nat
         /\ status = "running" /\ query.last = Day(query.begun)
         /\ began \in Nat /\ began <= now /\ query.begun \in Nat /\ query.begun <= began
         /\ query.last <= Day(began)
         /\ p.walk = "range" => began = query.begun
<1>1. s \in windows /\ s \in Spans /\ Earliest(s)
  BY CurrentIsEarliest DEF Control, Earliest
<1>2. /\ s.first \in Nat /\ s.last \in Nat /\ s.first <= s.last
      /\ query.first \in Nat /\ query.last \in Nat
  BY <1>1, DaysAndSpans DEF Control
<1>3. query.first <= s.first /\ s.last <= query.last
  BY <1>1 DEF Cut
<1>4. /\ status = "running" /\ query.last = Day(query.begun)
      /\ began \in Nat /\ began <= now /\ query.begun \in Nat /\ query.begun <= began
      /\ p.walk = "range" => began = query.begun
  BY Clock DEF Control
<1>5. Day(query.begun) <= Day(began)
  BY <1>4, DaysGoOn
<1> QED BY <1>1, <1>2, <1>3, <1>4, <1>5

\* An entry that does not expire is about days that were over when its call began.
LEMMA KeptForGood ==
  ASSUME History, Control, Cut, windows # {}, NEW s, s = Current, p.cached, p.walk # "gaps",
         ExpireAt(s) = Never, NEW d \in AnsweredDays(s)
  PROVE  Midnight(d + 1) <= began
<1>1. /\ s \in windows /\ s \in Spans /\ s.first \in Nat /\ s.last \in Nat
      /\ s.last <= query.last /\ query.last \in Nat /\ query.last <= Day(began)
      /\ began \in Nat /\ now \in Nat
  BY CurrentSpan, Clock
<1>2. Day(began) # s.first
  BY <1>1, Constants DEF ExpireAt, Never
<1>3. Day(began) \in Nat
  BY <1>1, DayOfMoment
<1>4. d \in s.first..s.last /\ d \in Nat /\ (p.window = "resolved" => d \in s.first..(s.last - 1))
  BY <1>1, AnsweredDaysInSpan
<1>5. Traits(provider, p)
  BY ProviderTraits DEF History
<1>6. CASE p.walk = "days"
  <2>1. s.first = s.last
    BY <1>1, <1>6 DEF Cut
  <2>2. d < Day(began)
    BY <1>1, <1>2, <1>3, <1>4, <2>1
  <2> QED BY <1>1, <1>4, <2>2, DayIsOver
<1>7. CASE p.walk = "range"
  <2>1. p.window = "resolved"
    BY <1>5, <1>7 DEF Traits
  <2>2. d < Day(began)
    BY <1>1, <1>3, <1>4, <2>1
  <2> QED BY <1>1, <1>4, <2>2, DayIsOver
<1> QED BY <1>5, <1>6, <1>7 DEF Traits

\* The things are what the request selects for s, with all that was due when the
\* call began.
Complement(s, things) ==
  /\ things \in [Things -> Nat]
  /\ \A t \in Things : things[t] > 0 => Selects(t, s)
  /\ Once => \A t \in Things : things[t] <= 1
\* Stored for the span, or by Azure issues for each past day of it, they make
\* good entries, unless they were cut short.
LEMMA StoredKeepsCache ==
  ASSUME History, Control, Cut, CacheWell, windows # {}, NEW s, s = Current, NEW things,
         Complement(s, things),
         UNCHANGED <<provider, remoteVars>>, cache' = StoredIn(s, things),
         forgiven \ {s} \subseteq forgiven',
         \/ s \in forgiven' /\ p.walk # "gaps"
         \/ \A t \in Things : Due(t, s, began) => things[t] > 0
  PROVE  CacheWell'
<1>1. /\ s \in windows /\ s \in Spans /\ s.first \in Nat /\ s.last \in Nat
      /\ s.last <= query.last /\ query.last \in Nat /\ query.last <= Day(began)
      /\ query.last = Day(query.begun)
      /\ began \in Nat /\ now \in Nat /\ began <= now
  BY CurrentSpan, Clock
<1>2. /\ p' = p /\ now' = now /\ Once' = Once
      /\ \A o : AnsweredDays(o)' = AnsweredDays(o)
      /\ \A t \in Things : \A o : Selects(t, o)' <=> Selects(t, o)
      /\ \A t \in Things : \A d : HappenedOn(t, d)' <=> HappenedOn(t, d)
      /\ closed' = closed
  BY RemoteStands
<1>3. Traits(provider, p)
  BY ProviderTraits DEF History
<1>4. things \in [Things -> Nat]
  BY DEF Complement
<1>5. \A d : Midnight(d)' = Midnight(d)
  BY DEF Midnight
<1>6. Spans' = Spans /\ Entries' = Entries
  BY DEF Spans, Days, Day, Entries
<1>7. CASE ~p.cached
  <2>1. cache' = cache
    BY <1>7 DEF StoredIn
  <2>2. forgiven = {}
    BY <1>3, <1>7 DEF Traits, Control
  <2> QED BY <2>1, <2>2, CacheStays
<1>8. CASE p.cached /\ p.walk # "gaps"
  <2> DEFINE e == [things |-> things, asOf |-> began, expireAt |-> ExpireAt(s)]
  <2>1. cache' = [cache EXCEPT ![s] = e]
    BY <1>8 DEF StoredIn
  <2>2. ExpireAt(s) \in {-2, Never} \union 0..(MaxNow + TodayTtl)
    <3>1. now \in 0..MaxNow
      BY DEF History
    <3> QED BY <3>1, Constants DEF ExpireAt
  <2>3. e \in Entries /\ e.things = things /\ e.asOf = began /\ e.expireAt = ExpireAt(s)
    BY <1>1, <1>4, <2>2 DEF Entries
  <2> HIDE DEF e
  <2>4. cache' \in [Spans -> Entries] /\ cache'[s] = e
        /\ \A c \in Spans : c # s => cache'[c] = cache[c]
    BY <1>1, <2>1, <2>3 DEF CacheWell
  <2>5. ASSUME NEW c \in Spans, c # s PROVE StoredWell(c)'
    <3>1. cache'[c] = cache[c] /\ (c \in forgiven => c \in forgiven') /\ StoredWell(c)
      BY <2>4, <2>5 DEF CacheWell
    <3> QED BY <3>1, StoredWellStays
  <2>6. StoredWell(s)'
    <3>1. \A t \in Things : Due(t, s, cache[s].asOf)' => Due(t, s, began)
      <4> SUFFICES ASSUME NEW t \in Things, Due(t, s, cache[s].asOf)' PROVE Due(t, s, began)
        OBVIOUS
      <4>1. PICK d \in AnsweredDays(s) : HappenedOn(t, d)' /\ closed'[t] < cache'[s].asOf
        BY <1>2 DEF Due
      <4> QED BY <1>2, <2>3, <2>4, <4>1 DEF Due
    <3>2. ExpireAt(s) = Never => \A d \in AnsweredDays(s) : began >= Midnight(d + 1)
      <4> SUFFICES ASSUME ExpireAt(s) = Never, NEW d \in AnsweredDays(s)
                   PROVE  Midnight(d + 1) <= began
        <5>1. \A d \in AnsweredDays(s) : d + 1 \in Int
          BY <1>1, AnsweredDaysInSpan
        <5> QED BY <1>1, <5>1, Midnights
      <4> QED BY <1>1, <1>8, KeptForGood
    <3>3. cache'[s].expireAt = Never => \A d \in AnsweredDays(s)' : cache'[s].asOf >= Midnight(d + 1)'
      BY <1>2, <1>5, <2>3, <2>4, <3>2
    <3>4. (s \in forgiven' /\ p'.walk # "gaps") \/ \A t \in Things : Due(t, s, cache[s].asOf)' => things[t] > 0
      BY <1>2, <3>1
    <3> QED BY <1>1, <1>2, <2>3, <2>4, <3>3, <3>4 DEF StoredWell, Complement
  <2> QED BY <1>6, <2>4, <2>5, <2>6 DEF CacheWell
<1>9. CASE p.cached /\ p.walk = "gaps"
  <2>1. p.window = "closed"
    BY <1>3, <1>9 DEF Traits
  <2> DEFINE Own(c) == c.first = c.last /\ c.first \in s.first..s.last /\ c.first < Day(query.begun)
             dated(c) == [t \in Things |-> IF Day(closed[t]) = c.first THEN things[t] ELSE 0]
             e(c) == [things |-> dated(c), asOf |-> began, expireAt |-> Never]
  <2>2. cache' = [c \in Spans |-> IF Own(c) THEN e(c) ELSE cache[c]]
    BY <1>9 DEF StoredIn
  <2>3. ASSUME NEW c \in Spans
        PROVE  /\ e(c) \in Entries /\ e(c).asOf = began /\ e(c).expireAt = Never /\ e(c).things = dated(c)
               /\ \A t \in Things : dated(c)[t] = IF Day(closed[t]) = c.first THEN things[t] ELSE 0
    <3>1. dated(c) \in [Things -> Nat]
      BY <1>4
    <3> QED BY <1>1, <3>1 DEF Entries
  <2> HIDE DEF e, dated
  <2>4. cache' \in [Spans -> Entries]
    BY <2>2, <2>3 DEF CacheWell
  <2>5. ASSUME NEW c \in Spans, ~Own(c) PROVE StoredWell(c)'
    <3>1. cache'[c] = cache[c] /\ StoredWell(c)
      BY <2>2, <2>5 DEF CacheWell
    <3> QED BY <1>9, <3>1, StoredWellStays
  <2>6. ASSUME NEW c \in Spans, Own(c) PROVE StoredWell(c)'
    <3>1. cache'[c] = e(c)
      BY <2>2, <2>6
    <3>2. c.first \in Nat /\ c.last = c.first
      BY <2>6, DaysAndSpans
    <3>3. AnsweredDays(c) = {c.first} /\ AnsweredDays(c)' = {c.first}
      <4>1. AnsweredDays(c) = c.first..c.first
        BY <2>1, <3>2 DEF AnsweredDays
      <4> QED BY <1>2, <3>2, <4>1
    <3>4. ASSUME NEW t \in Things, dated(c)[t] > 0 PROVE Selects(t, c)
      <4>1. Day(closed[t]) = c.first /\ things[t] > 0
        BY <2>3, <3>4
      <4>2. Selects(t, s)
        BY <4>1 DEF Complement
      <4>3. closed[t] \in Nat /\ Started(t) /\ Ended(t)
        BY <1>1, <2>1, <4>2, SelectedDays DEF Selects, ClosedIn
      <4>4. Midnight(c.first) <= closed[t] /\ closed[t] < Midnight(c.last + 1)
        BY <3>2, <4>1, <4>3, WithinDays
      <4>5. Midnight(c.first) \in Int /\ Midnight(c.last + 1) \in Int
        BY <3>2, Midnights
      <4>6. closed[t] \in Midnight(c.first)..(Midnight(c.last + 1) - 1)
        BY <4>3, <4>4, <4>5
      <4> QED BY <2>1, <4>3, <4>6 DEF Selects, ClosedIn
    <3>5. ASSUME NEW t \in Things, Due(t, c, cache[c].asOf)' PROVE dated(c)[t] > 0
      <4>1. HappenedOn(t, c.first)' /\ closed'[t] < cache'[c].asOf
        BY <3>3, <3>5 DEF Due
      <4>2. HappenedOn(t, c.first) /\ closed[t] < began
        BY <1>2, <2>3, <3>1, <4>1
      <4>3. c.first \in AnsweredDays(s)
        BY <2>1, <2>6 DEF AnsweredDays
      <4>4. things[t] > 0
        BY <1>9, <4>2, <4>3 DEF Due
      <4> QED BY <2>3, <4>2, <4>4 DEF HappenedOn
    <3>6. Midnight(c.first + 1) <= began
      <4>1. c.first < Day(began)
        <5>1. Day(began) \in Nat
          BY <1>1, DayOfMoment
        <5> QED BY <1>1, <2>6, <3>2, <5>1
      <4> QED BY <1>1, <3>2, <4>1, DayIsOver
    <3>7. \A d \in AnsweredDays(c)' : cache'[c].asOf >= Midnight(d + 1)'
      <4>1. Midnight(c.first + 1) \in Int
        BY <3>2, Midnights
      <4> QED BY <1>1, <1>5, <2>3, <3>1, <3>3, <3>6, <4>1
    <3>8. Once => \A t \in Things : dated(c)[t] <= 1
      BY <2>3 DEF Complement
    <3>9. cache'[c].things = dated(c) /\ cache'[c].asOf <= now'
      BY <1>1, <1>2, <2>3, <3>1
    <3> QED BY <1>2, <3>4, <3>5, <3>7, <3>8, <3>9 DEF StoredWell
  <2> QED BY <1>6, <2>4, <2>5, <2>6 DEF CacheWell
<1> QED BY <1>7, <1>8, <1>9

\* A day of a span that is cut short is excused.
LEMMA GivenUp ==
  ASSUME Cut, NEW s \in windows, s \in Spans, s \in forgiven', UNCHANGED <<provider, query>>,
         NEW d \in s.first..s.last
  PROVE  Forgiven(d)'
<1>1. p' = p
  BY DEF p
<1>2. CASE p.walk = "range"
  <2>1. s = [first |-> query.first, last |-> query.last]
    BY <1>2 DEF Cut, Spans
  <2> QED BY <1>1, <1>2, <2>1 DEF Forgiven
<1>3. CASE p.walk # "range"
  BY <1>1, <1>3 DEF Forgiven
<1> QED BY <1>2, <1>3

\* A day outside the span keeps what is known of it.
LEMMA OtherDays ==
  ASSUME History, Control, Cut, windows # {}, NEW s, s = Current, NEW things,
         UNCHANGED <<provider, query>>, cache' = StoredIn(s, things) \/ cache' = cache,
         forgiven \ {s} \subseteq forgiven',
         NEW d \in QueriedDays, d \notin s.first..s.last
  PROVE  KnownUntil(d)' = KnownUntil(d) /\ (Forgiven(d) => Forgiven(d)')
<1>1. /\ s \in windows /\ s \in Spans /\ s.first \in Nat /\ s.last \in Nat
      /\ query.first \in Nat /\ query.last \in Nat
  BY CurrentSpan
<1>2. p' = p
  BY DEF p
<1>3. d \in query.first..query.last /\ d \in Nat
  BY <1>1, AnsweredDaysInSpan DEF QueriedDays
<1>4. p.walk # "range"
  BY <1>1, <1>3 DEF Cut
<1>5. Forgiven(d) => Forgiven(d)'
  BY <1>2, <1>4 DEF Forgiven
<1>6. DayOf(d) \in Spans /\ DayOf(d).first = d /\ DayOf(d).last = d
  <2>1. query.first \in Days /\ query.last \in Days
    BY DEF Control
  <2>2. Day(MaxNow) \in Nat
    BY Constants, DayOfMoment
  <2>3. d \in Days
    BY <1>1, <1>3, <2>1, <2>2 DEF Days
  <2> QED BY <2>3, DaysAndSpans
<1>7. cache'[DayOf(d)] = cache[DayOf(d)]
  <2>1. DayOf(d) # s
    <3>1. d \in DayOf(d).first..DayOf(d).last
      BY <1>3, <1>6
    <3> QED BY <3>1
  <2>2. DayOf(d).first \notin s.first..s.last
    BY <1>6
  <2>3. CASE cache' = cache \/ ~p.cached
    BY <2>3 DEF StoredIn
  <2>4. CASE cache' = StoredIn(s, things) /\ p.cached /\ p.walk # "gaps"
    BY <1>6, <2>1, <2>4 DEF StoredIn
  <2>5. CASE cache' = StoredIn(s, things) /\ p.cached /\ p.walk = "gaps"
    BY <1>6, <2>2, <2>5 DEF StoredIn
  <2> QED BY <2>3, <2>4, <2>5
<1>8. KnownUntil(d)' = KnownUntil(d)
  BY <1>2, <1>4, <1>7 DEF KnownUntil, EntryFor, DayOf
<1> QED BY <1>5, <1>8

\* What is known of a day of the span is what its call found.
LEMMA DaysJustRead ==
  ASSUME History, Control, Cut, CacheWell, windows # {}, NEW s, s = Current,
         NEW things \in [Things -> Nat],
         UNCHANGED <<provider, query>>, cache' = StoredIn(s, things),
         NEW d \in QueriedDays, d \in s.first..s.last
  PROVE  KnownUntil(d)' = began
<1>1. /\ s \in windows /\ s \in Spans /\ s.first \in Nat /\ s.last \in Nat
      /\ query.last = Day(query.begun) /\ (p.walk = "range" => began = query.begun)
  BY CurrentSpan
<1>2. p' = p
  BY DEF p
<1>3. Traits(provider, p)
  BY ProviderTraits DEF History
<1>4. CASE ~p.cached
  BY <1>1, <1>2, <1>3, <1>4 DEF KnownUntil, Traits
<1>5. CASE p.cached /\ p.walk # "gaps"
  <2> DEFINE e == [things |-> things, asOf |-> began, expireAt |-> ExpireAt(s)]
  <2>1. cache' = [cache EXCEPT ![s] = e]
    BY <1>5 DEF StoredIn
  <2>2. cache'[s] = e /\ e.asOf = began
    BY <1>1, <2>1 DEF CacheWell
  <2>3. s = IF p.walk = "range" THEN [first |-> query.first, last |-> query.last] ELSE DayOf(d)
    <3>1. CASE p.walk = "range"
      BY <1>1, <3>1 DEF Cut, Spans
    <3>2. CASE p.walk = "days"
      <4>1. s.first = d /\ s.last = d
        BY <1>1, <3>2 DEF Cut
      <4> QED BY <1>1, <3>2, <4>1 DEF DayOf, Spans
    <3> QED BY <1>3, <1>5, <3>1, <3>2 DEF Traits
  <2> HIDE DEF e
  <2>4. EntryFor(d)' = cache'[s]
    BY <1>2, <2>3 DEF EntryFor, DayOf
  <2> QED BY <1>2, <1>5, <2>2, <2>4 DEF KnownUntil
<1>6. CASE p.cached /\ p.walk = "gaps"
  <2>1. DayOf(d) \in Spans /\ DayOf(d).first = d /\ DayOf(d).last = d
    <3>1. s.first \in Days /\ s.last \in Days /\ Day(MaxNow) \in Nat
      BY <1>1, DaysAndSpans, Constants, DayOfMoment
    <3>2. d \in Days
      BY <1>1, <3>1 DEF Days
    <3> QED BY <3>2, DaysAndSpans
  <2>2. d < Day(query.begun)
    BY <1>1, <1>6 DEF QueriedDays
  <2>3. cache'[DayOf(d)].asOf = began
    BY <1>6, <2>1, <2>2 DEF StoredIn
  <2> QED BY <1>2, <1>6, <2>3 DEF KnownUntil, EntryFor, DayOf
<1> QED BY <1>4, <1>5, <1>6

LEMMA ServeCachedKeeps ==
  ASSUME IInv, ServeCached
  PROVE  IInv'
<1> USE DEF IInv
<1>1. PICK s : s = Current
  OBVIOUS
<1> DEFINE things == cache[s].things
<1>2. /\ windows # {} /\ p.cached /\ p.walk # "gaps"
      /\ Advance(s, things) /\ UNCHANGED <<provider, remoteVars, query, cache, forgiven, failures>>
  BY <1>1 DEF ServeCached, Reading, Fresh, Advance
<1>3. /\ s \in windows /\ s \in Spans /\ s.first \in Nat /\ s.last \in Nat
      /\ query.first \in Nat /\ query.last \in Nat
  BY <1>1, <1>2, CurrentSpan
<1>4. StoredWell(s) /\ things \in [Things -> Nat]
  BY <1>3 DEF CacheWell, Entries
<1>5. p' = p
  BY <1>2 DEF p
<1>6. Complement(s, things)
  BY <1>4 DEF StoredWell, Complement
<1>7. ASSUME NEW d \in QueriedDays, d \in s.first..s.last, ~Forgiven(d)', NEW t \in Things,
             HappenedOn(t, d), closed[t] < KnownUntil(d)'
      PROVE  things[t] > 0
  <2>1. s = IF p.walk = "range" THEN [first |-> query.first, last |-> query.last] ELSE DayOf(d)
    <3>1. CASE p.walk = "range"
      BY <1>3, <3>1 DEF Cut, Spans
    <3>2. CASE p.walk = "days"
      <4>1. s.first = d /\ s.last = d
        BY <1>3, <1>7, <3>2 DEF Cut
      <4> QED BY <1>3, <3>2, <4>1 DEF DayOf, Spans
    <3> QED BY <1>2, <3>1, <3>2, ProviderTraits DEF Traits, History
  <2>2. KnownUntil(d)' = cache[s].asOf
    BY <1>2, <1>5, <2>1 DEF KnownUntil, EntryFor, DayOf
  <2>3. s \notin forgiven
    BY <1>2, <1>5, <1>7, <2>1 DEF Forgiven
  <2>4. d \in AnsweredDays(s)
    BY <1>3, <1>7, AnsweredInSpan
  <2>5. Due(t, s, cache[s].asOf)
    BY <1>7, <2>2, <2>4 DEF Due
  <2> QED BY <1>4, <2>3, <2>5 DEF StoredWell
<1>8. \A d \in QueriedDays : d \notin s.first..s.last =>
        KnownUntil(d)' = KnownUntil(d) /\ (Forgiven(d) => Forgiven(d)')
  <2>1. UNCHANGED <<provider, query>> /\ cache' = cache /\ forgiven \ {s} \subseteq forgiven'
    BY <1>2
  <2> QED BY <1>1, <1>2, <2>1, OtherDays
<1> HIDE DEF things
<1>9. Gained'
  <2> HIDE DEF IInv
  <2>1. History /\ Control /\ Cut /\ Gained
    BY DEF IInv
  <2> QED BY <1>2, <1>4, <1>6, <1>7, <1>8, <2>1, AdvanceKeepsGained DEF Complement
<1>10. Control'
  <2>1. /\ forgiven' \subseteq Spans /\ (p.forgives = "no" => forgiven' = {})
        /\ failures' \in 0..MaxFailures
    BY <1>2 DEF Control
  <2> QED BY <1>2, <1>4, <2>1, AdvanceKeepsControl
<1>11. History' /\ Cut' /\ Paging' /\ CacheWell'
  BY <1>2, RemoteStands, AdvanceKeepsCut, AdvanceKeepsPaging, CacheStays
<1> QED BY <1>9, <1>10, <1>11

-----------------------------------------------------------------------------
(* A page is read.                                                           *)

\* What has been gathered of s with the page at the cursor.
Taken(s) ==
  [t \in Things |->
     IF provider = "githubIssues" /\ gathered[t] > 0 THEN 1
     ELSE gathered[t] + (IF t \in Page(Listed(s)) /\ Selects(t, s) THEN 1 ELSE 0)]

LEMMA ReadPageDoes ==
  ASSUME ReadPage, NEW s, s = Current
  PROVE  /\ windows # {} /\ ~NoBuilds
         /\ UNCHANGED <<provider, remoteVars, query, builds, queries, failures>>
         /\ IF IsLast(Listed(s), Page(Listed(s))) THEN Complete(s, Taken(s), CutShort(Listed(s), Page(Listed(s))))
            ELSE /\ gathered' = Taken(s) /\ cursor' = NextCursor(Page(Listed(s)))
                 /\ UNCHANGED <<status, windows, began, result, cache, forgiven>>
<1> DEFINE list == Listed(s)
           page == Page(list)
           kept == [t \in Things |-> IF t \in page /\ Selects(t, s) THEN 1 ELSE 0]
           all  == [t \in Things |->
                       IF provider = "githubIssues" /\ gathered[t] > 0 THEN 1
                       ELSE gathered[t] + kept[t]]
<1>1. all = Taken(s)
  BY DEF Taken
<1> HIDE DEF all
<1>2. IF IsLast(list, page) THEN Complete(s, all, CutShort(list, page))
      ELSE /\ gathered' = all
           /\ cursor' = NextCursor(page)
           /\ UNCHANGED <<status, windows, began, result, cache, forgiven>>
  BY DEF ReadPage, all
<1> QED BY <1>1, <1>2 DEF ReadPage, Reading

\* The items of a page by token are new, and so is a build by its number.
LEMMA PageIsNew ==
  ASSUME History, Control, NEW s \in Spans, ReadSoFar(s), Once,
         NEW t \in Page(Listed(s)), t \in Things, provider # "githubIssues"
  PROVE  gathered[t] = 0
<1>1. /\ gathered[t] \in Nat /\ cursor \in Nat /\ t \in Nat /\ provider \in Providers
  BY Order, Constants DEF Control, History
<1>2. Traits(provider, p)
  BY <1>1, ProviderTraits
<1>3. Listed(s) \in SUBSET Things
  BY DEF Listed
<1>4. CASE p.paging = "token"
  <2>1. Reader
    BY <1>1, <1>4 DEF Reader, Control
  <2>2. t \in Listed(s) /\ Rank(t, Listed(s)) \in Skipped(Listed(s))..(Skipped(Listed(s)) + PageSize - 1)
    BY <1>4 DEF Page
  <2>3. Skipped(Listed(s)) \in Nat /\ Rank(t, Listed(s)) \in Nat
    BY <1>3, <2>1, <2>2, SkippedIsNat, RankBounds
  <2>4. Rank(t, Listed(s)) >= Skipped(Listed(s))
    BY <2>2, <2>3, Constants
  <2>5. cursor = 0 \/ t < cursor
    BY <1>3, <1>4, <2>1, <2>2, <2>4, AheadByRank DEF Ahead
  <2> QED BY <1>1, <1>4, <2>5 DEF ReadSoFar
<1>5. CASE p.paging = "number"
  <2>1. t = cursor + 1
    BY <1>5 DEF Page
  <2> QED BY <1>1, <1>5, <2>1 DEF ReadSoFar
<1>6. CASE provider = "azureIssues"
  <2>1. p.paging = "whole"
    BY <1>2, <1>6 DEF Traits
  <2> QED BY <2>1 DEF ReadSoFar, Nothing
<1> QED BY <1>4, <1>5, <1>6 DEF Once

LEMMA TakenIsSelected ==
  ASSUME History, Control, NEW s \in Spans, ReadSoFar(s)
  PROVE  /\ Complement(s, Taken(s))
         /\ \A t \in Things : gathered[t] > 0 => Taken(s)[t] > 0
         /\ \A t \in Things : t \in Page(Listed(s)) /\ Selects(t, s) => Taken(s)[t] > 0
         /\ \A t \in Things : Taken(s)[t] > 0 => gathered[t] > 0 \/ t \in Page(Listed(s))
<1>1. \A t \in Things : gathered[t] \in Nat
  BY DEF Control
<1>2. \A t \in Things :
        Taken(s)[t] = IF provider = "githubIssues" /\ gathered[t] > 0 THEN 1
                      ELSE gathered[t] + (IF t \in Page(Listed(s)) /\ Selects(t, s) THEN 1 ELSE 0)
  BY DEF Taken
<1>3. Taken(s) \in [Things -> Nat]
  BY <1>1 DEF Taken
<1>4. \A t \in Things : gathered[t] > 0 => Selects(t, s)
  BY DEF ReadSoFar
<1>5. ASSUME Once, NEW t \in Things PROVE Taken(s)[t] <= 1
  <2>1. gathered[t] <= 1
    BY <1>5 DEF ReadSoFar
  <2>2. provider # "githubIssues" /\ t \in Page(Listed(s)) => gathered[t] = 0
    BY <1>5, PageIsNew
  <2> QED BY <1>1, <1>2, <2>1, <2>2
<1>6. ASSUME NEW t \in Things
      PROVE  /\ Taken(s)[t] > 0 => Selects(t, s) /\ (gathered[t] > 0 \/ t \in Page(Listed(s)))
             /\ gathered[t] > 0 => Taken(s)[t] > 0
             /\ t \in Page(Listed(s)) /\ Selects(t, s) => Taken(s)[t] > 0
  BY <1>1, <1>2, <1>4
<1> QED BY <1>3, <1>5, <1>6 DEF Complement

\* Thing t is ahead of the next page.
ComesLater(t, s) ==
  IF p.paging = "number" THEN t > cursor + 1 /\ t <= builds
  ELSE IF p.paging = "token" THEN t < NextCursor(Page(Listed(s)))
  ELSE Rank(t, Listed(s)) >= NextCursor(Page(Listed(s)))

\* What is due is taken with this page, or the list goes on and it is to come,
\* unless the limit cuts the list short.
LEMMA DueIsTaken ==
  ASSUME History, Control, NEW s \in Spans, s = Current, ReadSoFar(s), ~NoBuilds,
         ~CutShort(Listed(s), Page(Listed(s))), NEW t \in Things, Due(t, s, began)
  PROVE  \/ Taken(s)[t] > 0
         \/ /\ ~IsLast(Listed(s), Page(Listed(s)))
            /\ ComesLater(t, s)
<1> DEFINE list == Listed(s)
<1>1. /\ cursor \in Nat /\ builds \in Nat /\ t \in Nat /\ provider \in Providers /\ list \in SUBSET Things
  BY Order, Constants DEF Control, History, Listed
<1>2. Traits(provider, p)
  BY <1>1, ProviderTraits
<1>3. Selects(t, s)
  BY DueIsSelected DEF Due
<1>4. t \in list
  BY <1>3 DEF Listed, Selects, ClosedIn
<1>5. gathered[t] > 0 \/ ToCome(t, s)
  BY DEF ReadSoFar
<1>6. CASE gathered[t] > 0
  BY <1>6, TakenIsSelected
<1>7. CASE ToCome(t, s) /\ p.paging = "number"
  <2>1. t > cursor /\ t <= builds /\ builds # 0 /\ cursor < builds
    BY <1>1, <1>7 DEF ToCome, NoBuilds, ReadSoFar
  <2>2. Page(list) = {cursor + 1}
    BY <1>7 DEF Page
  <2>3. t = cursor + 1 => Taken(s)[t] > 0
    BY <1>3, <2>2, TakenIsSelected
  <2>4. t # cursor + 1 => cursor + 1 # builds /\ t > cursor + 1
    BY <1>1, <2>1
  <2>5. IsLast(list, Page(list)) => cursor + 1 = builds
    BY <1>2, <1>7 DEF IsLast, AtLimit, Traits
  <2> QED BY <1>7, <2>1, <2>3, <2>4, <2>5 DEF ComesLater
<1>8. CASE ToCome(t, s) /\ p.paging # "number"
  <2>1. Reader
    BY <1>1, <1>8 DEF Reader, Control
  <2>2. Ahead(t, list)
    BY <1>8 DEF ToCome
  <2>3. p.paging = "until" =>
          Since(t, Current) /\ \A u \in list : t < u => created[t] <= created[u]
    <3> SUFFICES ASSUME p.paging = "until"
                 PROVE  Since(t, s) /\ \A u \in list : t < u => created[t] <= created[u]
      OBVIOUS
    <3>1. p.window = "inside" /\ p.instant
      BY <1>2 DEF Traits
    <3>2. Midnight(s.first) \in Int /\ created[t] \in Int
      BY MomentsTyped, DaysAndSpans, Midnights
    <3>3. Since(t, s)
      BY <1>3, <3>1, <3>2 DEF Selects, Inside, Since
    <3>4. \A u \in list : Started(u)
      BY <3>1 DEF Listed, Selects
    <3> QED BY <1>1, <3>3, <3>4 DEF History
  <2>4. created \in [Things -> Int] /\ Current.first \in Int
    <3>1. s.first \in Nat
      BY DaysAndSpans
    <3>2. created \in [Things -> {NotYet} \union 0..now] /\ now \in Nat
      BY Clock DEF History
    <3> QED BY <3>1, <3>2 DEF NotYet
  <2>5. \/ t \in Page(list)
        \/ /\ ~IsLast(list, Page(list))
           /\ IF p.paging = "token" THEN t < NextCursor(Page(list))
                                    ELSE Rank(t, list) >= NextCursor(Page(list))
    BY <1>1, <1>4, <2>1, <2>2, <2>3, <2>4, PageByPage
  <2>6. t \in Page(list) => Taken(s)[t] > 0
    BY <1>3, TakenIsSelected
  <2> QED BY <1>8, <2>5, <2>6 DEF ComesLater
<1> QED BY <1>5, <1>6, <1>7, <1>8

\* The next page.
LEMMA PageGoesOn ==
  ASSUME History, Control, NEW s \in Spans, s = Current, ReadSoFar(s), ~NoBuilds,
         ~IsLast(Listed(s), Page(Listed(s))),
         gathered' = Taken(s), cursor' = NextCursor(Page(Listed(s))),
         UNCHANGED <<provider, remoteVars, builds, began>>
  PROVE  cursor' \in 0..NumThings /\ ReadSoFar(s)'
<1> DEFINE list == Listed(s)
           page == Page(list)
<1>1. /\ cursor \in Nat /\ builds \in Nat /\ builds <= NumThings /\ provider \in Providers
      /\ list \in SUBSET Things /\ NumThings \in Nat
  BY Constants DEF Control, History, Listed
<1>2. /\ p' = p /\ Once' = Once /\ Listed(s)' = list
      /\ \A t \in Things : Selects(t, s)' <=> Selects(t, s)
      /\ \A t \in Things : \A m : Due(t, s, m)' <=> Due(t, s, m)
  BY RemoteStands
<1>3. p.paging # "whole"
  BY DEF IsLast
<1>4. ASSUME p.paging = "number"
      PROVE  /\ page = {cursor + 1} /\ cursor' = cursor + 1
             /\ cursor' <= NumThings /\ cursor' < builds
  <2>1. page = {cursor + 1} /\ cursor + 1 # builds /\ builds # 0 /\ cursor < builds
    BY <1>4 DEF Page, IsLast, NoBuilds, ReadSoFar
  <2>2. Cardinality({cursor + 1}) = 1
    BY FS_Singleton
  <2>3. cursor' = cursor + 1
    BY <1>4, <2>1, <2>2 DEF NextCursor
  <2> QED BY <1>1, <2>1, <2>3
<1>5. ASSUME p.paging # "number"
      PROVE  /\ cursor' \in 0..NumThings
             /\ p.paging # "token" => cursor' <= Cardinality(list)
             /\ p.paging = "token" => cursor' # 0 /\ cursor' = Min(page) /\ page # {}
  <2>1. Reader
    BY <1>1, <1>5 DEF Reader, Control
  <2>2. p.paging # "token" => cursor <= Cardinality(list)
    BY <1>5 DEF ReadSoFar
  <2> QED BY <1>1, <2>1, <2>2, NextCursorBounds
<1>6. cursor' \in 0..NumThings
  BY <1>1, <1>4, <1>5
<1>7. \A t \in Things : gathered'[t] > 0 => Selects(t, s)'
  BY <1>2, TakenIsSelected DEF Complement
<1>8. ASSUME NEW t \in Things, Due(t, s, began)', ~NoBuilds'
      PROVE  gathered'[t] > 0 \/ ToCome(t, s)'
  <2>1. Due(t, s, began)
    <3>1. PICK d \in AnsweredDays(s)' : HappenedOn(t, d)' /\ closed'[t] < began'
      BY <1>8 DEF Due
    <3>2. d \in AnsweredDays(s) /\ HappenedOn(t, d) /\ closed' = closed
      BY <3>1, RemoteStands
    <3> QED BY <3>1, <3>2 DEF Due
  <2>2. CASE Taken(s)[t] > 0
    BY <2>2
  <2>3. CASE ~(Taken(s)[t] > 0)
    <3>1. ComesLater(t, s)
      <4>1. ~CutShort(list, page)
        BY DEF CutShort, IsLast
      <4> QED BY <2>1, <2>3, <4>1, DueIsTaken
    <3>2. CASE p.paging = "number"
      BY <1>2, <1>4, <3>1, <3>2 DEF ToCome, ComesLater
    <3>3. CASE p.paging = "token"
      BY <1>2, <3>1, <3>3 DEF ToCome, Ahead, ComesLater
    <3>4. CASE p.paging \notin {"number", "token"}
      <4>1. Rank(t, list) >= cursor'
        BY <3>1, <3>4 DEF ComesLater
      <4>2. Rank(t, Listed(s))' = Rank(t, list)
        BY <1>2 DEF Rank, Precedes
      <4> QED BY <1>2, <3>4, <4>1, <4>2 DEF ToCome, Ahead
    <3> QED BY <3>2, <3>3, <3>4
  <2> QED BY <2>2, <2>3
<1>9. ASSUME Once, NEW t \in Things
      PROVE  /\ gathered'[t] <= 1
             /\ p.paging = "token" => (gathered'[t] > 0 => cursor' # 0 /\ t >= cursor')
             /\ p.paging = "number" => (gathered'[t] > 0 => t <= cursor')
  <2>1. gathered'[t] <= 1
    BY <1>9, TakenIsSelected DEF Complement
  <2>2. gathered'[t] > 0 => gathered[t] > 0 \/ t \in page
    BY TakenIsSelected
  <2>3. t \in Nat /\ Things \subseteq Nat
    BY Order
  <2>4. ASSUME p.paging = "token", gathered'[t] > 0 PROVE cursor' # 0 /\ t >= cursor'
    <3>1. Reader
      BY <1>1, <2>4 DEF Reader, Control
    <3>2. /\ cursor' # 0 /\ cursor' = Min(page) /\ page # {} /\ page \subseteq list
          /\ Min(page) \in page /\ \A u \in page : Min(page) <= u
      BY <1>1, <1>5, <2>4, <3>1, PageIsChunk
    <3>3. CASE t \in page
      BY <2>3, <3>2, <3>3, <1>6
    <3>4. CASE gathered[t] > 0
      <4>1. cursor # 0 /\ t >= cursor
        BY <1>9, <2>4, <3>4 DEF ReadSoFar
      <4>2. Min(page) \in Nat /\ Min(page) \in list /\ Min(page) \in Things
        BY <1>1, <2>3, <3>2
      <4>3. Min(page) < cursor
        <5>1. Rank(Min(page), list) \in Skipped(list)..(Skipped(list) + PageSize - 1)
          BY <2>4, <3>2 DEF Page
        <5>2. Skipped(list) \in Nat /\ Rank(Min(page), list) \in Nat
          BY <1>1, <3>1, <4>2, SkippedIsNat, RankBounds
        <5>3. Rank(Min(page), list) >= Skipped(list)
          BY <5>1, <5>2, Constants
        <5>4. Ahead(Min(page), list)
          BY <1>1, <3>1, <4>2, <5>3, AheadByRank
        <5> QED BY <2>4, <4>1, <5>4 DEF Ahead
      <4> QED BY <1>1, <2>3, <3>2, <4>1, <4>2, <4>3
    <3> QED BY <2>2, <2>4, <3>2, <3>3, <3>4
  <2>5. ASSUME p.paging = "number", gathered'[t] > 0 PROVE t <= cursor'
    <3>1. cursor' = cursor + 1 /\ page = {cursor + 1}
      BY <1>4, <2>5
    <3>2. gathered[t] > 0 => t <= cursor
      BY <1>9, <2>5 DEF ReadSoFar
    <3> QED BY <1>1, <2>2, <2>3, <2>5, <3>1, <3>2
  <2> QED BY <2>1, <2>4, <2>5
<1>10. p'.paging \notin {"token", "number"} => cursor' <= Cardinality(Listed(s))'
  BY <1>2, <1>5
<1>11. p'.paging = "number" /\ builds' # 0 => cursor' < builds'
  BY <1>2, <1>4
<1> QED BY <1>2, <1>3, <1>6, <1>7, <1>8, <1>9, <1>10, <1>11 DEF ReadSoFar

LEMMA ReadPageKeeps ==
  ASSUME IInv, ReadPage
  PROVE  IInv'
<1>0. PICK s : s = Current
  OBVIOUS
<1>1. /\ windows # {} /\ ~NoBuilds
      /\ UNCHANGED <<provider, remoteVars, query, builds, queries, failures>>
      /\ IF IsLast(Listed(s), Page(Listed(s)))
         THEN Complete(s, Taken(s), CutShort(Listed(s), Page(Listed(s))))
         ELSE /\ gathered' = Taken(s) /\ cursor' = NextCursor(Page(Listed(s)))
              /\ UNCHANGED <<status, windows, began, result, cache, forgiven>>
  BY <1>0, ReadPageDoes
<1>2. History /\ Control /\ Cut /\ Paging /\ CacheWell /\ Gained
  BY DEF IInv
<1>3. s \in Spans /\ s \in windows /\ Earliest(s) /\ ReadSoFar(s)
  <2>1. s \in Spans /\ s \in windows /\ Earliest(s)
    BY <1>0, <1>1, <1>2, CurrentSpan
  <2> QED BY <1>2, <2>1 DEF Paging
<1>4. History'
  BY <1>1, <1>2, RemoteStands
<1>5. CASE IsLast(Listed(s), Page(Listed(s)))
  <2>1. Complement(s, Taken(s))
    BY <1>2, <1>3, TakenIsSelected
  <2>2. CutShort(Listed(s), Page(Listed(s))) \/ \A t \in Things : Due(t, s, began) => Taken(s)[t] > 0
    BY <1>0, <1>1, <1>2, <1>3, <1>5, DueIsTaken
  <2>3. PICK things, cut : things = Taken(s) /\ cut = CutShort(Listed(s), Page(Listed(s)))
    OBVIOUS
  <2>4. /\ Advance(s, things) /\ cache' = StoredIn(s, things)
        /\ forgiven' = IF cut THEN forgiven \union {s} ELSE forgiven \ {s}
        /\ UNCHANGED <<provider, remoteVars, query, failures>>
    <3>1. Complete(s, things, cut)
      BY <1>1, <1>5, <2>3
    <3> QED BY <1>0, <1>1, <3>1 DEF Complete, Advance
  <2>5. /\ Complement(s, things) /\ things \in [Things -> Nat]
        /\ cut \/ \A t \in Things : Due(t, s, began) => things[t] > 0
    BY <2>1, <2>2, <2>3 DEF Complement
  <2>6. cut => s \in forgiven' /\ p.walk # "gaps" /\ p.forgives # "no"
    <3>1. cut => provider = "azureCommits"
      BY <2>3 DEF CutShort, AtLimit
    <3> QED BY <1>2, <2>4, <3>1, ProviderTraits DEF Traits, History
  <2>7. Control'
    <3>1. /\ forgiven' \subseteq Spans /\ (p.forgives = "no" => forgiven' = {})
          /\ failures' \in 0..MaxFailures
      BY <1>2, <1>3, <2>4, <2>6 DEF Control
    <3> QED BY <1>2, <2>4, <2>5, <3>1, AdvanceKeepsControl
  <2>8. CacheWell'
    <3>1. forgiven \ {s} \subseteq forgiven'
      BY <2>4
    <3> QED BY <1>0, <1>1, <1>2, <2>4, <2>5, <2>6, <3>1, StoredKeepsCache
  <2>9. Gained'
    <3>1. ASSUME NEW d \in QueriedDays, d \in s.first..s.last, ~Forgiven(d)', NEW t \in Things,
                 HappenedOn(t, d), closed[t] < KnownUntil(d)'
          PROVE  things[t] > 0
      <4>1. KnownUntil(d)' = began
        BY <1>0, <1>1, <1>2, <2>4, <2>5, <3>1, DaysJustRead
      <4>2. d \in AnsweredDays(s)
        BY <1>2, <1>3, <3>1, AnsweredInSpan
      <4>3. Due(t, s, began)
        BY <3>1, <4>1, <4>2 DEF Due
      <4>4. ~cut
        BY <1>1, <1>2, <1>3, <2>6, <3>1, GivenUp
      <4> QED BY <2>5, <4>3, <4>4
    <3>2. \A d \in QueriedDays : d \notin s.first..s.last =>
            KnownUntil(d)' = KnownUntil(d) /\ (Forgiven(d) => Forgiven(d)')
      <4>1. UNCHANGED <<provider, query>> /\ forgiven \ {s} \subseteq forgiven'
        BY <2>4
      <4> QED BY <1>0, <1>1, <1>2, <2>4, <4>1, OtherDays
    <3> QED BY <1>2, <2>4, <2>5, <3>1, <3>2, AdvanceKeepsGained DEF Complement
  <2> QED BY <1>2, <1>4, <2>4, <2>7, <2>8, <2>9, AdvanceKeepsCut, AdvanceKeepsPaging DEF IInv
<1>6. CASE ~IsLast(Listed(s), Page(Listed(s)))
  <2>1. /\ gathered' = Taken(s) /\ cursor' = NextCursor(Page(Listed(s)))
        /\ UNCHANGED <<status, windows, began, result, cache, forgiven>>
    BY <1>1, <1>6
  <2>2. cursor' \in 0..NumThings /\ ReadSoFar(s)'
    BY <1>0, <1>1, <1>2, <1>3, <1>6, <2>1, PageGoesOn
  <2>3. gathered' \in [Things -> Nat]
    BY <1>2, <1>3, <2>1, TakenIsSelected DEF Complement
  <2>4. /\ provider' = provider /\ p' = p /\ now' = now /\ query' = query /\ builds' = builds
        /\ queries' = queries /\ failures' = failures /\ status' = status /\ windows' = windows
        /\ began' = began /\ result' = result /\ cache' = cache /\ forgiven' = forgiven
    BY <1>1, <2>1 DEF p, remoteVars
  <2>5. Control'
    BY <1>1, <1>2, <2>2, <2>3, <2>4 DEF Control, Today, Spans, Days, Day
  <2>6. Cut'
    BY <1>2, <2>4 DEF Cut, Apart
  <2>7. Paging'
    <3> SUFFICES ASSUME NEW o \in Spans, Earliest(o)' PROVE o = s
      BY <2>2 DEF Paging, Spans, Days, Day
    <3>1. o \in windows /\ o.first <= s.first /\ s.first <= o.first
      BY <1>3, <2>4 DEF Earliest
    <3>2. s.first \in Nat /\ o.first \in Nat /\ s.last \in Nat /\ o.last \in Nat
          /\ s.first <= s.last /\ o.first <= o.last
      BY <1>3, DaysAndSpans
    <3>3. s # o => Apart(s, o)
      BY <1>2, <1>3, <3>1 DEF Cut
    <3> QED BY <3>1, <3>2, <3>3 DEF Apart
  <2>8. CacheWell'
    BY <1>1, <1>2, <2>1, CacheStays
  <2>9. Gained'
    <3>1. /\ Once' = Once /\ closed' = closed
          /\ \A t \in Things : \A o : Selects(t, o)' <=> Selects(t, o)
          /\ \A t \in Things : \A d : HappenedOn(t, d)' <=> HappenedOn(t, d)
          /\ \A o : AnsweredDays(o)' = AnsweredDays(o)
      BY <1>1, RemoteStands
    <3>2. /\ QueriedDays' = QueriedDays /\ Spans' = Spans
          /\ \A o, r : Apart(o, r)' <=> Apart(o, r)
      BY <2>4 DEF QueriedDays, AnsweredDays, Spans, Days, Day, Apart
    <3>3. \A d : (Covered(d)' <=> Covered(d)) /\ KnownUntil(d)' = KnownUntil(d)
      BY <2>4 DEF Covered, Forgiven, KnownUntil, EntryFor
    <3> QED BY <1>2, <2>4, <3>1, <3>2, <3>3 DEF Gained
  <2> QED BY <1>4, <2>5, <2>6, <2>7, <2>8, <2>9 DEF IInv
<1> QED BY <1>5, <1>6

-----------------------------------------------------------------------------
(* A request fails; the query is answered, and its answer taken.             *)

\* The query is over: nothing is left to read.
LEMMA OverKeeps ==
  ASSUME IInv, UNCHANGED <<provider, remoteVars, builds, cache, forgiven, queries>>,
         windows' = {}, cursor' = 0, gathered' = Nothing, began' \in {0, began},
         failures' \in 0..MaxFailures,
         \/ status' = "failed" /\ UNCHANGED <<query, result>> /\ status = "running"
         \/ status' = "done" /\ UNCHANGED <<query, result>> /\ status = "running" /\ windows = {}
  PROVE  IInv'
<1>1. History /\ Control /\ Cut /\ Paging /\ CacheWell /\ Gained
  BY DEF IInv
<1>2. /\ Once' = Once /\ closed' = closed /\ p' = p /\ now' = now
      /\ \A t \in Things : \A o : Selects(t, o)' <=> Selects(t, o)
      /\ \A t \in Things : \A d : HappenedOn(t, d)' <=> HappenedOn(t, d)
      /\ \A o : AnsweredDays(o)' = AnsweredDays(o)
      /\ History'
  BY <1>1, RemoteStands
<1>3. Nothing' = Nothing /\ Nothing \in [Things -> Nat]
  BY DEF Nothing
<1>4. Control'
  <2>1. began' \in 0..now'
    BY <1>1, <1>2, Clock DEF Control
  <2>2. cursor' \in 0..NumThings
    BY Constants
  <2> QED BY <1>1, <1>2, <1>3, <2>1, <2>2 DEF Control, Today, Spans, Days, Day
<1>5. Cut' /\ Paging'
  BY DEF Cut, Paging, Earliest
<1>6. CacheWell'
  BY <1>1, CacheStays
<1>7. Gained'
  <2>1. QueriedDays' = QueriedDays /\ Spans' = Spans
    BY <1>2 DEF QueriedDays, AnsweredDays, Spans, Days, Day
  <2>2. \A d : KnownUntil(d)' = KnownUntil(d) /\ (status' = "done" => (Covered(d)' <=> Covered(d)))
    BY <1>2 DEF Covered, Forgiven, KnownUntil, EntryFor
  <2>3. \A t \in Things : result'[t] > 0 =>
          \E o \in Spans' : /\ query'.first <= o.first /\ o.last <= query'.last
                            /\ \A r \in windows' : Apart(o, r)'
                            /\ Selects(t, o)'
    BY <1>1, <1>2, <2>1 DEF Gained
  <2>4. status' \in {"running", "done"} =>
          \A d \in QueriedDays' : Covered(d)' =>
            \A t \in Things : HappenedOn(t, d)' /\ closed'[t] < KnownUntil(d)' => result'[t] > 0
    BY <1>1, <1>2, <2>1, <2>2 DEF Gained
  <2> QED BY <1>1, <1>2, <2>3, <2>4 DEF Gained
<1> QED BY <1>2, <1>4, <1>5, <1>6, <1>7 DEF IInv

LEMMA FailKeeps ==
  ASSUME IInv, Fail
  PROVE  IInv'
<1>0. PICK s : s = Current
  OBVIOUS
<1>1. History /\ Control /\ Cut /\ Paging /\ CacheWell /\ Gained
  BY DEF IInv
<1>2. /\ windows # {} /\ status = "running"
      /\ UNCHANGED <<provider, remoteVars, query, builds, queries>>
  BY DEF Fail, Reading
<1>3. failures' \in 0..MaxFailures
  <2>1. failures' = failures \/ (failures < MaxFailures /\ failures' = failures + 1)
    BY DEF Fail
  <2>2. failures \in 0..MaxFailures
    BY <1>1 DEF Control
  <2> QED BY <2>1, <2>2, Constants
<1>4. s \in Spans /\ s \in windows /\ ReadSoFar(s)
  <2>1. s \in Spans /\ s \in windows /\ Earliest(s)
    BY <1>0, <1>1, <1>2, CurrentSpan
  <2> QED BY <1>1, <2>1 DEF Paging
<1>5. CASE status' = "failed" /\ TurnTo({}) /\ UNCHANGED <<result, cache, forgiven>>
  <2>1. windows' = {} /\ cursor' = 0 /\ gathered' = Nothing /\ began' = 0
    BY <1>5 DEF TurnTo
  <2> QED BY <1>2, <1>3, <1>5, <2>1, OverKeeps
<1>6. ASSUME NEW things, things = (IF p.forgives = "partial" THEN gathered ELSE Nothing),
             p.forgives # "no",
             result' = Add(result, things),
             cache' = (IF p.walk = "gaps" THEN cache ELSE StoredIn(s, things)),
             forgiven' = forgiven \union {s},
             TurnTo(windows \ {Current}), UNCHANGED status
      PROVE  IInv'
  <2>1. Advance(s, things)
    BY <1>0, <1>2, <1>6 DEF Advance
  <2>2. Complement(s, things) /\ things \in [Things -> Nat]
    <3>1. gathered \in [Things -> Nat] /\ Nothing \in [Things -> Nat] /\ \A t \in Things : Nothing[t] = 0
      BY <1>1 DEF Control, Nothing
    <3> QED BY <1>4, <1>6, <3>1 DEF Complement, ReadSoFar
  <2>3. forgiven \subseteq forgiven' /\ s \in forgiven' /\ p' = p
    BY <1>2, <1>6 DEF p
  <2>4. Control'
    <3>1. forgiven' \subseteq Spans /\ (p.forgives = "no" => forgiven' = {})
      BY <1>1, <1>4, <1>6 DEF Control
    <3> QED BY <1>1, <1>3, <2>1, <2>2, <3>1, AdvanceKeepsControl
  <2>5. CacheWell'
    <3>1. CASE p.walk = "gaps"
      BY <1>1, <1>2, <1>6, <2>3, <3>1, CacheStays
    <3>2. CASE p.walk # "gaps"
      <4>1. cache' = StoredIn(s, things) /\ forgiven \ {s} \subseteq forgiven'
        BY <1>6, <2>3, <3>2
      <4> QED BY <1>0, <1>1, <1>2, <2>2, <2>3, <3>2, <4>1, StoredKeepsCache
    <3> QED BY <3>1, <3>2
  <2>6. Gained'
    <3>1. ASSUME NEW d \in QueriedDays, d \in s.first..s.last PROVE Forgiven(d)'
      BY <1>1, <1>2, <1>4, <2>3, <3>1, GivenUp
    <3>2. \A d \in QueriedDays : d \notin s.first..s.last =>
            KnownUntil(d)' = KnownUntil(d) /\ (Forgiven(d) => Forgiven(d)')
      <4>1. /\ UNCHANGED <<provider, query>> /\ forgiven \ {s} \subseteq forgiven'
            /\ cache' = StoredIn(s, things) \/ cache' = cache
        BY <1>2, <1>6, <2>3
      <4> QED BY <1>0, <1>1, <1>2, <4>1, OtherDays
    <3> QED BY <1>1, <2>1, <2>2, <3>1, <3>2, AdvanceKeepsGained DEF Complement
  <2>7. History'
    BY <1>1, <1>2, RemoteStands
  <2> QED BY <1>1, <2>1, <2>4, <2>5, <2>6, <2>7, AdvanceKeepsCut, AdvanceKeepsPaging DEF IInv
<1>7. \/ status' = "failed" /\ TurnTo({}) /\ UNCHANGED <<result, cache, forgiven>>
      \/ \E things : /\ things = (IF p.forgives = "partial" THEN gathered ELSE Nothing)
                     /\ p.forgives # "no"
                     /\ result' = Add(result, things)
                     /\ cache' = (IF p.walk = "gaps" THEN cache ELSE StoredIn(s, things))
                     /\ forgiven' = forgiven \union {s}
                     /\ TurnTo(windows \ {Current}) /\ UNCHANGED status
  BY <1>0 DEF Fail
<1> QED BY <1>5, <1>6, <1>7

LEMMA FinishKeeps ==
  ASSUME IInv, Finish
  PROVE  IInv'
<1>1. /\ UNCHANGED <<provider, remoteVars, builds, cache, forgiven, queries, query, result>>
      /\ windows' = windows /\ windows = {} /\ cursor' = cursor /\ gathered' = gathered
      /\ began' = began /\ failures' = failures /\ status' = "done" /\ status = "running"
  BY DEF Finish, readVars
<1>2. cursor = 0 /\ gathered = Nothing /\ failures \in 0..MaxFailures
  BY <1>1 DEF IInv, Control
<1> QED BY <1>1, <1>2, OverKeeps

LEMMA DeliverKeeps ==
  ASSUME IInv, Deliver
  PROVE  IInv'
<1>1. History /\ Control /\ Cut /\ Paging /\ CacheWell /\ Gained
  BY DEF IInv
<1>2. /\ UNCHANGED <<provider, remoteVars>> /\ cache' = cache /\ forgiven' = forgiven
      /\ windows' = windows /\ began' = began /\ cursor' = cursor /\ gathered' = gathered
      /\ status' = "idle" /\ query' = NoQuery /\ builds' = 0 /\ result' = Nothing
      /\ queries' = queries /\ failures' = failures /\ status \in {"done", "failed"}
  BY DEF Deliver, readVars
<1>3. windows = {}
  BY <1>1, <1>2 DEF Control
<1>4. p' = p /\ now' = now /\ History' /\ Once' = Once
  BY <1>1, <1>2, RemoteStands
<1>5. /\ NoQuery.first = 0 /\ NoQuery.last = 0 /\ NoQuery.begun = 0
      /\ NoQuery \in [first : Days, last : Days, begun : Nat]
  <2>1. 0 \in Days
    BY Constants, DayOfMoment DEF Days
  <2> QED BY <2>1 DEF NoQuery
<1>6. now \in Nat /\ Today \in Nat
  BY <1>1, Clock, DayOfMoment DEF Today
<1>7. Control'
  <2>1. Nothing' = Nothing /\ Nothing \in [Things -> Nat]
    BY DEF Nothing
  <2>2. builds' \in 0..NumThings
    BY <1>2, Constants
  <2>3. Today' = Today /\ Days' = Days /\ Spans' = Spans
    BY <1>4 DEF Today, Days, Spans, Day
  <2> QED BY <1>1, <1>2, <1>3, <1>4, <1>5, <1>6, <2>1, <2>2, <2>3 DEF Control
<1>8. Cut' /\ Paging'
  BY <1>2, <1>3 DEF Cut, Paging, Earliest
<1>9. CacheWell'
  BY <1>1, <1>2, CacheStays
<1>10. Gained'
  <2>1. \A t \in Things : result'[t] = 0
    BY <1>2 DEF Nothing
  <2> QED BY <1>2, <2>1 DEF Gained
<1> QED BY <1>4, <1>7, <1>8, <1>9, <1>10 DEF IInv

LEMMA RemoteKeeps ==
  ASSUME IInv, RemoteStep
  PROVE  IInv'
<1>1. History /\ Control /\ Cut /\ Paging /\ CacheWell /\ Gained
  BY DEF IInv
<1>2. History' /\ Control' /\ Cut'
  BY <1>1, HistoryGoesOn, RemoteKeepsControl, RemoteKeepsCut
<1>3. Paging' /\ CacheWell' /\ Gained'
  BY <1>1, RemoteKeepsPaging, RemoteKeepsCache, RemoteKeepsGained
<1> QED BY <1>2, <1>3 DEF IInv

LEMMA BeginKeeps ==
  ASSUME IInv, NEW first \in Days, first <= Today, Begin(first)
  PROVE  IInv'
<1>1. History /\ Control /\ Cut /\ Paging /\ CacheWell /\ Gained
  BY DEF IInv
<1>2. History'
  <2>1. UNCHANGED <<provider, remoteVars>>
    BY BeginDoes
  <2> QED BY <1>1, <2>1, RemoteStands
<1>3. Control' /\ Cut' /\ Paging'
  BY <1>1, BeginKeepsControl
<1>4. CacheWell' /\ Gained'
  BY <1>1, BeginKeepsCache, BeginKeepsGained
<1> QED BY <1>2, <1>3, <1>4 DEF IInv

-----------------------------------------------------------------------------
(* The theorems.                                                             *)

LEMMA InitIsGood ==
  ASSUME Init
  PROVE  IInv
<1> USE DEF Init
<1>1. History
  <2>1. \A t \in Things : ~Started(t) /\ ~Ended(t) /\ created[t] = NotYet /\ closed[t] = NotYet
    BY DEF Started, Ended
  <2> QED BY <2>1, Constants DEF History
<1>2. NoQuery \in [first : Days, last : Days, begun : Nat] /\ 0 \in Days
      /\ NoQuery.first = 0 /\ NoQuery.last = 0 /\ NoQuery.begun = 0 /\ Today \in Nat
  <2>1. 0 \in Days
    BY Constants, DayOfMoment DEF Days
  <2> QED BY <2>1, DayOfMoment DEF NoQuery, Today
<1>3. Nothing \in [Things -> Nat] /\ \A t \in Things : Nothing[t] = 0
  BY DEF Nothing
<1>4. Control
  BY <1>2, <1>3, Constants DEF Control
<1>5. Cut /\ Paging
  BY DEF Cut, Paging, Earliest
<1>6. CacheWell
  <2>1. NoEntry \in Entries /\ NoEntry.things = Nothing /\ NoEntry.asOf = 0 /\ NoEntry.expireAt = -2
    BY <1>3 DEF NoEntry, Entries
  <2>2. cache \in [Spans -> Entries] /\ \A s \in Spans : cache[s] = NoEntry
    BY <2>1
  <2>4. ASSUME NEW s \in Spans PROVE StoredWell(s)
    <3>1. \A t \in Things : ~Due(t, s, cache[s].asOf)
      BY DEF Due, HappenedOn, Ended
    <3> QED BY <1>3, <2>1, <2>2, <3>1 DEF StoredWell, Never
  <2> QED BY <2>2, <2>4 DEF CacheWell
<1>7. Gained
  BY <1>3 DEF Gained
<1> QED BY <1>1, <1>4, <1>5, <1>6, <1>7 DEF IInv

LEMMA StutterKeeps ==
  ASSUME IInv, UNCHANGED vars
  PROVE  IInv'
<1>1. /\ provider' = provider /\ now' = now /\ created' = created /\ closed' = closed
      /\ status' = status /\ query' = query /\ builds' = builds /\ windows' = windows
      /\ began' = began /\ cursor' = cursor /\ gathered' = gathered /\ result' = result
      /\ cache' = cache /\ forgiven' = forgiven /\ queries' = queries /\ failures' = failures
  BY DEF vars, remoteVars, readVars
<1>2. UNCHANGED <<provider, remoteVars>>
  BY <1>1 DEF remoteVars
<1>3. /\ Once' = Once /\ p' = p
      /\ \A t \in Things : \A o : Selects(t, o)' <=> Selects(t, o)
      /\ \A t \in Things : \A d : HappenedOn(t, d)' <=> HappenedOn(t, d)
      /\ \A o : AnsweredDays(o)' = AnsweredDays(o)
      /\ \A o : Listed(o)' = Listed(o)
      /\ (History => History')
  BY <1>2, RemoteStands
<1>4. ASSUME History PROVE History'
  BY <1>3, <1>4
<1>5. ASSUME Control PROVE Control'
  BY <1>1, <1>3, <1>5 DEF Control, Today, Spans, Days, Day, Nothing
<1>6. ASSUME Cut PROVE Cut'
  BY <1>1, <1>3, <1>6 DEF Cut, Apart
<1>7. ASSUME Paging PROVE Paging'
  <2> SUFFICES ASSUME NEW s \in Spans, Earliest(s)' PROVE ReadSoFar(s)'
    BY DEF Paging, Spans, Days, Day
  <2>1. ReadSoFar(s)
    BY <1>1, <1>7 DEF Paging, Earliest
  <2>2. \A t \in Things : Due(t, s, began)' => Due(t, s, began)
    BY <1>1, <1>3 DEF Due
  <2>3. \A t \in Things : ToCome(t, s) => ToCome(t, s)'
    BY <1>1, <1>3 DEF ToCome, Ahead, Rank, Precedes
  <2>4. NoBuilds' = NoBuilds /\ Nothing' = Nothing
    BY <1>1, <1>3 DEF NoBuilds, Nothing
  <2> QED BY <1>1, <1>3, <2>1, <2>2, <2>3, <2>4 DEF ReadSoFar
<1>8. ASSUME CacheWell PROVE CacheWell'
  BY <1>1, <1>2, <1>8, CacheStays
<1>9. ASSUME Gained PROVE Gained'
  <2>1. /\ QueriedDays' = QueriedDays /\ Spans' = Spans
        /\ \A o, r : Apart(o, r)' <=> Apart(o, r)
    BY <1>1, <1>3 DEF QueriedDays, AnsweredDays, Spans, Days, Day, Apart
  <2>2. \A d : (Covered(d)' <=> Covered(d)) /\ KnownUntil(d)' = KnownUntil(d)
    BY <1>1, <1>3 DEF Covered, Forgiven, KnownUntil, EntryFor
  <2> QED BY <1>1, <1>3, <1>9, <2>1, <2>2 DEF Gained
<1> QED BY <1>4, <1>5, <1>6, <1>7, <1>8, <1>9 DEF IInv

\* The invariant of the specification.
LEMMA Inductive ==
  Spec => []IInv
<1>1. Init => IInv
  BY InitIsGood
<1>2. IInv /\ [Next]_vars => IInv'
  <2> SUFFICES ASSUME IInv, [Next]_vars PROVE IInv'
    OBVIOUS
  <2>1. CASE Next
    <3>1. ASSUME NEW first \in Days, first <= Today, Begin(first) PROVE IInv'
      BY <3>1, BeginKeeps
    <3>2. CASE ServeCached
      BY <3>2, ServeCachedKeeps
    <3>3. CASE ReadPage
      BY <3>3, ReadPageKeeps
    <3>4. CASE Fail
      BY <3>4, FailKeeps
    <3>5. CASE Finish
      BY <3>5, FinishKeeps
    <3>6. CASE Deliver
      BY <3>6, DeliverKeeps
    <3>7. CASE RemoteStep
      BY <3>7, RemoteKeeps
    <3> QED BY <2>1, <3>1, <3>2, <3>3, <3>4, <3>5, <3>6, <3>7 DEF Next, RemoteStep
  <2>2. CASE UNCHANGED vars
    BY <2>2, StutterKeeps
  <2> QED BY <2>1, <2>2
<1> QED BY <1>1, <1>2, PTL DEF Spec

\* Type correctness of the reader: the query's range, the cursor, the spans left
\* and the cache stay what ticketService, the pipeline runners and the code
\* management services take them for.
THEOREM TypeCorrect ==
  Spec => []TypeOK
<1>1. IInv => TypeOK
  <2> SUFFICES ASSUME IInv PROVE TypeOK
    OBVIOUS
  <2>1. History /\ Control /\ CacheWell
    BY DEF IInv
  <2>2. now \in 0..MaxNow /\ now \in Nat
    BY <2>1, Clock DEF History
  <2>3. \A t \in Things : Ended(t) => Started(t) /\ created[t] <= closed[t]
    BY <2>1, MomentsTyped
  <2>4. \A s \in Spans : cache[s].expireAt \in {-2, Never} \union 0..(MaxNow + TodayTtl)
    BY <2>1 DEF CacheWell, Entries
  <2>5. DOMAIN cache = Spans /\ DOMAIN gathered = Things /\ DOMAIN result = Things
    BY <2>1 DEF CacheWell, Control
  <2>6. began <= now
    BY <2>1, <2>2 DEF Control
  <2> QED BY <2>1, <2>2, <2>3, <2>4, <2>5, <2>6 DEF TypeOK, Control, History
<1> QED BY <1>1, Inductive, PTL

\* Whatever pages shift while they are read and whichever days come from the
\* cache, an answer holds all that had ended before its calls began; and no day is
\* cached for good by a call that began before the day was over.
THEOREM NothingSettledIsMissed ==
  Spec => []SettledIsReported
<1>1. IInv => SettledIsReported
  <2> SUFFICES ASSUME IInv, status = "done", NEW d \in QueriedDays, ~Forgiven(d)
               PROVE  /\ \A t \in Things :
                            HappenedOn(t, d) /\ closed[t] < KnownUntil(d) => result[t] > 0
                      /\ p.cached /\ EntryFor(d).expireAt = Never
                           => KnownUntil(d) >= Midnight(d + 1)
    BY DEF SettledIsReported
  <2>1. History /\ Control /\ CacheWell /\ Gained
    BY DEF IInv
  <2>2. Covered(d)
    BY <2>1 DEF Covered, Control
  <2>3. \A t \in Things : HappenedOn(t, d) /\ closed[t] < KnownUntil(d) => result[t] > 0
    BY <2>1, <2>2 DEF Gained
  <2>4. ASSUME p.cached, EntryFor(d).expireAt = Never
        PROVE  KnownUntil(d) >= Midnight(d + 1)
    <3>1. query.first \in Days /\ query.last \in Days /\ query.first <= query.last
      BY <2>1 DEF Control
    <3>2. query.first \in Nat /\ query.last \in Nat /\ Day(MaxNow) \in Nat
      BY <3>1, DaysAndSpans, Constants, DayOfMoment
    <3>3. d \in AnsweredDays(query) /\ d \in query.first..query.last /\ d \in Days
      <4>1. d \in AnsweredDays(query) /\ d \in query.first..query.last
        BY <3>2, AnsweredDaysInSpan DEF QueriedDays
      <4> QED BY <3>1, <3>2, <4>1 DEF Days
    <3>4. PICK s \in Spans : EntryFor(d) = cache[s] /\ d \in AnsweredDays(s)
      <4>1. CASE p.walk = "range"
        <5> DEFINE s == [first |-> query.first, last |-> query.last]
        <5>1. s \in Spans /\ AnsweredDays(s) = AnsweredDays(query)
          BY <3>1 DEF Spans, AnsweredDays
        <5>2. EntryFor(d) = cache[s]
          BY <4>1 DEF EntryFor
        <5> QED BY <3>3, <5>1, <5>2
      <4>2. CASE p.walk # "range"
        <5>1. DayOf(d) \in Spans /\ DayOf(d).first = d /\ DayOf(d).last = d /\ d \in Nat
          BY <3>3, DaysAndSpans
        <5>2. p.window \notin {"stamped", "resolved", "after", "within"}
          BY <2>1, <4>2, ProviderTraits DEF History, Traits
        <5>3. d \in AnsweredDays(DayOf(d))
          BY <5>1, <5>2 DEF AnsweredDays
        <5> QED BY <4>2, <5>1, <5>3 DEF EntryFor
      <4> QED BY <4>1, <4>2
    <3>5. KnownUntil(d) = cache[s].asOf
      BY <2>4, <3>4 DEF KnownUntil
    <3> QED BY <2>1, <2>4, <3>4, <3>5 DEF CacheWell, StoredWell
  <2> QED BY <2>3, <2>4
<1> QED BY <1>1, Inductive, PTL

\* The providers that read a span at once, by token or by number, or drop what
\* they have seen, count nothing twice, although the spans of the days meet at
\* midnight and lists grow between two pages.
THEOREM NothingIsCountedTwice ==
  Spec => []CountedOnce
<1>1. IInv => CountedOnce
  BY DEF IInv, Gained, CountedOnce, Once
<1> QED BY <1>1, Inductive, PTL

-----------------------------------------------------------------------------
(* The figures.                                                              *)

LEMMA CollectedIsFinite ==
  ASSUME result \in [Things -> Nat], NEW things \in SUBSET Things
  PROVE  IsFiniteSet(Collected(things))
<1> DEFINE runs == [t \in things |-> {t} \X (1..result[t])]
           parts == {{t} \X (1..result[t]) : t \in things}
<1>1. ASSUME NEW t \in things PROVE IsFiniteSet({t} \X (1..result[t]))
  <2>1. result[t] \in Nat
    OBVIOUS
  <2>2. IsFiniteSet({t}) /\ IsFiniteSet(1..result[t])
    <3>1. IsFiniteSet({t})
      BY FS_Singleton
    <3>2. IsFiniteSet(1..result[t])
      BY <2>1, FS_Interval
    <3> QED BY <3>1, <3>2
  <2> QED BY <2>2, FS_Product
<1>2. IsFiniteSet(things)
  BY ListsAreFinite
<1>3. runs \in Surjection(things, parts)
  BY DEF Surjection
<1>4. IsFiniteSet(parts)
  <2> HIDE DEF runs, parts
  <2> QED BY <1>2, <1>3, FS_Surjection
<1>5. IsFiniteSet(UNION parts)
  <2>1. \A part \in parts : IsFiniteSet(part)
    BY <1>1
  <2> HIDE DEF parts
  <2> QED BY <1>4, <2>1, FS_UNION
<1> QED BY <1>5 DEF Collected

\* A day has deployments when one of the runs began on it.
LEMMA DeploymentsAreRuns ==
  ASSUME result \in [Things -> Nat], NEW things \in SUBSET Things, NEW d
  PROVE  /\ DeploymentsOn(d, things) \in Nat
         /\ DeploymentsOn(d, things) > 0 <=>
              \E t \in things : result[t] > 0 /\ Day(created[t]) = d
<1> DEFINE runs == {run \in Collected(things) : Day(created[run[1]]) = d}
<1>1. IsFiniteSet(runs) /\ Cardinality(runs) \in Nat
  <2>1. runs \in SUBSET Collected(things)
    OBVIOUS
  <2> HIDE DEF runs
  <2> QED BY <2>1, CollectedIsFinite, FS_Subset, FS_CardinalityType
<1>2. Cardinality(runs) > 0 <=> runs # {}
  <2> HIDE DEF runs
  <2> QED BY <1>1, FS_EmptySet
<1>3. ASSUME NEW run \in runs PROVE \E t \in things : result[t] > 0 /\ Day(created[t]) = d
  <2>1. PICK t \in things : run \in {t} \X (1..result[t])
    BY DEF Collected
  <2>2. run[1] = t /\ run[2] \in 1..result[t] /\ result[t] \in Nat
    BY <2>1
  <2>3. result[t] > 0
    BY <2>2
  <2> QED BY <2>2, <2>3
<1>4. ASSUME NEW t \in things, result[t] > 0, Day(created[t]) = d PROVE runs # {}
  <2>1. <<t, 1>> \in {t} \X (1..result[t]) /\ <<t, 1>>[1] = t
    BY <1>4
  <2>2. <<t, 1>> \in Collected(things)
    BY <2>1 DEF Collected
  <2> QED BY <1>4, <2>1, <2>2
<1> QED BY <1>1, <1>2, <1>3, <1>4 DEF DeploymentsOn

\* What was not collected adds nothing.
LEMMA DeploymentsAreSeen ==
  ASSUME result \in [Things -> Nat], NEW d
  PROVE  DeploymentsOn(d, Things) = DeploymentsOn(d, Seen(result))
<1>1. Collected(Things) = Collected(Seen(result))
  <2>1. Collected(Seen(result)) \subseteq Collected(Things)
    BY DEF Collected, Seen
  <2>2. ASSUME NEW run \in Collected(Things) PROVE run \in Collected(Seen(result))
    <3>1. PICK t \in Things : run \in {t} \X (1..result[t])
      BY DEF Collected
    <3>2. run[2] \in 1..result[t] /\ result[t] \in Nat
      BY <3>1
    <3>3. t \in Seen(result)
      BY <3>2 DEF Seen
    <3> QED BY <3>1, <3>3 DEF Collected
  <2> QED BY <2>1, <2>2
<1> QED BY <1>1 DEF DeploymentsOn

\* A failed deployment is never lost between the two figures: the deployment
\* frequency and the change failure rate speak of the same days and the same
\* number of deployments, and the rate is positive where one failed.
THEOREM FailedDeploymentsShow ==
  Spec => []FailuresShow
<1>1. IInv => FailuresShow
  <2> SUFFICES ASSUME IInv, status = "done",
                      provider \in {"githubRuns", "azureRuns", "codePipeline", "jenkins"},
                      NEW failing \in SUBSET Seen(result), NEW incident \in Days,
                      NEW incidents, incidents = [d \in Days |-> IF d = incident THEN 1 ELSE 0],
                      NEW rate,
                      rate = ChangeFailureRate(failing, incidents, query.first, query.last)
               PROVE  /\ DOMAIN rate = DOMAIN DeploymentFrequency
                      /\ \A d \in DOMAIN rate :
                           /\ rate[d].of = DeploymentFrequency[d]
                           /\ rate[d].failed > 0 <=>
                                d = incident \/ \E t \in failing : Day(created[t]) = d
    BY DEF FailuresShow
  <2>1. History /\ Control /\ Gained /\ result \in [Things -> Nat]
    BY DEF IInv, Control
  <2>2. query.first \in Days /\ query.last \in Days /\ query.first \in Nat /\ query.last \in Nat
        /\ Day(MaxNow) \in Nat
    BY <2>1, DaysAndSpans, Constants, DayOfMoment DEF Control
  <2>3. query.first..query.last \subseteq Days
    BY <2>2 DEF Days
  <2>4. ASSUME NEW t \in Seen(result) PROVE t \in Things /\ Day(created[t]) \in query.first..query.last
    <3>1. t \in Things /\ result[t] > 0
      BY DEF Seen
    <3>2. PICK s \in Spans : query.first <= s.first /\ s.last <= query.last /\ Selects(t, s)
      BY <2>1, <3>1 DEF Gained
    <3>3. p.window \in {"started", "finished", "within", "stamped"}
      BY <2>1, ProviderTraits DEF History, Traits
    <3>4. Day(created[t]) \in s.first..s.last /\ s.first \in Nat /\ s.last \in Nat
      BY <2>1, <3>1, <3>2, <3>3, SelectedDays, DaysAndSpans
    <3> QED BY <2>2, <3>1, <3>2, <3>4
  <2>5. \A d : /\ DeploymentsOn(d, Things) \in Nat
               /\ DeploymentsOn(d, Things) > 0 <=> \E t \in Seen(result) : Day(created[t]) = d
               /\ DeploymentsOn(d, Things) = DeploymentsOn(d, Seen(result))
    BY <2>1, DeploymentsAreRuns, DeploymentsAreSeen DEF Seen
  <2>6. \A d : /\ DeploymentsOn(d, failing) \in Nat
               /\ DeploymentsOn(d, failing) > 0 <=> \E t \in failing : Day(created[t]) = d
    <3>1. failing \in SUBSET Things /\ \A t \in failing : result[t] > 0
      BY DEF Seen
    <3> QED BY <2>1, <3>1, DeploymentsAreRuns
  <2> DEFINE D == {d \in query.first..query.last : DeploymentsOn(d, Things) > 0}
  <2>7. D = {Day(created[t]) : t \in Seen(result)}
    BY <2>4, <2>5
  <2>8. DOMAIN DeploymentFrequency = D
    BY <2>7 DEF DeploymentFrequency
  <2>9. /\ DOMAIN rate = D
        /\ \A d \in D : /\ rate[d].of = DeploymentsOn(d, Things)
                        /\ rate[d].failed = Min({DeploymentsOn(d, Things),
                                                 incidents[d] + DeploymentsOn(d, failing)})
    BY DEF ChangeFailureRate
  <2>10. ASSUME NEW d \in D
         PROVE  /\ rate[d].of = DeploymentFrequency[d]
                /\ rate[d].failed > 0 <=> d = incident \/ \E t \in failing : Day(created[t]) = d
    <3>1. DeploymentFrequency[d] = DeploymentsOn(d, Seen(result))
      BY <2>7 DEF DeploymentFrequency
    <3> DEFINE all == DeploymentsOn(d, Things)
               bad == incidents[d] + DeploymentsOn(d, failing)
    <3>2. all \in Nat /\ all > 0
      BY <2>5
    <3>3. incidents[d] = IF d = incident THEN 1 ELSE 0
      BY <2>3
    <3>4. bad \in Nat /\ (bad > 0 <=> d = incident \/ \E t \in failing : Day(created[t]) = d)
      <4>1. DeploymentsOn(d, failing) \in Nat
        BY <2>6
      <4>2. bad > 0 <=> d = incident \/ DeploymentsOn(d, failing) > 0
        BY <3>3, <4>1
      <4> QED BY <2>6, <3>3, <4>1, <4>2
    <3>5. rate[d].failed = Min({all, bad}) /\ rate[d].of = all
      BY <2>9
    <3> HIDE DEF all, bad
    <3>6. Min({all, bad}) \in {all, bad} /\ Min({all, bad}) <= all /\ Min({all, bad}) <= bad
      <4>1. {all, bad} \in SUBSET Nat /\ {all, bad} # {}
        BY <3>2, <3>4
      <4> QED BY <4>1, LeastElement
    <3>7. Min({all, bad}) > 0 <=> bad > 0
      BY <3>2, <3>4, <3>6
    <3>8. rate[d].of = DeploymentFrequency[d]
      BY <2>5, <3>1, <3>5 DEF all
    <3> QED BY <3>4, <3>5, <3>7, <3>8
  <2> QED BY <2>8, <2>9, <2>10
<1> QED BY <1>1, Inductive, PTL

-----------------------------------------------------------------------------
(* What is kept for ever is never read again.                                *)

\* The span being read, past its first page, has no entry kept for ever, nor has
\* any day of a gap.
Untouched ==
  /\ p.cached /\ p.walk # "gaps" /\ cursor # 0 =>
       \A s \in Spans : Earliest(s) => cache[s].expireAt # Never
  /\ p.walk = "gaps" =>
       \A s \in windows : \A d \in s.first..s.last : cache[DayOf(d)].expireAt # Never

PastStands == \A s \in Spans : cache[s].expireAt = Never => cache'[s] = cache[s]

LEMMA NotKept ==
  ASSUME IInv, Untouched, windows # {}, NEW s, s = Current, ~Fresh(s), p.cached, p.walk # "gaps"
  PROVE  cache[s].expireAt # Never
<1>1. s \in Spans /\ Earliest(s)
  BY CurrentSpan DEF IInv
<1>2. CASE cursor = 0
  <2>1. NoEntry.expireAt # Never
    BY DEF NoEntry, Never
  <2> QED BY <1>2, <2>1 DEF Fresh
<1>3. CASE cursor # 0
  BY <1>1, <1>3 DEF Untouched
<1> QED BY <1>2, <1>3

\* Storing a span replaces no entry that is kept for ever, and touches no day of
\* the gaps left.
LEMMA StoringSparesThePast ==
  ASSUME IInv, Untouched, windows # {}, NEW s, s = Current, ~Fresh(s), NEW things,
         cache' = StoredIn(s, things) \/ cache' = cache
  PROVE  /\ PastStands
         /\ p.walk = "gaps" =>
              \A o \in windows \ {s} : \A d \in o.first..o.last : cache'[DayOf(d)] = cache[DayOf(d)]
<1>1. /\ s \in windows /\ s \in Spans /\ s.first \in Nat /\ s.last \in Nat
      /\ Cut /\ cache \in [Spans -> Entries] /\ windows \subseteq Spans
  BY CurrentSpan DEF IInv, Control, CacheWell
<1>2. CASE cache' = cache
  BY <1>2 DEF PastStands
<1>3. CASE cache' = StoredIn(s, things) /\ ~p.cached
  BY <1>2, <1>3 DEF StoredIn
<1>4. CASE cache' = StoredIn(s, things) /\ p.cached /\ p.walk # "gaps"
  <2>1. cache[s].expireAt # Never
    BY <1>4, NotKept
  <2>2. \E e : cache' = [cache EXCEPT ![s] = e]
    BY <1>4 DEF StoredIn
  <2> QED BY <1>1, <1>4, <2>1, <2>2 DEF PastStands
<1>5. CASE cache' = StoredIn(s, things) /\ p.cached /\ p.walk = "gaps"
  <2>1. ASSUME NEW c \in Spans, ~(c.first = c.last /\ c.first \in s.first..s.last)
        PROVE  cache'[c] = cache[c]
    BY <1>5, <2>1 DEF StoredIn
  <2>2. PastStands
    <3> SUFFICES ASSUME NEW c \in Spans, c.first = c.last, c.first \in s.first..s.last
                 PROVE  cache[c].expireAt # Never
      BY <2>1 DEF PastStands
    <3>1. c = DayOf(c.first)
      BY DEF Spans, DayOf
    <3> QED BY <1>1, <1>5, <3>1 DEF Untouched
  <2>3. ASSUME NEW o \in windows \ {s}, NEW d \in o.first..o.last
        PROVE  cache'[DayOf(d)] = cache[DayOf(d)]
    <3>1. Apart(s, o) /\ o \in Spans /\ o.first \in Nat /\ o.last \in Nat
      BY <1>1, DaysAndSpans DEF Cut
    <3>2. d \in Days /\ d \notin s.first..s.last
      <4>1. o.last <= Day(MaxNow) /\ Day(MaxNow) \in Nat
        BY <3>1, Constants, DayOfMoment DEF Spans, Days
      <4> QED BY <1>1, <3>1, <4>1 DEF Apart, Days
    <3>3. DayOf(d) \in Spans /\ DayOf(d).first = d
      BY <3>2, DaysAndSpans
    <3> QED BY <2>1, <3>2, <3>3
  <2> QED BY <2>2, <2>3
<1> QED BY <1>2, <1>3, <1>4, <1>5

\* The next span is turned to.
LEMMA TurningKeepsUntouched ==
  ASSUME IInv, Untouched, UNCHANGED provider, cursor' = 0, NEW s, windows' \subseteq windows \ {s},
         p.walk = "gaps" =>
           \A o \in windows \ {s} : \A d \in o.first..o.last : cache'[DayOf(d)] = cache[DayOf(d)]
  PROVE  Untouched'
<1>1. p' = p
  BY DEF p
<1>2. \A d : DayOf(d)' = DayOf(d)
  BY DEF DayOf
<1> QED BY <1>1, <1>2 DEF Untouched

LEMMA ReadPageSparesThePast ==
  ASSUME IInv, Untouched, ReadPage
  PROVE  Untouched' /\ PastStands
<1>1. PICK s : s = Current
  OBVIOUS
<1>2. /\ windows # {} /\ ~Fresh(s) /\ UNCHANGED provider /\ p' = p
      /\ \/ Complete(s, Taken(s), CutShort(Listed(s), Page(Listed(s))))
         \/ UNCHANGED <<windows, cache>>
  <2>1. UNCHANGED provider
    BY <1>1, ReadPageDoes
  <2> QED BY <1>1, <2>1, ReadPageDoes DEF ReadPage, p
<1>3. CASE Complete(s, Taken(s), CutShort(Listed(s), Page(Listed(s))))
  <2>1. cache' = StoredIn(s, Taken(s)) /\ cursor' = 0 /\ windows' = windows \ {s}
    BY <1>1, <1>3 DEF Complete, TurnTo
  <2> QED BY <1>1, <1>2, <2>1, StoringSparesThePast, TurningKeepsUntouched
<1>4. CASE UNCHANGED <<windows, cache>>
  <2>1. PastStands
    BY <1>4 DEF PastStands
  <2>2. p.cached /\ p.walk # "gaps" => \A o \in Spans : Earliest(o) => cache[o].expireAt # Never
    <3> SUFFICES ASSUME p.cached, p.walk # "gaps", NEW o \in Spans, Earliest(o)
                 PROVE  cache[o].expireAt # Never
      OBVIOUS
    <3>1. /\ Cut /\ s \in Spans /\ s \in windows /\ o \in windows
          /\ s.first <= o.first /\ o.first <= s.first
      BY <1>1, <1>2, CurrentSpan DEF IInv, Earliest
    <3>2. /\ s.first \in Nat /\ s.last \in Nat /\ s.first <= s.last
          /\ o.first \in Nat /\ o.last \in Nat /\ o.first <= o.last
      BY <3>1, DaysAndSpans
    <3>3. o = s
      <4>1. s # o => Apart(s, o)
        BY <3>1 DEF Cut
      <4> QED BY <3>1, <3>2, <4>1 DEF Apart
    <3> QED BY <1>1, <1>2, <3>3, NotKept
  <2>3. /\ \A o : Earliest(o)' <=> Earliest(o)
        /\ \A d : DayOf(d)' = DayOf(d)
        /\ Spans' = Spans
    BY <1>4 DEF Earliest, DayOf, Spans, Days, Day
  <2> QED BY <1>2, <1>4, <2>1, <2>2, <2>3 DEF Untouched
<1> QED BY <1>2, <1>3, <1>4

LEMMA FailSparesThePast ==
  ASSUME IInv, Untouched, Fail
  PROVE  Untouched' /\ PastStands
<1>1. PICK s : s = Current
  OBVIOUS
<1>2. /\ windows # {} /\ ~Fresh(s) /\ UNCHANGED provider /\ cursor' = 0
      /\ windows' \subseteq windows \ {s}
      /\ \E things : cache' = StoredIn(s, things) \/ cache' = cache
  BY <1>1 DEF Fail, Reading, TurnTo
<1> QED BY <1>1, <1>2, StoringSparesThePast, TurningKeepsUntouched

LEMMA BeginSparesThePast ==
  ASSUME IInv, NEW first \in Days, first <= Today, Begin(first)
  PROVE  Untouched' /\ PastStands
<1>1. /\ cursor' = 0 /\ cache' = cache /\ p' = p
      /\ windows' = Spread(first, Today)
  BY BeginDoes DEF Begin, TurnTo, p
<1>2. now \in Nat /\ Today \in Days /\ Today \in Nat /\ first \in Nat
  BY Clock, DaysAndSpans DEF Today, History, IInv
<1>3. ASSUME p.walk = "gaps", NEW s \in windows', NEW d \in s.first..s.last
      PROVE  cache[DayOf(d)].expireAt # Never
  <2>1. d \in first..(Today - 1) /\ ~Hit(d)
    BY <1>1, <1>3 DEF Spread, Gaps
  <2>2. d < Today /\ cache[DayOf(d)] = NoEntry
    BY <1>2, <2>1 DEF Hit
  <2> QED BY <2>2 DEF NoEntry, Never
<1>4. \A d : DayOf(d)' = DayOf(d)
  BY DEF DayOf
<1>5. PastStands
  BY <1>1 DEF PastStands
<1> QED BY <1>1, <1>3, <1>4, <1>5 DEF Untouched

\* A day or range that is kept for ever is kept as it is: no page, failure or
\* later query replaces its entry, so two queries that are answered from it are
\* answered alike.
THEOREM PastIsFixed == Spec => [][PastStands]_vars
<1>1. Init => Untouched
  BY DEF Init, Untouched
<1>2. IInv /\ Untouched /\ [Next]_vars => Untouched' /\ [PastStands]_vars
  <2> SUFFICES ASSUME IInv, Untouched, [Next]_vars PROVE Untouched' /\ [PastStands]_vars
    OBVIOUS
  <2>1. ASSUME NEW first \in Days, first <= Today, Begin(first) PROVE Untouched' /\ PastStands
    BY <2>1, BeginSparesThePast
  <2>2. CASE ServeCached
    <3>1. PICK s : s = Current
      OBVIOUS
    <3>2. cache' = cache /\ cursor' = 0 /\ windows' \subseteq windows \ {s} /\ UNCHANGED provider
      BY <2>2, <3>1 DEF ServeCached, TurnTo
    <3> QED BY <3>2, TurningKeepsUntouched DEF PastStands
  <2>3. CASE ReadPage
    BY <2>3, ReadPageSparesThePast
  <2>4. CASE Fail
    BY <2>4, FailSparesThePast
  <2>5. CASE UNCHANGED <<provider, windows, cursor, cache>>
    <3>1. /\ p' = p /\ Spans' = Spans /\ (\A o : Earliest(o)' <=> Earliest(o))
          /\ \A d : DayOf(d)' = DayOf(d)
      BY <2>5 DEF p, Spans, Days, Day, Earliest, DayOf
    <3> QED BY <2>5, <3>1 DEF Untouched, PastStands
  <2>6. CASE Finish \/ Deliver \/ RemoteStep \/ UNCHANGED vars
    <3>1. UNCHANGED <<provider, windows, cursor, cache>>
      BY <2>6 DEF Finish, Deliver, RemoteStep, Create, Close, Tick, vars, readVars
    <3> QED BY <2>5, <3>1
  <2> QED BY <2>1, <2>2, <2>3, <2>4, <2>6 DEF Next, RemoteStep
<1> QED BY <1>1, <1>2, Inductive, PTL DEF Spec
=============================================================================
