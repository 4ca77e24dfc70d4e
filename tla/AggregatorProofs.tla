-------------------------- MODULE AggregatorProofs --------------------------
(***************************************************************************)
(* For any number of backends, requests and changes, and any lifetimes:    *)
(* what the aggregator's caches say of servers that were taken off the     *)
(* list, whose ports are listed under whose name, and that the file holds  *)
(* the list.                                                               *)
(***************************************************************************)
EXTENDS Aggregator, TLAPS

Pair(b) == <<b.name, b.url>>

\* was is never ahead of the time, and up to date for what is on the list.
WasOK ==
    \A x \in Name \X Url :
       /\ was[x] <= now
       /\ [name |-> x[1], url |-> x[2]] \in ToSet(backends) => was[x] = now

\* What a fetch asked was on the list when it began.
FetchOK ==
    \A k \in Fetcher : fetch[k].busy =>
       /\ fetch[k].began <= now
       /\ \A i \in 1..Len(fetch[k].asked) : was[Pair(fetch[k].asked[i])] >= fetch[k].began

\* Nobody changed the list under a steady fetch.
SteadyFetch ==
    \A k \in Fetcher : fetch[k].busy /\ fetch[k].steady => fetch[k].asked = backends

\* No fetch takes longer than the servers may.
FetchInTime == \A k \in Fetcher : fetch[k].busy => now - fetch[k].began <= Timeout

\* What is in the cache was on the list when the fetch it came from began; if that
\* fetch raised, this was no longer before the stamp than a fetch takes.
Slack == IF torn THEN Timeout ELSE 0

CacheOK ==
    /\ cached <= now
    /\ \A e \in cache : \E n \in Name : was[<<n, e.from>>] >= cached - Slack

\* A login is to a backend that was on the list when it began, and in time.
LoginOK ==
    \A k \in Caller : login[k].busy =>
       /\ login[k].to \in Backend
       /\ login[k].began <= now /\ now - login[k].began <= Timeout
       /\ was[Pair(login[k].to)] >= login[k].began

TokensOK ==
    \A n \in Name : tokens[n] # None =>
       /\ tokens[n].at <= now
       /\ was[<<n, tokens[n].from>>] >= 0
       /\ was[<<n, tokens[n].from>>] >= tokens[n].at - Timeout

\* The inductive invariant.
IInv == /\ TypeOK /\ FileHoldsTheList /\ RightlyAttributed
        /\ WasOK /\ FetchOK /\ FetchInTime /\ SteadyFetch /\ CacheOK /\ LoginOK /\ TokensOK

FetchRec == [busy : BOOLEAN, began : Nat, asked : Seq(Backend), steady : BOOLEAN]
LoginRec == [busy : BOOLEAN, began : Nat, to : Backend \cup {None}]

-----------------------------------------------------------------------------
LEMMA Numbers == CacheTTL \in Nat /\ TokenTTL \in Nat /\ Timeout \in Nat
BY AggregatorAssumption

LEMMA SlackIsTime == Slack \in Nat /\ Slack <= Timeout /\ (~torn => Slack = 0)
BY Numbers DEF Slack

LEMMA ListsAreSequences == \A list \in Lists(MaxBackends) : list \in Seq(Backend)
<1> SUFFICES ASSUME NEW list \in Lists(MaxBackends) PROVE list \in Seq(Backend)
  OBVIOUS
<1>1. PICK m \in 0..MaxBackends : list \in [1..m -> Backend]
  BY DEF Lists
<1>2. m \in Nat /\ \A i \in 1..m : list[i] \in Backend
  BY <1>1, AggregatorAssumption
<1> QED BY <1>1, <1>2

LEMMA NeverIsPast == Never \in Int /\ Never <= 0
BY Numbers DEF Never

LEMMA ListedPairs ==
    ASSUME NEW list \in Seq(Backend), NEW i \in 1..Len(list)
    PROVE  /\ list[i] \in Backend /\ Pair(list[i]) \in Name \X Url
           /\ [name |-> Pair(list[i])[1], url |-> Pair(list[i])[2]] = list[i]
           /\ list[i] \in ToSet(list)
<1>1. list[i] \in Backend
  OBVIOUS
<1>2. DOMAIN list = 1..Len(list)
  OBVIOUS
<1> QED BY <1>1, <1>2 DEF Backend, Pair, ToSet

\* A stamp moves was forward for what is on the list, and leaves the rest.
LEMMA StampKeeps ==
    ASSUME was \in [Name \X Url -> Int], now \in Nat, WasOK,
           NEW list \in Seq(Backend), NEW time \in {now, now + 1}
    PROVE  /\ Stamped(list, time) \in [Name \X Url -> Int]
           /\ \A x \in Name \X Url :
                 /\ Stamped(list, time)[x] >= was[x] /\ Stamped(list, time)[x] <= time
                 /\ [name |-> x[1], url |-> x[2]] \in ToSet(list) => Stamped(list, time)[x] = time
<1>1. time \in Int /\ time >= now
  OBVIOUS
<1>2. \A x \in Name \X Url : was[x] \in Int /\ was[x] <= now
  BY DEF WasOK
<1>3. \A x \in Name \X Url :
         Stamped(list, time)[x] =
            IF [name |-> x[1], url |-> x[2]] \in ToSet(list) THEN time ELSE was[x]
  BY DEF Stamped
<1>4. Stamped(list, time) \in [Name \X Url -> Int]
  BY <1>1, <1>2 DEF Stamped
<1>5. ASSUME NEW x \in Name \X Url
      PROVE  /\ Stamped(list, time)[x] >= was[x] /\ Stamped(list, time)[x] <= time
             /\ [name |-> x[1], url |-> x[2]] \in ToSet(list) => Stamped(list, time)[x] = time
  <2>1. /\ Stamped(list, time)[x] \in {time, was[x]}
        /\ [name |-> x[1], url |-> x[2]] \in ToSet(list) => Stamped(list, time)[x] = time
    BY <1>3, Zenon
  <2>2. was[x] \in Int /\ was[x] <= now
    BY <1>2
  <2> QED BY <1>1, <2>1, <2>2
<1> QED BY <1>4, <1>5

\* What was said of the past stays true while was and the time move forward.
LEMMA PastStays ==
    ASSUME IInv, now' \in Nat, now' >= now, was' \in [Name \X Url -> Int],
           \A x \in Name \X Url : was'[x] >= was[x]
    PROVE  /\ UNCHANGED <<cache, cached, torn>> => CacheOK'
           /\ UNCHANGED tokens => TokensOK'
           /\ (\A k \in Fetcher : /\ fetch'[k].busy = fetch[k].busy
                                  /\ fetch'[k].began = fetch[k].began
                                  /\ fetch'[k].asked = fetch[k].asked) => FetchOK'
<1>1. /\ now \in Nat /\ cached \in Int /\ was \in [Name \X Url -> Int]
      /\ \A e \in cache : e.from \in Url
      /\ \A x \in Name \X Url : was[x] \in Int /\ was'[x] \in Int
  BY DEF IInv, TypeOK
<1>2. ASSUME UNCHANGED <<cache, cached, torn>> PROVE CacheOK'
  <2>1. cached' <= now'
    BY <1>1, <1>2 DEF IInv, CacheOK
  <2>2. ASSUME NEW e \in cache PROVE \E n \in Name : was'[<<n, e.from>>] >= cached - Slack
    <3>1. PICK n \in Name : was[<<n, e.from>>] >= cached - Slack
      BY DEF IInv, CacheOK
    <3>2. <<n, e.from>> \in Name \X Url
      BY <1>1
    <3>3. cached - Slack \in Int
      BY <1>1, SlackIsTime
    <3> QED BY <3>1, <3>2, <3>3, <1>1
  <2>3. Slack' = Slack
    BY <1>2 DEF Slack
  <2> QED BY <2>1, <2>2, <2>3, <1>2 DEF CacheOK
<1>3. ASSUME UNCHANGED tokens PROVE TokensOK'
  <2> SUFFICES ASSUME NEW n \in Name, tokens[n] # None
               PROVE  /\ tokens[n].at <= now'
                      /\ was'[<<n, tokens[n].from>>] >= 0
                      /\ was'[<<n, tokens[n].from>>] >= tokens[n].at - Timeout
    BY <1>3 DEF TokensOK
  <2>1. tokens[n].at \in Nat /\ tokens[n].from \in Url
    BY DEF IInv, TypeOK
  <2>2. /\ tokens[n].at <= now /\ was[<<n, tokens[n].from>>] >= 0
        /\ was[<<n, tokens[n].from>>] >= tokens[n].at - Timeout
    BY DEF IInv, TokensOK
  <2>3. <<n, tokens[n].from>> \in Name \X Url
    BY <2>1
  <2> QED BY <2>1, <2>2, <2>3, <1>1, Numbers
<1>4. ASSUME \A k \in Fetcher : /\ fetch'[k].busy = fetch[k].busy
                                /\ fetch'[k].began = fetch[k].began
                                /\ fetch'[k].asked = fetch[k].asked
      PROVE  FetchOK'
  <2> SUFFICES ASSUME NEW k \in Fetcher, fetch[k].busy
               PROVE  /\ fetch[k].began <= now'
                      /\ \A i \in 1..Len(fetch[k].asked) :
                            was'[Pair(fetch[k].asked[i])] >= fetch[k].began
    BY <1>4 DEF FetchOK, Pair
  <2>1. fetch[k].began \in Nat /\ fetch[k].asked \in Seq(Backend) /\ fetch[k].began <= now
    BY DEF IInv, TypeOK, FetchOK
  <2>2. ASSUME NEW i \in 1..Len(fetch[k].asked)
        PROVE  was'[Pair(fetch[k].asked[i])] >= fetch[k].began
    <3>1. Pair(fetch[k].asked[i]) \in Name \X Url
      BY <2>1, ListedPairs
    <3>2. was[Pair(fetch[k].asked[i])] >= fetch[k].began
      BY DEF IInv, FetchOK
    <3> QED BY <3>1, <3>2, <2>1, <1>1
  <2> QED BY <2>1, <2>2, <1>1
<1> QED BY <1>2, <1>3, <1>4

LEMMA LoginStays ==
    ASSUME IInv, now' \in Nat, was' \in [Name \X Url -> Int],
           \A x \in Name \X Url : was'[x] >= was[x],
           login' = login, now' >= now,
           \A k \in Caller : login[k].busy => now' - login[k].began <= Timeout
    PROVE  LoginOK'
<1> SUFFICES ASSUME NEW k \in Caller, login[k].busy
             PROVE  /\ login[k].to \in Backend
                    /\ login[k].began <= now' /\ now' - login[k].began <= Timeout
                    /\ was'[Pair(login[k].to)] >= login[k].began
  BY DEF LoginOK, Pair
<1>1. /\ login[k].to \in Backend /\ login[k].began <= now
      /\ was[Pair(login[k].to)] >= login[k].began
  BY DEF IInv, LoginOK
<1>2. login[k].began \in Nat /\ now \in Nat /\ Pair(login[k].to) \in Name \X Url
  BY <1>1 DEF IInv, TypeOK, Pair, Backend
<1>3. was[Pair(login[k].to)] \in Int /\ was'[Pair(login[k].to)] \in Int
  BY <1>2 DEF IInv, TypeOK
<1> QED BY <1>1, <1>2, <1>3

LEMMA SetListKeeps ==
    ASSUME IInv, NEW list \in Seq(Backend), SetList(list), now' = now
    PROVE  /\ backends' \in Seq(Backend) /\ was' \in [Name \X Url -> Int] /\ WasOK'
           /\ \A x \in Name \X Url : was'[x] >= was[x]
<1>1. was' = Stamped(list, now) /\ backends' = list
  BY DEF SetList
<1>2. was \in [Name \X Url -> Int] /\ now \in Nat /\ WasOK
  BY DEF IInv, TypeOK
<1>3. /\ was' \in [Name \X Url -> Int]
      /\ \A x \in Name \X Url :
            /\ was'[x] >= was[x] /\ was'[x] <= now
            /\ [name |-> x[1], url |-> x[2]] \in ToSet(list) => was'[x] = now
  BY <1>1, <1>2, StampKeeps
<1>4. WasOK'
  BY <1>1, <1>3 DEF WasOK
<1> QED BY <1>1, <1>3, <1>4

LEMMA UnsteadyKeeps ==
    ASSUME fetch \in [Fetcher -> FetchRec], fetch' = Unsteady
    PROVE  /\ fetch' \in [Fetcher -> FetchRec]
           /\ \A k \in Fetcher : /\ fetch'[k].busy = fetch[k].busy
                                 /\ fetch'[k].began = fetch[k].began
                                 /\ fetch'[k].asked = fetch[k].asked
                                 /\ ~fetch'[k].steady
<1> SUFFICES ASSUME NEW k \in Fetcher
             PROVE  /\ Unsteady[k] \in FetchRec
                    /\ Unsteady[k].busy = fetch[k].busy /\ Unsteady[k].began = fetch[k].began
                    /\ Unsteady[k].asked = fetch[k].asked /\ ~Unsteady[k].steady
  BY DEF Unsteady
<1>1. fetch[k] \in FetchRec
  OBVIOUS
<1>2. Unsteady[k] = [fetch[k] EXCEPT !.steady = FALSE]
  BY DEF Unsteady
<1> QED BY <1>1, <1>2 DEF FetchRec

-----------------------------------------------------------------------------
LEMMA InitHolds == Init => IInv
<1> SUFFICES ASSUME Init PROVE IInv
  OBVIOUS
<1>1. /\ now = 0 /\ changes = 0 /\ cached = Never /\ torn = FALSE /\ cache = {} /\ adrift = FALSE /\ steady = TRUE
      /\ backends \in Seq(Backend) /\ file = backends
      /\ tokens = [n \in Name |-> None]
      /\ fetch = [k \in Fetcher |-> NoFetch] /\ login = [k \in Caller |-> NoLogin]
      /\ was = [x \in Name \X Url |->
                  IF [name |-> x[1], url |-> x[2]] \in ToSet(backends) THEN 0 ELSE -1]
  <2>1. Initial \subseteq Lists(MaxBackends)
    BY AggregatorAssumption
  <2> QED BY <2>1, ListsAreSequences DEF Init
<1>2. NoFetch \in FetchRec /\ NoLogin \in LoginRec /\ ~NoFetch.busy /\ ~NoLogin.busy
  <2>1. <<>> \in Seq(Backend)
    OBVIOUS
  <2> QED BY <2>1 DEF NoFetch, NoLogin, FetchRec, LoginRec
<1>3. was \in [Name \X Url -> Int]
  BY <1>1
<1>4. fetch \in [Fetcher -> FetchRec] /\ login \in [Caller -> LoginRec]
  BY <1>1, <1>2
<1>5. TypeOK
  BY <1>1, <1>3, <1>4, NeverIsPast DEF TypeOK, FetchRec, LoginRec
<1>6. WasOK
  BY <1>1 DEF WasOK
<1>7. FetchOK /\ FetchInTime /\ SteadyFetch /\ LoginOK
  BY <1>1, <1>2 DEF FetchOK, FetchInTime, SteadyFetch, LoginOK
<1>8. CacheOK /\ TokensOK /\ RightlyAttributed /\ FileHoldsTheList
  BY <1>1, NeverIsPast DEF CacheOK, TokensOK, RightlyAttributed, FileHoldsTheList
<1> QED BY <1>5, <1>6, <1>7, <1>8 DEF IInv

LEMMA FetchBeginsKeeps == ASSUME IInv, NEW k \in Fetcher, FetchBegins(k) PROVE IInv'
<1> DEFINE rec == [busy |-> TRUE, began |-> now, asked |-> backends, steady |-> TRUE]
<1>1. /\ fetch' = [fetch EXCEPT ![k] = rec]
      /\ UNCHANGED <<now, backends, file, cache, cached, torn, tokens, login, changes, steady,
                     was, adrift>>
  BY DEF FetchBegins
<1>2. /\ rec \in FetchRec /\ rec.busy /\ rec.began = now /\ rec.asked = backends
  BY DEF IInv, TypeOK, FetchRec
<1> HIDE DEF rec
<1>3. fetch \in [Fetcher -> FetchRec]
  BY DEF IInv, TypeOK, FetchRec
<1>4. /\ fetch' \in [Fetcher -> FetchRec] /\ fetch'[k] = rec
      /\ \A j \in Fetcher \ {k} : fetch'[j] = fetch[j]
  BY <1>1, <1>2, <1>3
<1>5. TypeOK'
  BY <1>1, <1>4 DEF IInv, TypeOK, FetchRec
<1>6. FetchOK'
  <2> SUFFICES ASSUME NEW j \in Fetcher, fetch'[j].busy
               PROVE  /\ fetch'[j].began <= now
                      /\ \A i \in 1..Len(fetch'[j].asked) :
                            was[Pair(fetch'[j].asked[i])] >= fetch'[j].began
    BY <1>1 DEF FetchOK, Pair
  <2>1. CASE j = k
    <3>1. now \in Nat /\ backends \in Seq(Backend) /\ was \in [Name \X Url -> Int]
      BY DEF IInv, TypeOK
    <3>2. ASSUME NEW i \in 1..Len(backends) PROVE was[Pair(backends[i])] >= now
      <4>1. was[Pair(backends[i])] = now
        BY <3>1, ListedPairs DEF IInv, WasOK
      <4> QED BY <4>1, <3>1
    <3>3. fetch'[j] = rec
      BY <2>1, <1>4
    <3>4. fetch'[j].began = now /\ fetch'[j].asked = backends
      BY <3>3, <1>2
    <3> QED BY <3>1, <3>2, <3>4
  <2>2. CASE j # k
    <3>1. fetch'[j] = fetch[j]
      BY <2>2, <1>4
    <3> QED BY <3>1 DEF IInv, FetchOK
  <2> QED BY <2>1, <2>2
<1>7. SteadyFetch' /\ FetchInTime'
  <2>1. now \in Nat /\ now - now <= Timeout
    BY Numbers DEF IInv, TypeOK
  <2> QED BY <2>1, <1>1, <1>2, <1>4 DEF IInv, SteadyFetch, FetchInTime
<1>8. WasOK' /\ CacheOK' /\ LoginOK' /\ TokensOK' /\ RightlyAttributed' /\ FileHoldsTheList'
  BY <1>1 DEF IInv, WasOK, CacheOK, Slack, LoginOK, TokensOK, RightlyAttributed,
              FileHoldsTheList, Pair
<1> QED BY <1>5, <1>6, <1>7, <1>8 DEF IInv

\* Each entry is listed as a backend of the list as it is now, with the answer of
\* the one that stood at its place when the fetch began.
LEMMA EntriesAre ==
    ASSUME backends \in Seq(Backend), NEW asked \in Seq(Backend), NEW came \in SUBSET DOMAIN asked,
           NEW e \in Entries(asked, came)
    PROVE  \E i \in 1..Len(backends) :
              /\ i \in 1..Len(asked)
              /\ e = [name |-> backends[i].name, url |-> backends[i].url, from |-> asked[i].url]
<1>1. DOMAIN backends = 1..Len(backends) /\ DOMAIN asked = 1..Len(asked)
  OBVIOUS
<1>2. PICK i \in DOMAIN backends \cap DOMAIN asked :
         /\ AnswerOf(i, came) # 0
         /\ e = [name |-> backends[i].name, url |-> backends[i].url,
                 from |-> asked[AnswerOf(i, came)].url]
  BY DEF Entries
<1>3. AnswerOf(i, came) = i
  BY <1>2 DEF AnswerOf
<1> QED BY <1>1, <1>2, <1>3

\* What is common to a fetch that ends and one that raises while it fills the cache.
LEMMA FilledKeeps ==
    ASSUME IInv, NEW k \in Fetcher, fetch[k].busy,
           NEW came \in SUBSET DOMAIN fetch[k].asked, cache' = Entries(fetch[k].asked, came),
           steady' = fetch[k].steady, fetch' = [fetch EXCEPT ![k] = NoFetch],
           cached' \in Int, cached' <= now, torn' \in BOOLEAN,
           fetch[k].began >= cached' - Slack',
           UNCHANGED <<now, backends, file, tokens, login, changes, was, adrift>>
    PROVE  IInv'
<1>3. fetch \in [Fetcher -> FetchRec] /\ fetch[k] \in FetchRec
  BY DEF IInv, TypeOK, FetchRec
<1>4. /\ fetch[k].began \in Nat /\ fetch[k].asked \in Seq(Backend) /\ fetch[k].steady \in BOOLEAN
      /\ backends \in Seq(Backend)
  BY <1>3 DEF FetchRec, IInv, TypeOK
<1>5. NoFetch \in FetchRec /\ ~NoFetch.busy
  <2>1. <<>> \in Seq(Backend)
    OBVIOUS
  <2> QED BY <2>1 DEF NoFetch, FetchRec
<1>6. /\ fetch' \in [Fetcher -> FetchRec] /\ fetch'[k] = NoFetch
      /\ \A j \in Fetcher \ {k} : fetch'[j] = fetch[j]
  BY <1>3, <1>5
<1>7. ASSUME NEW e \in cache'
      PROVE  \E i \in 1..Len(backends) :
                /\ i \in 1..Len(fetch[k].asked)
                /\ e = [name |-> backends[i].name, url |-> backends[i].url,
                        from |-> fetch[k].asked[i].url]
  BY <1>4, <1>7, EntriesAre
<1>8. cache' \subseteq [name : Name, url : Url, from : Url]
  <2> SUFFICES ASSUME NEW e \in cache' PROVE e \in [name : Name, url : Url, from : Url]
    OBVIOUS
  <2>1. PICK i \in 1..Len(backends) :
           /\ i \in 1..Len(fetch[k].asked)
           /\ e = [name |-> backends[i].name, url |-> backends[i].url,
                   from |-> fetch[k].asked[i].url]
    BY <1>7
  <2>2. backends[i] \in Backend /\ fetch[k].asked[i] \in Backend
    BY <2>1, <1>4
  <2> QED BY <2>1, <2>2 DEF Backend
<1>9. TypeOK'
  BY <1>4, <1>6, <1>8 DEF IInv, TypeOK, FetchRec
<1>10. CacheOK'
  <2>1. ASSUME NEW e \in cache' PROVE \E n \in Name : was'[<<n, e.from>>] >= cached' - Slack'
    <3>1. PICK i \in 1..Len(fetch[k].asked) : e.from = fetch[k].asked[i].url
      BY <1>7, <2>1
    <3>2. was[Pair(fetch[k].asked[i])] >= fetch[k].began
      BY DEF IInv, FetchOK
    <3>3. fetch[k].asked[i].name \in Name /\ Pair(fetch[k].asked[i]) \in Name \X Url
      BY <1>4, ListedPairs DEF Backend
    <3>4. was[Pair(fetch[k].asked[i])] \in Int /\ cached' - Slack' \in Int
      <4>1. Slack' \in Nat
        BY Numbers DEF Slack
      <4> QED BY <4>1, <3>3 DEF IInv, TypeOK
    <3>5. was[Pair(fetch[k].asked[i])] >= cached' - Slack'
      BY <3>2, <3>4, <1>4
    <3> QED BY <3>1, <3>3, <3>5 DEF Pair
  <2> QED BY <2>1 DEF CacheOK
<1>11. RightlyAttributed'
  <2> SUFFICES ASSUME fetch[k].steady, NEW e \in cache'
               PROVE  e.from = e.url /\ [name |-> e.name, url |-> e.url] \in ToSet(backends)
    BY DEF RightlyAttributed
  <2>1. fetch[k].asked = backends
    BY DEF IInv, SteadyFetch
  <2>2. PICK i \in 1..Len(backends) :
           e = [name |-> backends[i].name, url |-> backends[i].url, from |-> backends[i].url]
    BY <1>7, <2>1
  <2>3. backends[i] \in Backend /\ backends[i] \in ToSet(backends)
    BY <1>4, ListedPairs
  <2>4. [name |-> e.name, url |-> e.url] = backends[i]
    BY <2>2, <2>3 DEF Backend
  <2> QED BY <2>2, <2>3, <2>4
<1>12. FetchOK' /\ FetchInTime' /\ SteadyFetch'
  BY <1>5, <1>6 DEF IInv, FetchOK, FetchInTime, SteadyFetch, Pair
<1>13. WasOK' /\ LoginOK' /\ TokensOK' /\ FileHoldsTheList'
  BY DEF IInv, WasOK, LoginOK, TokensOK, FileHoldsTheList, Pair
<1> QED BY <1>9, <1>10, <1>11, <1>12, <1>13 DEF IInv

LEMMA FetchEndsKeeps == ASSUME IInv, NEW k \in Fetcher, FetchEnds(k) PROVE IInv'
<1>1. PICK came \in SUBSET DOMAIN fetch[k].asked :
         cache' = Entries(fetch[k].asked, came)
  BY DEF FetchEnds
<1>2. /\ fetch[k].busy /\ cached' = fetch[k].began /\ torn' = FALSE
      /\ steady' = fetch[k].steady /\ fetch' = [fetch EXCEPT ![k] = NoFetch]
      /\ UNCHANGED <<now, backends, file, tokens, login, changes, was, adrift>>
  BY DEF FetchEnds, Stamp
<1>3. fetch[k].began \in Nat /\ fetch[k].began <= now
  BY <1>2 DEF IInv, TypeOK, FetchOK
<1>4. Slack' = 0
  BY <1>2 DEF Slack
<1>5. cached' \in Int /\ cached' <= now /\ torn' \in BOOLEAN /\ fetch[k].began >= cached' - Slack'
  <2>1. /\ fetch[k].began \in Int /\ fetch[k].began <= fetch[k].began
        /\ fetch[k].began - 0 = fetch[k].began
    BY <1>3
  <2> QED BY <2>1, <1>2, <1>3, <1>4
<1> QED BY <1>1, <1>2, <1>5, FilledKeeps

\* The entries of a fetch that raises are under the stamp of another one, which began
\* no later than now.
LEMMA FetchFailsKeeps == ASSUME IInv, NEW k \in Fetcher, FetchFails(k) PROVE IInv'
<1>1. PICK i \in DOMAIN backends \cap DOMAIN fetch[k].asked : \E came \in SUBSET (1..i) :
         cache' = Entries(fetch[k].asked, came)
  BY DEF FetchFails
<1>2. PICK came \in SUBSET (1..i) : cache' = Entries(fetch[k].asked, came)
  BY <1>1
<1>3. /\ fetch[k].busy /\ cached' = cached /\ torn' = TRUE
      /\ steady' = fetch[k].steady /\ fetch' = [fetch EXCEPT ![k] = NoFetch]
      /\ UNCHANGED <<now, backends, file, tokens, login, changes, was, adrift>>
  BY DEF FetchFails
<1>4. /\ fetch[k].began \in Nat /\ fetch[k].asked \in Seq(Backend)
      /\ now \in Nat /\ cached \in Int /\ cached <= now
      /\ now - fetch[k].began <= Timeout
  BY <1>3 DEF IInv, TypeOK, FetchInTime, CacheOK
<1>5. came \in SUBSET DOMAIN fetch[k].asked
  <2>1. i \in 1..Len(fetch[k].asked) /\ DOMAIN fetch[k].asked = 1..Len(fetch[k].asked)
    BY <1>4
  <2>2. \A j \in 1..i : j \in 1..Len(fetch[k].asked)
    BY <2>1, <1>4
  <2> QED BY <2>1, <2>2
<1>6. Slack' = Timeout
  BY <1>3 DEF Slack
<1>7. cached' \in Int /\ cached' <= now /\ torn' \in BOOLEAN /\ fetch[k].began >= cached' - Slack'
  BY <1>3, <1>4, <1>6, Numbers
<1> QED BY <1>2, <1>3, <1>5, <1>7, FilledKeeps

LEMMA LoginBeginsKeeps == ASSUME IInv, NEW k \in Caller, LoginBegins(k) PROVE IInv'
<1>1. PICK i \in DOMAIN backends :
         login' = [login EXCEPT ![k] = [busy |-> TRUE, began |-> now, to |-> backends[i]]]
  BY DEF LoginBegins
<1>2. UNCHANGED <<now, backends, file, cache, cached, torn, tokens, fetch, changes, steady,
                  was, adrift>>
  BY DEF LoginBegins
<1> DEFINE rec == [busy |-> TRUE, began |-> now, to |-> backends[i]]
<1>3. /\ backends \in Seq(Backend) /\ i \in 1..Len(backends) /\ now \in Nat
      /\ was \in [Name \X Url -> Int] /\ login \in [Caller -> LoginRec]
  BY DEF IInv, TypeOK, LoginRec
<1>4. backends[i] \in Backend /\ was[Pair(backends[i])] = now
  BY <1>3, ListedPairs DEF IInv, WasOK
<1>5. rec \in LoginRec /\ rec.began = now /\ rec.to = backends[i]
  BY <1>3, <1>4 DEF LoginRec
<1>6. login' = [login EXCEPT ![k] = rec]
  BY <1>1
<1> HIDE DEF rec
<1>7. /\ login' \in [Caller -> LoginRec] /\ login'[k] = rec
      /\ \A j \in Caller \ {k} : login'[j] = login[j]
  BY <1>3, <1>5, <1>6
<1>8. TypeOK'
  BY <1>2, <1>7 DEF IInv, TypeOK, LoginRec
<1>9. LoginOK'
  <2> SUFFICES ASSUME NEW j \in Caller, login'[j].busy
               PROVE  /\ login'[j].to \in Backend
                      /\ login'[j].began <= now /\ now - login'[j].began <= Timeout
                      /\ was[Pair(login'[j].to)] >= login'[j].began
    BY <1>2 DEF LoginOK, Pair
  <2>1. CASE j = k
    <3>1. login'[j].to = backends[i] /\ login'[j].began = now
      BY <2>1, <1>5, <1>7
    <3> QED BY <3>1, <1>3, <1>4, Numbers
  <2>2. CASE j # k
    <3>1. login'[j] = login[j]
      BY <2>2, <1>7
    <3> QED BY <3>1 DEF IInv, LoginOK
  <2> QED BY <2>1, <2>2
<1>10. /\ WasOK' /\ FetchOK' /\ FetchInTime' /\ SteadyFetch' /\ CacheOK' /\ TokensOK' /\ RightlyAttributed'
       /\ FileHoldsTheList'
  BY <1>2 DEF IInv, WasOK, FetchOK, FetchInTime, SteadyFetch, CacheOK, Slack, TokensOK, RightlyAttributed,
              FileHoldsTheList, Pair
<1> QED BY <1>8, <1>9, <1>10 DEF IInv

LEMMA LoginEndsKeeps == ASSUME IInv, NEW k \in Caller, LoginEnds(k) PROVE IInv'
<1> DEFINE rec == [from |-> login[k].to.url, at |-> now]
<1>1. /\ login[k].busy /\ login' = [login EXCEPT ![k] = NoLogin]
      /\ tokens' \in {tokens, [tokens EXCEPT ![login[k].to.name] = rec]}
      /\ UNCHANGED <<now, backends, file, cache, cached, torn, fetch, changes, steady, was, adrift>>
  BY DEF LoginEnds
<1>2. /\ login[k].to \in Backend
      /\ login[k].began <= now /\ now - login[k].began <= Timeout
      /\ was[Pair(login[k].to)] >= login[k].began
  BY <1>1 DEF IInv, LoginOK
<1>3. /\ login[k].to.name \in Name /\ login[k].to.url \in Url /\ now \in Nat
      /\ login \in [Caller -> LoginRec]
      /\ tokens \in [Name -> [from : Url, at : Nat] \cup {None}]
      /\ was \in [Name \X Url -> Int]
  BY <1>2 DEF IInv, TypeOK, LoginRec, Backend
<1>4. login[k].began \in Nat
  BY <1>3 DEF LoginRec
<1>5. rec \in [from : Url, at : Nat] /\ rec.from = login[k].to.url /\ rec.at = now
  BY <1>3
<1> HIDE DEF rec
<1>6. NoLogin \in LoginRec /\ ~NoLogin.busy
  BY DEF NoLogin, LoginRec
<1>7. /\ login' \in [Caller -> LoginRec] /\ login'[k] = NoLogin
      /\ \A j \in Caller \ {k} : login'[j] = login[j]
  BY <1>1, <1>3, <1>6
<1>8. tokens' \in [Name -> [from : Url, at : Nat] \cup {None}]
  BY <1>1, <1>3, <1>5
<1>9. TypeOK'
  BY <1>1, <1>7, <1>8 DEF IInv, TypeOK, LoginRec
<1>10. LoginOK'
  BY <1>1, <1>6, <1>7 DEF IInv, LoginOK, Pair
<1>11. TokensOK'
  <2> SUFFICES ASSUME NEW n \in Name, tokens'[n] # None
               PROVE  /\ tokens'[n].at <= now
                      /\ was[<<n, tokens'[n].from>>] >= 0
                      /\ was[<<n, tokens'[n].from>>] >= tokens'[n].at - Timeout
    BY <1>1 DEF TokensOK
  <2>1. CASE tokens'[n] = tokens[n]
    BY <2>1 DEF IInv, TokensOK
  <2>2. CASE n = login[k].to.name /\ tokens'[n] = rec
    <3>1. <<n, tokens'[n].from>> = Pair(login[k].to) /\ tokens'[n].at = now
      BY <2>2, <1>5 DEF Pair
    <3>2. was[Pair(login[k].to)] \in Int
      BY <1>3 DEF Pair
    <3> QED BY <3>1, <3>2, <1>2, <1>3, <1>4, Numbers
  <2> QED BY <2>1, <2>2, <1>1, <1>3
<1>12. /\ WasOK' /\ FetchOK' /\ FetchInTime' /\ SteadyFetch' /\ CacheOK' /\ RightlyAttributed'
       /\ FileHoldsTheList'
  BY <1>1 DEF IInv, WasOK, FetchOK, FetchInTime, SteadyFetch, CacheOK, Slack, RightlyAttributed,
              FileHoldsTheList, Pair
<1> QED BY <1>9, <1>10, <1>11, <1>12 DEF IInv

-----------------------------------------------------------------------------
(* The list and its file                                                   *)

\* A new list, from whatever source, if the file and adrift fit.
LEMMA NewListKeeps ==
    ASSUME IInv, NEW list \in Seq(Backend), SetList(list),
           fetch' = Unsteady, steady' = FALSE,
           UNCHANGED <<now, cache, cached, torn, tokens, login>>,
           changes' \in Nat, file' \in Seq(Backend) \cup {None}, adrift' \in BOOLEAN,
           FileHoldsTheList'
    PROVE  IInv'
<1>1. /\ backends' \in Seq(Backend) /\ was' \in [Name \X Url -> Int] /\ WasOK'
      /\ \A x \in Name \X Url : was'[x] >= was[x]
  BY SetListKeeps
<1>2. /\ fetch' \in [Fetcher -> FetchRec]
      /\ \A k \in Fetcher : /\ fetch'[k].busy = fetch[k].busy
                            /\ fetch'[k].began = fetch[k].began
                            /\ fetch'[k].asked = fetch[k].asked
                            /\ ~fetch'[k].steady
  BY UnsteadyKeeps DEF IInv, TypeOK, FetchRec
<1>3. TypeOK'
  BY <1>1, <1>2 DEF IInv, TypeOK, FetchRec
<1>4. now \in Nat /\ now' >= now /\ now' \in Nat
  BY DEF IInv, TypeOK
<1>5. CacheOK' /\ TokensOK' /\ FetchOK'
  BY <1>1, <1>2, <1>4, PastStays
<1>6. LoginOK'
  <2>1. \A k \in Caller : login[k].busy => now' - login[k].began <= Timeout
    BY DEF IInv, LoginOK
  <2> QED BY <2>1, <1>1, <1>4, LoginStays
<1>7. SteadyFetch' /\ FetchInTime' /\ RightlyAttributed'
  BY <1>2 DEF IInv, SteadyFetch, FetchInTime, RightlyAttributed
<1> QED BY <1>1, <1>3, <1>5, <1>6, <1>7 DEF IInv

LEMMA EditedKeeps == ASSUME IInv, NEW list \in Seq(Backend), Edited(list) PROVE IInv'
<1>1. /\ changes' = changes + 1 /\ SetList(list) /\ Save(list)
      /\ fetch' = Unsteady /\ steady' = FALSE
      /\ UNCHANGED <<now, cache, cached, torn, tokens, login>>
  BY DEF Edited, Change
<1>2. changes' \in Nat
  BY <1>1 DEF IInv, TypeOK
<1>3. backends' = list
  BY <1>1 DEF SetList
<1>4. file' \in Seq(Backend) \cup {None} /\ adrift' \in BOOLEAN /\ FileHoldsTheList'
  <2>1. CASE file' = list /\ adrift' = FALSE
    BY <2>1, <1>3 DEF FileHoldsTheList
  <2>2. CASE file' \in {file, None} /\ adrift' = TRUE
    BY <2>2 DEF IInv, TypeOK, FileHoldsTheList
  <2>3. ASSUME NEW n \in 0..Len(list), file' = SubSeq(list, 1, n), adrift' = TRUE
        PROVE  file' \in Seq(Backend) /\ FileHoldsTheList'
    <3>1. SubSeq(list, 1, n) \in Seq(Backend)
      OBVIOUS
    <3> QED BY <2>3, <3>1 DEF FileHoldsTheList
  <2> QED BY <1>1, <2>1, <2>2, <2>3 DEF Save
<1> QED BY <1>1, <1>2, <1>4, NewListKeeps

LEMMA ChangesKeep ==
    ASSUME IInv, NEW n \in Name, NEW b \in Backend,
           AddBackend(b) \/ UpdateBackend(n, b) \/ RemoveBackend(n)
    PROVE  IInv'
<1>1. backends \in Seq(Backend)
  BY DEF IInv, TypeOK
<1>2. CASE AddBackend(b)
  <2>1. Append(backends, b) \in Seq(Backend) /\ Edited(Append(backends, b))
    BY <1>1, <1>2 DEF AddBackend
  <2> QED BY <2>1, EditedKeeps
<1>3. CASE UpdateBackend(n, b)
  <2>1. PICK i \in DOMAIN backends : Edited([backends EXCEPT ![i] = b])
    BY <1>3 DEF UpdateBackend
  <2>2. [backends EXCEPT ![i] = b] \in Seq(Backend)
    BY <1>1
  <2> QED BY <2>1, <2>2, EditedKeeps
<1>4. CASE RemoveBackend(n)
  <2>1. PICK i \in DOMAIN backends : Edited(RemoveAt(backends, i))
    BY <1>4 DEF RemoveBackend
  <2>2. i \in 1..Len(backends)
    BY <1>1
  <2>3. RemoveAt(backends, i) = SubSeq(backends, 1, i - 1) \o SubSeq(backends, i + 1, Len(backends))
    BY <1>1, <2>2 DEF RemoveAt
  <2>4. SubSeq(backends, 1, i - 1) \in Seq(Backend)
    BY <1>1, <2>2
  <2>5. SubSeq(backends, i + 1, Len(backends)) \in Seq(Backend)
    BY <1>1, <2>2
  <2>6. RemoveAt(backends, i) \in Seq(Backend)
    BY <2>3, <2>4, <2>5
  <2> QED BY <2>1, <2>6, EditedKeeps
<1> QED BY <1>2, <1>3, <1>4

LEMMA ReloadKeeps == ASSUME IInv, Reload PROVE IInv'
<1>1. UNCHANGED <<now, changes, file, cache, cached, torn, tokens, login>>
  BY DEF Reload
<1>2. CASE file = None
  <2>1. UNCHANGED vars
    BY <1>1, <1>2 DEF Reload, vars
  <2> QED BY <2>1 DEF vars, IInv, TypeOK, WasOK, FetchOK, FetchInTime, SteadyFetch, CacheOK, Slack, LoginOK,
                      TokensOK, RightlyAttributed, FileHoldsTheList, Pair
<1>3. CASE file # None
  <2>1. SetList(file) /\ adrift' = FALSE /\ fetch' = Unsteady /\ steady' = FALSE
    BY <1>3 DEF Reload
  <2>2. file \in Seq(Backend) /\ changes \in Nat
    BY <1>3 DEF IInv, TypeOK
  <2>3. FileHoldsTheList'
    BY <1>1, <2>1 DEF SetList, FileHoldsTheList
  <2> QED BY <1>1, <2>1, <2>2, <2>3, NewListKeeps
<1> QED BY <1>2, <1>3

LEMMA EditFileKeeps == ASSUME IInv, EditFile PROVE IInv'
<1>1. /\ changes' = changes + 1 /\ file' \in Edits /\ adrift' = TRUE
      /\ UNCHANGED <<now, backends, cache, cached, torn, tokens, fetch, login, steady, was>>
  BY DEF EditFile, Change
<1>2. file' \in Seq(Backend) \cup {None}
  <2>1. Edits \subseteq Lists(MaxBackends) \cup {None}
    BY AggregatorAssumption
  <2> QED BY <1>1, <2>1, ListsAreSequences
<1>3. TypeOK'
  BY <1>1, <1>2 DEF IInv, TypeOK
<1> QED BY <1>1, <1>3 DEF IInv, WasOK, FetchOK, FetchInTime, SteadyFetch, CacheOK, Slack, LoginOK, TokensOK,
                          RightlyAttributed, FileHoldsTheList, Pair

LEMMA RestartKeeps == ASSUME IInv, Restart PROVE IInv'
<1> DEFINE list == IF file = None THEN <<>> ELSE file
<1>1. /\ SetList(list) /\ adrift' = (file = None)
      /\ cache' = {} /\ cached' = Never /\ torn' = FALSE /\ steady' = TRUE
      /\ tokens' = [n \in Name |-> None]
      /\ fetch' = [k \in Fetcher |-> NoFetch] /\ login' = [k \in Caller |-> NoLogin]
      /\ UNCHANGED <<now, changes, file>>
  BY DEF Restart
<1>2. list \in Seq(Backend)
  <2>1. <<>> \in Seq(Backend)
    OBVIOUS
  <2> QED BY <2>1 DEF IInv, TypeOK
<1>3. file # None => list = file
  OBVIOUS
<1> HIDE DEF list
<1>4. backends' = list /\ backends' \in Seq(Backend) /\ was' \in [Name \X Url -> Int] /\ WasOK'
  BY <1>1, <1>2, SetListKeeps DEF SetList
<1>5. NoFetch \in FetchRec /\ NoLogin \in LoginRec /\ ~NoFetch.busy /\ ~NoLogin.busy
  <2>1. <<>> \in Seq(Backend)
    OBVIOUS
  <2> QED BY <2>1 DEF NoFetch, NoLogin, FetchRec, LoginRec
<1>6. fetch' \in [Fetcher -> FetchRec] /\ login' \in [Caller -> LoginRec]
  BY <1>1, <1>5
<1>7. TypeOK'
  BY <1>1, <1>4, <1>6, NeverIsPast DEF IInv, TypeOK, FetchRec, LoginRec
<1>8. FetchOK' /\ FetchInTime' /\ SteadyFetch' /\ LoginOK'
  BY <1>1, <1>5 DEF FetchOK, FetchInTime, SteadyFetch, LoginOK
<1>9. CacheOK' /\ TokensOK' /\ RightlyAttributed'
  <2>1. Never <= now /\ now' = now
    BY <1>1, NeverIsPast DEF IInv, TypeOK
  <2> QED BY <1>1, <2>1 DEF CacheOK, TokensOK, RightlyAttributed
<1>10. FileHoldsTheList'
  <2>1. ~adrift' => file # None
    BY <1>1
  <2>2. file' = file
    BY <1>1
  <2> QED BY <2>1, <2>2, <1>3, <1>4, Zenon DEF FileHoldsTheList
<1> QED BY <1>4, <1>7, <1>8, <1>9, <1>10 DEF IInv

LEMMA TickKeeps == ASSUME IInv, Tick PROVE IInv'
<1>1. /\ now' = now + 1 /\ was' = Stamped(backends, now')
      /\ \A k \in Fetcher : fetch[k].busy => now - fetch[k].began < Timeout
      /\ \A k \in Caller : login[k].busy => now - login[k].began < Timeout
      /\ UNCHANGED <<backends, file, cache, cached, torn, tokens, fetch, login, changes, steady,
                     adrift>>
  BY DEF Tick
<1>2. /\ was \in [Name \X Url -> Int] /\ now \in Nat /\ WasOK /\ backends \in Seq(Backend)
  BY DEF IInv, TypeOK
<1>3. /\ was' \in [Name \X Url -> Int]
      /\ \A x \in Name \X Url :
            /\ was'[x] >= was[x] /\ was'[x] <= now'
            /\ [name |-> x[1], url |-> x[2]] \in ToSet(backends) => was'[x] = now'
  BY <1>1, <1>2, StampKeeps
<1>4. now' \in Nat /\ now' >= now
  BY <1>1, <1>2
<1>5. TypeOK'
  BY <1>1, <1>3, <1>4 DEF IInv, TypeOK
<1>6. WasOK'
  BY <1>1, <1>3 DEF WasOK
<1>7. CacheOK' /\ TokensOK' /\ FetchOK'
  BY <1>1, <1>3, <1>4, PastStays
<1>8. LoginOK'
  <2>1. ASSUME NEW k \in Caller, login[k].busy PROVE now' - login[k].began <= Timeout
    <3>1. login[k].began \in Nat
      BY DEF IInv, TypeOK
    <3>2. now - login[k].began < Timeout
      BY <1>1, <2>1
    <3> QED BY <3>1, <3>2, <1>1, <1>2, Numbers
  <2> QED BY <2>1, <1>1, <1>3, <1>4, LoginStays
<1>9. SteadyFetch' /\ RightlyAttributed' /\ FileHoldsTheList'
  BY <1>1 DEF IInv, SteadyFetch, RightlyAttributed, FileHoldsTheList
<1>10. FetchInTime'
  <2> SUFFICES ASSUME NEW k \in Fetcher, fetch[k].busy PROVE now' - fetch[k].began <= Timeout
    BY <1>1 DEF FetchInTime
  <2>1. fetch[k].began \in Nat
    BY DEF IInv, TypeOK
  <2> QED BY <2>1, <1>1, <1>2, Numbers
<1> QED BY <1>5, <1>6, <1>7, <1>8, <1>9, <1>10 DEF IInv

LEMMA StepKeeps == IInv /\ [Next]_vars => IInv'
<1> SUFFICES ASSUME IInv, [Next]_vars PROVE IInv'
  OBVIOUS
<1>1. ASSUME NEW k \in Fetcher, FetchBegins(k) \/ FetchEnds(k) \/ FetchFails(k) PROVE IInv'
  BY <1>1, FetchBeginsKeeps, FetchEndsKeeps, FetchFailsKeeps
<1>2. ASSUME NEW k \in Caller, LoginBegins(k) \/ LoginEnds(k) PROVE IInv'
  BY <1>2, LoginBeginsKeeps, LoginEndsKeeps
<1>3. ASSUME NEW b \in Backend, AddBackend(b) \/ \E n \in Name : UpdateBackend(n, b)
      PROVE  IInv'
  <2>1. b.name \in Name
    BY DEF Backend
  <2> QED BY <1>3, <2>1, ChangesKeep
<1>4. ASSUME NEW n \in Name, RemoveBackend(n) PROVE IInv'
  <2>1. PICK i \in DOMAIN backends : TRUE
    BY <1>4 DEF RemoveBackend
  <2>2. backends[i] \in Backend
    BY <2>1 DEF IInv, TypeOK
  <2> QED BY <1>4, <2>2, ChangesKeep
<1>5. CASE Reload \/ EditFile \/ Restart \/ Tick
  BY <1>5, ReloadKeeps, EditFileKeeps, RestartKeeps, TickKeeps
<1>6. CASE UNCHANGED vars
  BY <1>6 DEF vars, IInv, TypeOK, WasOK, FetchOK, FetchInTime, SteadyFetch, CacheOK, Slack, LoginOK,
              TokensOK, RightlyAttributed, FileHoldsTheList, Pair
<1> QED BY <1>1, <1>2, <1>3, <1>4, <1>5, <1>6 DEF Next

-----------------------------------------------------------------------------
(* The theorems                                                            *)

\* The inductive invariant holds, however requests, changes, edits of the file and
\* restarts of the server interleave.
THEOREM Invariant == Spec => []IInv
<1>1. Init => IInv
  BY InitHolds
<1>2. IInv /\ [Next]_vars => IInv'
  BY StepKeeps
<1> QED BY <1>1, <1>2, PTL DEF Spec

\* The aggregator's state has its types (aggregator.py:20-60).
THEOREM TypeCorrect == Spec => []TypeOK
<1>1. IInv => TypeOK
  BY DEF IInv
<1> QED BY <1>1, Invariant, PTL

\* Unless a save failed or the file was edited, the file holds the list
\* (aggregator.py:210-266).
THEOREM FileHoldsTheListHolds == Spec => []FileHoldsTheList
<1>1. IInv => FileHoldsTheList
  BY DEF IInv
<1> QED BY <1>1, Invariant, PTL

\* For any number of fetches and whichever servers fail: while the list has not
\* changed since the fetch began, ports are listed under the backend they came
\* from (aggregator.py:87-118).
THEOREM RightlyAttributedHolds == Spec => []RightlyAttributed
<1>1. IInv => RightlyAttributed
  BY DEF IInv
<1> QED BY <1>1, Invariant, PTL

\* However long fetches take and however they overlap, what the cache serves was on
\* the list less than the cache's lifetime ago, or, when a fetch raised while it
\* filled the cache, less than that and a fetch's time ago (aggregator.py:87-118).
THEOREM RemovedIsForgottenHolds == Spec => []RemovedIsForgotten
<1>1. IInv => RemovedIsForgotten
  <2> SUFFICES ASSUME IInv, CacheServes, NEW e \in cache
               PROVE  \E n \in Name : now - was[<<n, e.from>>] < CacheTTL + Slack
    BY DEF RemovedIsForgotten, Slack
  <2>1. PICK n \in Name : was[<<n, e.from>>] >= cached - Slack
    BY DEF IInv, CacheOK
  <2>2. /\ e.from \in Url /\ now \in Nat /\ cached \in Int
        /\ was \in [Name \X Url -> Int]
    BY DEF IInv, TypeOK
  <2>3. was[<<n, e.from>>] \in Int
    BY <2>2
  <2>4. now - cached < CacheTTL
    BY DEF CacheServes
  <2> QED BY <2>1, <2>2, <2>3, <2>4, Numbers, SlackIsTime
<1> QED BY <1>1, Invariant, PTL

\* A token that is handed out came from a server the name stood for less than a
\* token's lifetime and a login's timeout ago (aggregator.py:179-205).
THEOREM TokenFollowsTheNameHolds == Spec => []TokenFollowsTheName
<1>1. IInv => TokenFollowsTheName
  <2> SUFFICES ASSUME IInv, NEW n \in Name, TokenServes(n)
               PROVE  /\ now - was[<<n, tokens[n].from>>] < TokenTTL + Timeout
                      /\ was[<<n, tokens[n].from>>] >= 0
    BY DEF TokenFollowsTheName
  <2>1. tokens[n] # None /\ now - tokens[n].at < TokenTTL
    BY DEF TokenServes
  <2>2. /\ was[<<n, tokens[n].from>>] >= 0
        /\ was[<<n, tokens[n].from>>] >= tokens[n].at - Timeout
    BY <2>1 DEF IInv, TokensOK
  <2>3. /\ tokens[n].from \in Url /\ tokens[n].at \in Nat /\ now \in Nat
        /\ was \in [Name \X Url -> Int]
    BY <2>1 DEF IInv, TypeOK
  <2>4. was[<<n, tokens[n].from>>] \in Int
    BY <2>3
  <2> QED BY <2>1, <2>2, <2>3, <2>4, Numbers
<1> QED BY <1>1, Invariant, PTL
=============================================================================
