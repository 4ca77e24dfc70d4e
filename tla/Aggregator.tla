----------------------------- MODULE Aggregator -----------------------------
(***************************************************************************)
(* The aggregator: the list of backends and its YAML file, the cache of    *)
(* their ports and the cache of their tokens, while requests fetch ports   *)
(* and log in, and admins change the list or edit the file.                *)
(*                                                                         *)
(* A backend is a name and the server it stands for (its url); a server    *)
(* that is asked is assumed to answer or fail within Timeout (httpx limits *)
(* each operation of a call, not the call).  The ports of a server are not *)
(* told apart: what counts is whose they are and whose they are said to    *)
(* be.  Backends with a token of their own need no login and are left out. *)
(***************************************************************************)
EXTENDS Integers, FiniteSets, Sequences, SequencesExt

CONSTANTS Name, Url, None,
          Initial,      \* what the file may hold at first
          Edits,        \* what an admin may make of the file
          Fetcher,      \* requests for the ports of all backends
          Caller,       \* requests for a web socket address
          Wants,        \* the name each of them is for
          CacheTTL,     \* _cache_ttl, in ticks
          TokenTTL,     \* how long a token is used, in ticks
          Timeout,      \* how long a call of a server takes at most, in ticks
          MaxTime,      \* bound: ticks of the clock
          MaxChanges,   \* bound: changes of the list and the file
          MaxBackends   \* bound: backends at a time

Backend == [name : Name, url : Url]
Lists(n) == UNION {[1..m -> Backend] : m \in 0..n}

ASSUME AggregatorAssumption ==
    /\ {CacheTTL, TokenTTL, Timeout, MaxTime, MaxChanges, MaxBackends} \subseteq Nat
    /\ Wants \in [Caller -> Name]
    /\ None \notin Name \cup Url
    /\ Initial \subseteq Lists(MaxBackends)
    /\ Edits \subseteq Lists(MaxBackends) \cup {None}

VARIABLES
  now,       \* time.monotonic()
  backends,  \* _backends
  file,      \* the backends file as it parses, or None
  cache,     \* _cache: the entries under which ports are listed
  cached,    \* _cache_time
  torn,      \* history: a fetch has raised while it filled the cache, since the cache
             \* was last stamped
  tokens,    \* _token_cache: from where each name's token came, and when
  fetch,     \* the requests that fetch ports
  login,     \* the requests that log in to a backend
  changes,   \* number of changes of the list and the file
  steady,    \* history: the list has not changed since the fetch in the cache began
  was,       \* history: when each name last stood for each url, -1 for never
  adrift     \* history: a save failed, or the file was edited, since the file last
             \* took or gave the list

vars == <<now, backends, file, cache, cached, torn, tokens, fetch, login, changes,
          steady, was, adrift>>

\* A fetch: when it began, which backends it asked, and (history) whether the list
\* is still the same.  A login: when it began, and to which backend.
NoFetch == [busy |-> FALSE, began |-> 0, asked |-> <<>>, steady |-> FALSE]
NoLogin == [busy |-> FALSE, began |-> 0, to |-> None]

\* _cache_time before the first fetch: longer ago than the cache serves.
Never == -CacheTTL

Stamped(list, time) ==
    [x \in Name \X Url |-> IF [name |-> x[1], url |-> x[2]] \in ToSet(list) THEN time ELSE was[x]]

Init ==
    /\ now = 0 /\ changes = 0
    /\ backends \in Initial /\ file = backends
    /\ cache = {} /\ cached = Never /\ torn = FALSE
    /\ tokens = [n \in Name |-> None]
    /\ fetch = [k \in Fetcher |-> NoFetch] /\ login = [k \in Caller |-> NoLogin]
    /\ steady = TRUE /\ adrift = FALSE
    /\ was = [x \in Name \X Url |->
                IF [name |-> x[1], url |-> x[2]] \in ToSet(backends) THEN 0 ELSE -1]

-----------------------------------------------------------------------------
(* Fetching ports                                                          *)

CacheServes == cache # {} /\ now - cached < CacheTTL

\* Unless the cache serves it, a request asks all backends of the list.
FetchBegins(k) ==
    /\ ~CacheServes /\ ~fetch[k].busy
    /\ fetch' = [fetch EXCEPT ![k] =
                   [busy |-> TRUE, began |-> now, asked |-> backends, steady |-> TRUE]]
    /\ UNCHANGED <<now, backends, file, cache, cached, torn, tokens, login, changes, steady,
                   was, adrift>>

\* (A slip: a server that fails leaves no gap in the results.)
MutAnswerOf(i, came) == IF i <= Cardinality(came) THEN SetToSortSeq(came, <)[i] ELSE 0

\* Which server's answer is taken for that of backend i, 0 for none.
AnswerOf(i, came) == IF i \in came THEN i ELSE 0

\* What is listed of the servers `came`: the list as it is now is gone through beside
\* the results.  (Of two backends with one name the later takes over the ids that
\* both have: came leaves out a server that has none left.)
Entries(asked, came) ==
    {[name |-> backends[i].name, url |-> backends[i].url, from |-> asked[AnswerOf(i, came)].url] :
       i \in {i \in DOMAIN backends \cap DOMAIN asked : AnswerOf(i, came) # 0}}

\* (A slip: the cache is stamped when the answers are there.)
MutStamp(k) == now

\* _cache_time: the time at which the fetch began.
Stamp(k) == fetch[k].began

FetchEnds(k) ==
    /\ fetch[k].busy
    /\ \E came \in SUBSET DOMAIN fetch[k].asked : cache' = Entries(fetch[k].asked, came)
    /\ cached' = Stamp(k) /\ torn' = FALSE /\ steady' = fetch[k].steady
    /\ fetch' = [fetch EXCEPT ![k] = NoFetch]
    /\ UNCHANGED <<now, backends, file, tokens, login, changes, was, adrift>>

\* The answer of backend i is not what it should be, which raises: what was listed
\* until then, of this backend too, stays in the cache, which is not stamped.
FetchFails(k) ==
    /\ fetch[k].busy
    /\ \E i \in DOMAIN backends \cap DOMAIN fetch[k].asked :
       \E came \in SUBSET (1..i) : cache' = Entries(fetch[k].asked, came)
    /\ torn' = TRUE /\ steady' = fetch[k].steady
    /\ fetch' = [fetch EXCEPT ![k] = NoFetch]
    /\ UNCHANGED <<now, backends, file, cached, tokens, login, changes, was, adrift>>

-----------------------------------------------------------------------------
(* Tokens                                                                  *)

\* (A slip: a token is used as long as it is there.)
MutTokenServes(n) == tokens[n] # None

TokenServes(n) == tokens[n] # None /\ now - tokens[n].at < TokenTTL

\* A name stands for the first backend that has it.
First(i, n) ==
    /\ i \in DOMAIN backends /\ backends[i].name = n
    /\ \A j \in 1..(i - 1) : backends[j].name # n

\* A web socket address is asked for, and there is no token that serves.
LoginBegins(k) ==
    /\ ~login[k].busy /\ ~TokenServes(Wants[k])
    /\ \E i \in DOMAIN backends :
          /\ First(i, Wants[k])
          /\ login' = [login EXCEPT ![k] = [busy |-> TRUE, began |-> now, to |-> backends[i]]]
    /\ UNCHANGED <<now, backends, file, cache, cached, torn, tokens, fetch, changes, steady,
                   was, adrift>>

\* The token is kept under the name the backend had; or the login has failed.
LoginEnds(k) ==
    /\ login[k].busy
    /\ tokens' \in {tokens, [tokens EXCEPT ![login[k].to.name] =
                                [from |-> login[k].to.url, at |-> now]]}
    /\ login' = [login EXCEPT ![k] = NoLogin]
    /\ UNCHANGED <<now, backends, file, cache, cached, torn, fetch, changes, steady, was,
                   adrift>>

-----------------------------------------------------------------------------
(* The list and its file                                                   *)

Change == changes < MaxChanges /\ changes' = changes + 1

SetList(list) ==
    /\ backends' = list
    /\ was' = Stamped(list, now)

Unsteady == [k \in Fetcher |-> [fetch[k] EXCEPT !.steady = FALSE]]

\* _persist_backends: the file holds the list, or saving failed, which is logged:
\* the file is as before, or cut off after some backends or within one.
Save(list) ==
    \/ file' = list /\ adrift' = FALSE
    \/ /\ \/ file' \in {file, None}
          \/ \E n \in 0..Len(list) : file' = SubSeq(list, 1, n)
       /\ adrift' = TRUE

Edited(list) ==
    /\ Change /\ SetList(list) /\ Save(list)
    /\ fetch' = Unsteady /\ steady' = FALSE
    /\ UNCHANGED <<now, cache, cached, torn, tokens, login>>

AddBackend(b) ==
    /\ Len(backends) < MaxBackends
    /\ \A i \in DOMAIN backends : backends[i].name # b.name
    /\ Edited(Append(backends, b))

\* (A slip: the change is not saved.)
MutUpdateBackend(n, b) ==
    \E i \in DOMAIN backends :
       /\ First(i, n)
       /\ Change /\ SetList([backends EXCEPT ![i] = b])
       /\ fetch' = Unsteady /\ steady' = FALSE
       /\ UNCHANGED <<now, file, adrift, cache, cached, torn, tokens, login>>

\* The first backend of that name is replaced, perhaps under a name that another
\* one has.
UpdateBackend(n, b) ==
    \E i \in DOMAIN backends :
       /\ First(i, n)
       /\ Edited([backends EXCEPT ![i] = b])

RemoveBackend(n) ==
    \E i \in DOMAIN backends :
       /\ First(i, n)
       /\ Edited(RemoveAt(backends, i))

\* A file that does not parse leaves the list as it is.
Reload ==
    /\ IF file = None THEN UNCHANGED <<backends, was, fetch, steady, adrift>>
       ELSE /\ SetList(file) /\ adrift' = FALSE
            /\ fetch' = Unsteady /\ steady' = FALSE
    /\ UNCHANGED <<now, changes, file, cache, cached, torn, tokens, login>>

\* An admin edits the file.
EditFile ==
    /\ Change
    /\ file' \in Edits /\ adrift' = TRUE
    /\ UNCHANGED <<now, backends, cache, cached, torn, tokens, fetch, login, steady, was>>

\* The server stops, or dies, and starts again with what the file holds.
Restart ==
    /\ SetList(IF file = None THEN <<>> ELSE file)
    /\ adrift' = (file = None)
    /\ cache' = {} /\ cached' = Never /\ torn' = FALSE /\ steady' = TRUE
    /\ tokens' = [n \in Name |-> None]
    /\ fetch' = [k \in Fetcher |-> NoFetch] /\ login' = [k \in Caller |-> NoLogin]
    /\ UNCHANGED <<now, changes, file>>

\* Time passes, but no call of a server lasts longer than Timeout.
Tick ==
    /\ now < MaxTime /\ now' = now + 1
    /\ \A k \in Fetcher : fetch[k].busy => now - fetch[k].began < Timeout
    /\ \A k \in Caller : login[k].busy => now - login[k].began < Timeout
    /\ was' = Stamped(backends, now')
    /\ UNCHANGED <<backends, file, cache, cached, torn, tokens, fetch, login, changes, steady,
                   adrift>>

Next ==
    \/ \E k \in Fetcher : FetchBegins(k) \/ FetchEnds(k) \/ FetchFails(k)
    \/ \E k \in Caller : LoginBegins(k) \/ LoginEnds(k)
    \/ \E b \in Backend : \/ AddBackend(b)
                          \/ \E n \in Name : UpdateBackend(n, b)
    \/ \E n \in Name : RemoveBackend(n)
    \/ Reload \/ EditFile \/ Restart \/ Tick

Spec == Init /\ [][Next]_vars

-----------------------------------------------------------------------------
(* Properties                                                              *)

TypeOK ==
    /\ now \in Nat /\ changes \in Nat /\ cached \in Int
    /\ backends \in Seq(Backend) /\ file \in Seq(Backend) \cup {None}
    /\ cache \subseteq [name : Name, url : Url, from : Url]
    /\ tokens \in [Name -> [from : Url, at : Nat] \cup {None}]
    /\ fetch \in [Fetcher -> [busy : BOOLEAN, began : Nat, asked : Seq(Backend), steady : BOOLEAN]]
    /\ login \in [Caller -> [busy : BOOLEAN, began : Nat, to : Backend \cup {None}]]
    /\ steady \in BOOLEAN /\ adrift \in BOOLEAN /\ torn \in BOOLEAN
    /\ was \in [Name \X Url -> Int]

\* What the cache serves came from servers that were on the list less than the
\* cache's lifetime ago, however slow fetches overlap and whichever ends last; and
\* when a fetch has raised while it filled the cache, which leaves its entries under
\* another one's stamp, less than that and the time a fetch takes ago
\* (aggregator.py:87-118).  This is about the cache: a fetch that began before a
\* server was removed answers its own caller with that server's ports.
RemovedIsForgotten ==
    CacheServes =>
       \A e \in cache : \E n \in Name :
          now - was[<<n, e.from>>] < CacheTTL + (IF torn THEN Timeout ELSE 0)

\* As long as the list has not changed since the fetch began, ports are listed under
\* the backend they came from, whichever servers fail or answer what makes the fetch
\* raise (aggregator.py:97-114).
RightlyAttributed ==
    steady => \A e \in cache :
                 e.from = e.url /\ [name |-> e.name, url |-> e.url] \in ToSet(backends)

\* A token that is handed out for a name came from a server the name has stood for
\* until recently: after an update or a removal the old token is used no longer
\* than tokens live and a login takes (aggregator.py:179-205).
TokenFollowsTheName ==
    \A n \in Name :
       TokenServes(n) => now - was[<<n, tokens[n].from>>] < TokenTTL + Timeout
                         /\ was[<<n, tokens[n].from>>] >= 0

\* As long as no save has failed and nobody edited the file, the file holds the
\* list: a reload or a restart at any moment changes nothing (aggregator.py:210-266).
FileHoldsTheList == ~adrift => file = backends
=============================================================================
