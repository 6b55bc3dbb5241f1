---------------------------- MODULE ServiceWorker ----------------------------
(***************************************************************************)
(* The service worker of public/sw.js between the pages, its two caches    *)
(* and the network.  Requests run side by side, their answers come back in *)
(* any order, and cache.put() is not awaited.                              *)
(***************************************************************************)
EXTENDS Integers, FiniteSets

CONSTANTS
  Assets, Data,      \* URLs of the origin, and those of the API and of RPC nodes
  Fetches,           \* requests that may be in flight at once
  MaxVersion,        \* bound on what is deployed
  Missing            \* no cached response, or a network error

ASSUME WorkerAssumption == Assets \intersect Data = {} /\ MaxVersion \in Nat \ {0}

Resources == Assets \union Data

VARIABLES
  worker,            \* "none", "installed", "active"
  network,           \* "up", "failing" (answers, but not with 200), "down"
  served,            \* the version of each URL the network has
  cache,             \* what SHELL_CACHE (Assets) and DATA_CACHE (Data) hold
  oldCaches,         \* are there caches of other versions
  fetches,           \* requests: [at, url, cached, version]
  shown              \* the last response a page got of each URL

workerVars == <<worker, network, served, cache, oldCaches, fetches, shown>>

NoFetch == [at |-> "none", url |-> Missing, cached |-> Missing, version |-> Missing]
\* A response of status 200 is a version, one of any other status ErrorPage.
ErrorPage == 0
Response(url) ==
  CASE network = "up" -> served[url] [] network = "failing" -> ErrorPage [] OTHER -> Missing

WorkerInit ==
  /\ worker = "none"
  /\ network = "up"
  /\ served = [u \in Resources |-> 1]
  /\ cache = [u \in Resources |-> Missing]
  /\ oldCaches \in BOOLEAN
  /\ fetches = [f \in Fetches |-> NoFetch]
  /\ shown = [u \in Resources |-> Missing]

\* The install handler: cache.addAll() of the shell is all or nothing.
Install ==
  /\ worker = "none" /\ network = "up"
  /\ worker' = "installed"
  /\ cache' = [u \in Resources |-> IF u \in Assets THEN served[u] ELSE cache[u]]
  /\ UNCHANGED <<network, served, oldCaches, fetches, shown>>

\* The activate handler: caches of other versions go, and the pages are claimed.
Activate ==
  /\ worker = "installed"
  /\ worker' = "active"
  /\ oldCaches' = FALSE
  /\ UNCHANGED <<network, served, cache, fetches, shown>>

Deploy(u) ==
  /\ served[u] < MaxVersion
  /\ served' = [served EXCEPT ![u] = @ + 1]
  /\ UNCHANGED <<worker, network, cache, oldCaches, fetches, shown>>
NetworkChanges ==
  /\ network' \in {"up", "failing", "down"} \ {network}
  /\ UNCHANGED <<worker, served, cache, oldCaches, fetches, shown>>

\* staleWhileRevalidate(): a cached response is the answer, and the network is
\* asked all the same.
staleWhileRevalidate(f, u) ==
  /\ worker = "active" /\ fetches[f].at = "none" /\ u \in Assets
  /\ fetches' = [fetches EXCEPT ![f] =
                   [NoFetch EXCEPT !.at = "fetching", !.url = u, !.cached = cache[u]]]
  /\ shown' = IF cache[u] # Missing THEN [shown EXCEPT ![u] = cache[u]] ELSE shown
  /\ UNCHANGED <<worker, network, served, cache, oldCaches>>
networkFirst(f, u) ==
  /\ worker = "active" /\ fetches[f].at = "none" /\ u \in Data
  /\ fetches' = [fetches EXCEPT ![f] = [NoFetch EXCEPT !.at = "fetching", !.url = u]]
  /\ UNCHANGED <<worker, network, served, cache, oldCaches, shown>>

\* What the page gets when the network has answered: without an answer the
\* cache, as it was (Assets) or as it is now (Data).
AnswerOf(q, response) ==
  IF q.url \in Assets
    THEN IF q.cached # Missing THEN shown[q.url] ELSE response
    ELSE IF response # Missing THEN response ELSE cache[q.url]

\* Only a response of status 200 is put into the cache.  Offline, a page that
\* is not cached gets nothing: the promise ends with undefined and is not
\* rejected, so that the handler's caches.match("/") is not reached.
FetchEnds(f) ==
  /\ fetches[f].at = "fetching"
  /\ LET response == Response(fetches[f].url)
     IN  /\ fetches' = [fetches EXCEPT ![f] =
              IF network = "up" THEN [@ EXCEPT !.at = "putting", !.version = response] ELSE NoFetch]
         /\ shown' = [shown EXCEPT ![fetches[f].url] = AnswerOf(fetches[f], response)]
  /\ UNCHANGED <<worker, network, served, cache, oldCaches>>

PutIfAbsent(f) ==
  /\ fetches[f].at = "putting"
  /\ cache' = [cache EXCEPT ![fetches[f].url] = IF @ = Missing THEN fetches[f].version ELSE @]
  /\ fetches' = [fetches EXCEPT ![f] = NoFetch]
  /\ UNCHANGED <<worker, network, served, oldCaches, shown>>
\* The response is in the cache; nobody waited for it.
PutEnds(f) ==
  /\ fetches[f].at = "putting"
  /\ cache' = [cache EXCEPT ![fetches[f].url] = fetches[f].version]
  /\ fetches' = [fetches EXCEPT ![f] = NoFetch]
  /\ UNCHANGED <<worker, network, served, oldCaches, shown>>

Visit(u) == \E f \in Fetches : staleWhileRevalidate(f, u) \/ networkFirst(f, u)

WorkerNext ==
  \/ Install \/ Activate \/ NetworkChanges
  \/ \E u \in Resources : Deploy(u) \/ Visit(u)
  \/ \E f \in Fetches : FetchEnds(f) \/ PutEnds(f)

\* The browser lets a worker finish what it has begun.  That is generous: the
\* request and the put in the background are not under waitUntil(), so that an
\* idle worker may be stopped in between, and then a later visit starts again.
WorkerFairness == \A f \in Fetches : WF_workerVars(FetchEnds(f)) /\ WF_workerVars(PutEnds(f))

-----------------------------------------------------------------------------
(***************************************************************************)
(* Properties.                                                             *)
(***************************************************************************)

\* The caches hold complete responses only, never the page of an error: what
\* a page is shown while the network is down is a version that was deployed.
CachesAreServed == \A u \in Resources : cache[u] # Missing => cache[u] \in 1..served[u]

\* A page that is visited again and again while the network stays up shows
\* the last version in the end, although each visit is answered from the
\* cache, and requests of older versions may put theirs over a newer one.
FreshInTheEnd ==
  \A u \in Resources :
    <>[](network = "up") /\ []<><<Visit(u)>>_workerVars => <>[](shown[u] = served[u])
=============================================================================
