------------------------------- MODULE TxCache -------------------------------
(***************************************************************************)
(* The transaction cache of lib/storage/txCache.ts.  A call of putMany()   *)
(* awaits the database, a transaction that writes its batch, a transaction *)
(* that counts and a transaction that deletes the excess it counted; other *)
(* calls run between them.                                                 *)
(*                                                                         *)
(* A record is the natural number of its timestamp.  IndexedDB runs the    *)
(* transactions of the store in the order they were created.               *)
(***************************************************************************)
EXTENDS Integers, Sequences, FiniteSets

CONSTANTS
  Records,        \* timestamps of the transactions observed
  RetentionCap,   \* retentionCap
  CacheCalls      \* calls of putMany() and clear()

ASSUME RecordsAssumption == Records \subseteq Nat /\ IsFiniteSet(Records)
ASSUME RetentionCapAssumption == RetentionCap \in Nat

VARIABLES
  persistent,     \* openDb() resolves to a database; the promise is kept
  store,          \* the records of the object store
  memory,         \* the in-memory fallback
  transactions,   \* transactions created and not yet run: <<call, kind>>
  cacheCall,      \* where each call is: [at, batch, excess]
  evictFailed     \* history: an eviction failed and nothing was counted since

cacheVars == <<persistent, store, memory, transactions, cacheCall, evictFailed>>

Idle == [at |-> "idle", batch |-> {}, excess |-> 0]

CacheInit ==
  /\ persistent \in BOOLEAN
  /\ store = {} /\ memory = {}
  /\ transactions = <<>>
  /\ cacheCall = [c \in CacheCalls |-> Idle]
  /\ evictFailed = FALSE

\* The n oldest records of s.
Oldest(s, n) == {r \in s : Cardinality({q \in s : q < r}) < n}

Excess(s) == IF Cardinality(s) > RetentionCap THEN Cardinality(s) - RetentionCap ELSE 0
\* evictMemory()
Evicted(s) == s \ Oldest(s, Excess(s))

At(c, where) == [cacheCall EXCEPT ![c].at = where]
Remember(c) == memory' = Evicted(memory \union cacheCall[c].batch)

PutMany(c, batch) ==
  /\ cacheCall[c].at = "idle"
  /\ batch # {}
  /\ cacheCall' = [cacheCall EXCEPT ![c] = [at |-> "opening", batch |-> batch, excess |-> 0]]
  /\ UNCHANGED <<persistent, store, memory, transactions, evictFailed>>

\* clear() empties the memory before it awaits the database.
ClearCache(c) ==
  /\ cacheCall[c].at = "idle"
  /\ memory' = {}
  /\ cacheCall' = At(c, "clearing")
  /\ UNCHANGED <<persistent, store, transactions, evictFailed>>

\* openDb() resolved: without a database the batch goes to the memory.
OpenedForPut(c) ==
  /\ cacheCall[c].at = "opening"
  /\ IF persistent
       THEN /\ transactions' = Append(transactions, <<c, "put">>)
            /\ cacheCall' = At(c, "put")
            /\ UNCHANGED memory
       ELSE /\ Remember(c)
            /\ cacheCall' = [cacheCall EXCEPT ![c] = Idle]
            /\ UNCHANGED transactions
  /\ UNCHANGED <<persistent, store, evictFailed>>

OpenedForClear(c) ==
  /\ cacheCall[c].at = "clearing"
  /\ IF persistent
       THEN /\ transactions' = Append(transactions, <<c, "clear">>)
            /\ cacheCall' = At(c, "clear")
       ELSE /\ cacheCall' = [cacheCall EXCEPT ![c] = Idle]
            /\ UNCHANGED transactions
  /\ UNCHANGED <<persistent, store, memory, evictFailed>>

\* The oldest transaction runs to its end.
RunTransaction ==
  /\ transactions # <<>>
  /\ transactions' = Tail(transactions)
  /\ LET c == Head(transactions)[1]
         kind == Head(transactions)[2]
     IN  /\ store' = CASE kind = "put" -> store \union cacheCall[c].batch
                       [] kind = "clear" -> {}
                       [] kind = "evict" -> store \ Oldest(store, cacheCall[c].excess)
                       [] OTHER -> store
         /\ cacheCall' = IF kind = "count"
                           THEN [cacheCall EXCEPT ![c].at = "counted", ![c].excess = Excess(store)]
                           ELSE At(c, IF kind = "put" THEN "written" ELSE "done")
         /\ evictFailed' = (evictFailed /\ kind # "count")
  /\ UNCHANGED <<persistent, memory>>

\* A transaction is aborted: putMany() falls back to the memory, clear()
\* gives up.
AbortTransaction ==
  /\ transactions # <<>>
  /\ transactions' = Tail(transactions)
  /\ LET c == Head(transactions)[1]
     IN  /\ cacheCall' = At(c, "done")
         /\ IF Head(transactions)[2] = "clear" THEN UNCHANGED memory ELSE Remember(c)
         /\ evictFailed' = (evictFailed \/ Head(transactions)[2] \in {"count", "evict"})
  /\ UNCHANGED <<persistent, store>>

ResumeUncounted(c) ==
  /\ \/ /\ cacheCall[c].at = "written"
        /\ cacheCall[c].batch \cap store # {}
        /\ cacheCall' = [cacheCall EXCEPT ![c] = Idle]
     \/ /\ cacheCall[c].at \in {"counted", "done"}
        /\ cacheCall' = [cacheCall EXCEPT ![c] = Idle]
  /\ UNCHANGED <<persistent, store, memory, transactions, evictFailed>>
\* The call goes on after its await: it counts, then deletes the excess.
Resume(c) ==
  /\ \/ /\ cacheCall[c].at = "written"
        /\ transactions' = Append(transactions, <<c, "count">>)
        /\ cacheCall' = At(c, "count")
     \/ /\ cacheCall[c].at = "counted"
        /\ cacheCall[c].excess > 0
        /\ transactions' = Append(transactions, <<c, "evict">>)
        /\ cacheCall' = At(c, "evict")
     \/ /\ \/ cacheCall[c].at = "counted" /\ cacheCall[c].excess = 0
           \/ cacheCall[c].at = "done"
        /\ cacheCall' = [cacheCall EXCEPT ![c] = Idle]
        /\ UNCHANGED transactions
  /\ UNCHANGED <<persistent, store, memory, evictFailed>>

CacheNext ==
  \/ \E c \in CacheCalls :
       \/ \E batch \in SUBSET Records : PutMany(c, batch)
       \/ ClearCache(c)
       \/ OpenedForPut(c) \/ OpenedForClear(c)
       \/ Resume(c)
  \/ RunTransaction
  \/ AbortTransaction

CacheFairness ==
  /\ WF_cacheVars(RunTransaction \/ AbortTransaction)
  /\ \A c \in CacheCalls : WF_cacheVars(OpenedForPut(c) \/ OpenedForClear(c) \/ Resume(c))

-----------------------------------------------------------------------------
(***************************************************************************)
(* Properties.                                                             *)
(***************************************************************************)

\* The variables have their types, the memory never holds more than
\* retentionCap records, and the store is used only when it could be opened.
CacheTypeOK ==
  /\ persistent \in BOOLEAN /\ evictFailed \in BOOLEAN
  /\ store \subseteq Records /\ memory \subseteq Records
  /\ Cardinality(memory) <= RetentionCap
  /\ ~persistent => store = {} /\ transactions = <<>>
  /\ transactions \in Seq(CacheCalls \X {"put", "count", "evict", "clear"})
  /\ \A c \in CacheCalls :
       /\ cacheCall[c].at \in {"idle", "opening", "clearing", "put", "written",
                               "count", "counted", "evict", "clear", "done"}
       /\ cacheCall[c].batch \subseteq Records
       /\ cacheCall[c].excess \in Nat

\* Whatever calls overlap, a store that holds more than retentionCap records
\* has a putMany() that has still to count or to delete the excess it
\* counted, unless an eviction failed.
OverCapIsNoticed ==
  Cardinality(store) > RetentionCap /\ ~evictFailed =>
    \E c \in CacheCalls :
      \/ cacheCall[c].at \in {"written", "count", "evict"}
      \/ cacheCall[c].at = "counted" /\ cacheCall[c].excess > 0

\* Every call of putMany() and clear() ends, whatever transactions of other
\* calls run or are aborted between its own.
EveryCacheCallEnds ==
  \A c \in CacheCalls : cacheCall[c].at # "idle" ~> cacheCall[c].at = "idle"

\* The cache never stays over its cap, whatever calls overlap, unless an
\* eviction failed.
OverCapIsEvicted ==
  /\ Cardinality(store) > RetentionCap ~> Cardinality(store) <= RetentionCap \/ evictFailed
  /\ EveryCacheCallEnds
=============================================================================
