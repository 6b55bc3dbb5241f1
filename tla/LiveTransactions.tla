-------------------------- MODULE LiveTransactions --------------------------
(***************************************************************************)
(* From the contract's events to the rows on screen: the event list of     *)
(* SorobanProvider (lib/soroban/SorobanProvider.tsx), fed by one poller    *)
(* per selected contract, and the rows that useLiveTransactions()          *)
(* (lib/soroban/useLiveTransactions.ts) merges and enriches from it.       *)
(*                                                                         *)
(* A poller is abstracted to what EventPoller promises when its polls do   *)
(* not overlap: batches of consecutive events, in the order of the ledger. *)
(* React runs the effects of a render after its commit, children first: an *)
(* action is an update together with the effects that follow from it.      *)
(***************************************************************************)
EXTENDS TransactionMerge, FiniteSets

CONSTANTS
  Contracts,   \* the contracts one can select
  MaxEvents,   \* bound: events each contract ever emits
  Cap,         \* the provider keeps this many events (200)
  MaxSwitches  \* bound: contract switches

ASSUME FeedAssumption == Cap \in Nat \ {0} /\ MaxEvents \in Nat /\ MaxSwitches \in Nat

VARIABLES
  chain,       \* the events each contract has emitted (external)
  contractId,  \* the provider's activeContractId
  generation,  \* which poller is the provider's: one per switch
  cursor,      \* events of the contract before the current poller's cursor
  stored,      \* events before the cursor in localStorage, per contract
  polls,       \* answers to getEvents() on their way to a poller, stopped ones too
  events,      \* the provider's events, the last batch first
  address,     \* a wallet is connected
  paused,      \* useLiveTransactions' paused: the tab is hidden
  fetchedIds,  \* useLiveTransactions' fetchedIds
  calls,       \* get_transaction() calls on their way, with the switch they follow
  enriched     \* useLiveTransactions' enriched: the status a lookup found

external == <<chain>>
feed     == <<contractId, generation, cursor, stored, polls, events>>
hook     == <<address, paused, fetchedIds, calls, enriched>>
feedVars     == <<external, feed, hook>>

-----------------------------------------------------------------------------
(* The contract (external): a transaction is registered, then its status   *)
(* moves on.                                                               *)
StatusOn(c, t) ==
  LET its  == {k \in DOMAIN chain[c] : chain[c][k].txId = t}
      last == chain[c][Max(its)]
  IN  IF its = {} THEN "NONE"
      ELSE IF last.type = "TransactionRegistered" THEN "PENDING" ELSE last.toStatus

Legal(from, to) == \/ from = "PENDING" /\ to = "PROCESSING"
                   \/ from = "PROCESSING" /\ to \in {"COMPLETED", "FAILED"}

(* What get_transaction(t) answers: a status, or no result. *)
Answer(c, t) == IF StatusOn(c, t) = "NONE" THEN "NO_RESULT" ELSE StatusOn(c, t)

NotEnriched == "NONE"

FeedInit ==
  /\ chain = [c \in Contracts |-> <<>>]
  /\ contractId \in Contracts
  /\ generation = 0
  /\ cursor = 0
  /\ stored = [c \in Contracts |-> 0]
  /\ polls = {}
  /\ events = <<>>
  /\ address \in BOOLEAN
  /\ paused \in BOOLEAN
  /\ fetchedIds = {}
  /\ calls = {}
  /\ enriched = [t \in TxIds |-> NotEnriched]

baseline == mergeTransactionEvents(events)

(* Mutant: transactions are looked up again while they are on their way.   *)
LookupsRepeat(rows, fetched, connected, hidden) ==
  IF ~connected \/ hidden THEN {} ELSE {t \in TxIds : rows[t].placeholder}

(* The enrichment effect, for the given rows and dependencies: a lookup of *)
(* every placeholder row that has not been looked up.                      *)
Lookups(rows, fetched, connected, hidden) ==
  IF ~connected \/ hidden THEN {}
  ELSE {t \in TxIds : rows[t].placeholder /\ t \notin fetched}

Fetch(rows, fetched, connected, hidden) ==
  LET ids == Lookups(rows, fetched, connected, hidden)
  IN  /\ fetchedIds' = fetched \cup ids
      /\ calls' = calls \cup [selection: {generation'}, contract: {contractId'},
                              txId: ids, answer: {"WAITING"}]

(* A contract emits an event (external). *)
Emit(c) ==
  /\ Len(chain[c]) < MaxEvents
  /\ \E t \in TxIds :
       \/ /\ StatusOn(c, t) = "NONE"
          /\ chain' = [chain EXCEPT ![c] = Append(@, Registered(t))]
       \/ \E s \in Status :
            /\ Legal(StatusOn(c, t), s)
            /\ chain' = [chain EXCEPT ![c] = Append(@, StatusChanged(t, s))]
  /\ UNCHANGED <<feed, hook>>

(* The poller's request is answered with the events after its cursor       *)
(* (external); it has one request in flight at a time. Without a cursor it *)
(* asks for the latest ledger on: the events before it are passed over.    *)
AnswerPoll ==
  /\ \A p \in polls : p.poller # generation
  /\ \E after \in 0..(Len(chain[contractId]) - 1) :
       /\ cursor # 0 => after = cursor
       /\ polls' = polls \cup {[poller |-> generation, contract |-> contractId,
                                after |-> after, upto |-> Len(chain[contractId])]}
  /\ UNCHANGED <<external, contractId, generation, cursor, stored, events, hook>>

(* [...newEvents, ...prev].slice(0, 200) *)
Capped(list) == SubSeq(list, 1, IF Len(list) < Cap THEN Len(list) ELSE Cap)

(* A poller receives its answer. It stores its cursor under its contract,  *)
(* even if it has been stopped; its listener was removed with its stop().  *)
ReceivePoll ==
  \E p \in polls :
    /\ UNCHANGED <<external, contractId, generation, address, paused, enriched>>
    /\ polls' = polls \ {p}
    /\ stored' = [stored EXCEPT ![p.contract] = p.upto]
    /\ IF p.poller = generation
         THEN /\ cursor' = p.upto
              /\ events' = Capped(SubSeq(chain[p.contract], p.after + 1, p.upto) \o events)
              /\ Fetch(mergeTransactionEvents(events'), fetchedIds, address, paused)
         ELSE UNCHANGED <<cursor, events, fetchedIds, calls>>

(* Mutant: the events of the contract before are kept. *)
SwitchContractKeeps(c) ==
  /\ generation < MaxSwitches
  /\ c # contractId
  /\ contractId' = c
  /\ generation' = generation + 1
  /\ enriched' = [t \in TxIds |-> NotEnriched]
  /\ Fetch(baseline, {}, address, paused)
  /\ cursor' = stored[c]
  /\ UNCHANGED <<external, stored, polls, events, address, paused>>

(* setContractId(): the hook's effects run first, on the rows of the       *)
(* render that saw the new contract with the old events; then the          *)
(* provider's effect stops the poller, clears the events and starts        *)
(* another poller from the cursor stored for the new contract.             *)
SwitchContract(c) ==
  /\ generation < MaxSwitches
  /\ c # contractId
  /\ contractId' = c
  /\ generation' = generation + 1
  /\ enriched' = [t \in TxIds |-> NotEnriched]
  /\ Fetch(baseline, {}, address, paused)
  /\ cursor' = stored[c]
  /\ events' = <<>>
  /\ UNCHANGED <<external, stored, polls, address, paused>>

(* The wallet connects or disconnects. *)
ToggleWallet ==
  /\ address' = ~address
  /\ UNCHANGED <<external, feed, paused, enriched>>
  /\ Fetch(baseline, fetchedIds, address', paused)

(* Mutant: the enrichment effect does not depend on paused. *)
ToggleVisibilityOnly ==
  /\ paused' = ~paused
  /\ UNCHANGED <<external, feed, address, fetchedIds, calls, enriched>>

(* The tab is hidden or returns. *)
ToggleVisibility ==
  /\ paused' = ~paused
  /\ UNCHANGED <<external, feed, address, enriched>>
  /\ Fetch(baseline, fetchedIds, address, paused')

(* simulateContractCall() ends: its account, transaction and simulation are *)
(* one request, which the RPC server answers or which throws at some point. *)
AnswerCall ==
  \E call \in calls :
    /\ call.answer = "WAITING"
    /\ \E a \in {Answer(call.contract, call.txId), "NO_RESULT"} :
         calls' = (calls \ {call}) \cup {[call EXCEPT !.answer = a]}
    /\ UNCHANGED <<external, feed, address, paused, fetchedIds, enriched>>

(* The simulation returns: whatever the hook has become since, its result  *)
(* is stored under the transaction's id.                                   *)
ReceiveCall ==
  \E call \in calls :
    /\ call.answer # "WAITING"
    /\ calls' = calls \ {call}
    /\ enriched' = IF call.answer = "NO_RESULT" THEN enriched
                   ELSE [enriched EXCEPT ![call.txId] = call.answer]
    /\ UNCHANGED <<external, feed, address, paused, fetchedIds>>

FeedNext ==
  \/ \E c \in Contracts : Emit(c) \/ SwitchContract(c)
  \/ AnswerPoll \/ ReceivePoll
  \/ ToggleWallet \/ ToggleVisibility
  \/ AnswerCall \/ ReceiveCall

FeedSpec == FeedInit /\ [][FeedNext]_feedVars

-----------------------------------------------------------------------------
(* The rows the hook returns: baseline.map((tx) => enriched[tx.id] ?? tx). *)
Shown(t) ==
  IF baseline[t] # NoRow /\ enriched[t] # NotEnriched
    THEN [placeholder |-> FALSE, status |-> enriched[t]]
    ELSE baseline[t]

(* The statuses a transaction has had on a contract. *)
History(c, t) ==
  {"PENDING" : k \in {k \in DOMAIN chain[c] : chain[c][k] = Registered(t)}}
  \cup {chain[c][k].toStatus : k \in {k \in DOMAIN chain[c] :
           chain[c][k].txId = t /\ chain[c][k].type = "StatusChanged"}}

(* Types of the variables. *)
FeedTypeOK ==
  /\ chain \in [Contracts -> Seq(Event)]
  /\ contractId \in Contracts
  /\ generation \in 0..MaxSwitches
  /\ cursor \in 0..MaxEvents
  /\ stored \in [Contracts -> 0..MaxEvents]
  /\ polls \subseteq [poller: 0..MaxSwitches, contract: Contracts,
                      after: 0..MaxEvents, upto: 0..MaxEvents]
  /\ events \in Seq(Event) /\ Len(events) <= Cap
  /\ address \in BOOLEAN /\ paused \in BOOLEAN
  /\ fetchedIds \subseteq TxIds
  /\ calls \subseteq [selection: 0..MaxSwitches, contract: Contracts, txId: TxIds,
                      answer: Status \cup {"WAITING", "NO_RESULT"}]
  /\ enriched \in [TxIds -> Status \cup {NotEnriched}]

(* "Clear previous events and health to prevent stale leakage"             *)
(* (SorobanProvider.tsx:327): a live row of the merged list is registered  *)
(* on the selected contract and shows a status it has had there, however   *)
(* late the polls of the contracts selected before are answered.           *)
RowsAreOfTheContract ==
  \A t \in TxIds \ MockIds :
    baseline[t] # NoRow => baseline[t].status \in History(contractId, t)

(* No placeholder is forgotten: with a wallet and a visible tab, every     *)
(* placeholder row has been looked up since the last switch, whichever of  *)
(* the row, the wallet and the tab came last (useLiveTransactions.ts:      *)
(* 96-116).                                                                *)
PlaceholdersAreLookedUp ==
  address /\ ~paused =>
    \A t \in TxIds : baseline[t].placeholder => t \in fetchedIds

(* A transaction is looked up once per selection of a contract, however    *)
(* often the effect runs while the lookup is on its way (fetchedIds).      *)
OneLookupAtATime ==
  \A a, b \in calls : a.selection = b.selection /\ a.txId = b.txId => a = b

-----------------------------------------------------------------------------
(* "`StatusChanged` updates the status of a known row"                     *)
(* (transactionMerge.ts:21-22): a row that is registered in the list shows *)
(* the status of the last StatusChanged received for it.                   *)
LastStatus(t) ==
  LET received == SubSeq(chain[contractId], 1, cursor)
      its      == SelectSeq(received, LAMBDA e : e.txId = t)
  IN  IF its = <<>> THEN "NONE"
      ELSE IF Last(its).type = "StatusChanged" THEN Last(its).toStatus ELSE "PENDING"
KnownRowsFollowStatus ==
  \A t \in TxIds \ MockIds :
    (\E k \in DOMAIN events : events[k] = Registered(t))
      => baseline[t].status = LastStatus(t)
=============================================================================
