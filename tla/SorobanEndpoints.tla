-------------------------- MODULE SorobanEndpoints --------------------------
(***************************************************************************)
(* What lib/soroban/SorobanProvider.tsx remembers for the user: the custom *)
(* RPC endpoint, saved after it was asked for its health, the network of   *)
(* the session, and the contracts with the one selected                    *)
(* (contractSelection.ts).  Validations overlap with one another and with  *)
(* every other operation, and the one that ends last decides; a reload     *)
(* starts again from the storage.                                          *)
(***************************************************************************)
EXTENDS Integers, FiniteSets

CONSTANTS
  Urls,              \* endpoints a user may enter, or a caller of setNetwork() give
  Networks,          \* passphrases
  Expected,          \* expectedNetworkPassphrase, or NoNetwork (app/layout.tsx gives none)
  ContractIds,
  DefaultContract,   \* NEXT_PUBLIC_CONTRACT_ID, or NoContract
  NoContract, NoUrl, NoNetwork,
  Validations        \* calls of saveCustomEndpoint() in flight

ASSUME ContractsAssumption ==
  /\ DefaultContract \in ContractIds \union {NoContract}
  /\ NoContract \notin ContractIds
ASSUME UrlsAssumption == NoUrl \notin Urls
ASSUME NetworksAssumption == NoNetwork \notin Networks /\ Expected \in Networks \union {NoNetwork}

VARIABLES
  storageOpen,       \* localStorage may be used
  storedUrl, customRpcUrl,
  storedContract, activeContractId,
  storedContracts, availableContracts,
  networkPassphrase,
  validation,        \* [Validations -> Urls \union {NoUrl}]
  networkChosen      \* history: setNetwork() since the endpoint was set

contractVars == <<storedContract, activeContractId, storedContracts, availableContracts>>
urlVars == <<storedUrl, customRpcUrl, networkPassphrase, validation, networkChosen>>
endpointVars == <<storageOpen, urlVars, contractVars>>

DefaultContracts == {DefaultContract} \ {NoContract}
\* getStoredContractId() and the default, getStoredContracts() with the presets.
ChosenAtStart == IF storedContract # NoContract THEN storedContract ELSE DefaultContract

ProviderInit ==
  /\ storageOpen \in BOOLEAN
  /\ storedUrl = NoUrl /\ customRpcUrl = NoUrl
  /\ storedContract = NoContract /\ activeContractId = DefaultContract
  /\ storedContracts = {} /\ availableContracts = DefaultContracts
  /\ validation = [v \in Validations |-> NoUrl]
  /\ networkPassphrase = Expected /\ networkChosen = FALSE

ReloadProvider ==
  /\ customRpcUrl' = storedUrl
  /\ activeContractId' = ChosenAtStart
  /\ availableContracts' = DefaultContracts \union storedContracts
  /\ validation' = [v \in Validations |-> NoUrl]
  /\ networkPassphrase' = Expected /\ networkChosen' = FALSE
  /\ UNCHANGED <<storageOpen, storedUrl, storedContract, storedContracts>>

\* saveCustomEndpoint() with a url of the right form: getHealth is asked.
StartSave(v, url) ==
  /\ validation[v] = NoUrl
  /\ validation' = [validation EXCEPT ![v] = url]
  /\ UNCHANGED <<storageOpen, storedUrl, customRpcUrl, networkPassphrase, networkChosen, contractVars>>

\* What getHealth comes to: no healthy answer, or one that reports a network
\* (or, NoNetwork, none).
Answers == [healthy: BOOLEAN, network: Networks \union {NoNetwork}]

\* validateEndpoint(): an endpoint is refused for its network only if one is
\* expected and it reports another.
IsValid(answer) ==
  /\ answer.healthy
  /\ NoNetwork \in {Expected, answer.network} \/ answer.network = Expected

StoreUrl(url) == storedUrl' = IF storageOpen THEN url ELSE storedUrl

SaveEnds(v, answer) ==
  /\ validation[v] # NoUrl
  /\ IF IsValid(answer)
       THEN /\ customRpcUrl' = validation[v]
            /\ StoreUrl(validation[v])
            /\ networkChosen' = FALSE
       ELSE UNCHANGED <<customRpcUrl, storedUrl, networkChosen>>
  /\ validation' = [validation EXCEPT ![v] = NoUrl]
  /\ UNCHANGED <<storageOpen, networkPassphrase, contractVars>>

ClearCustomEndpoint ==
  /\ customRpcUrl' = NoUrl
  /\ StoreUrl(NoUrl)
  /\ networkChosen' = FALSE
  /\ UNCHANGED <<storageOpen, networkPassphrase, validation, contractVars>>

\* setNetwork() takes what it is given, and for the session: nothing is
\* stored.  Its passphrase outlives the endpoint that came with it.
SetNetwork(url, network) ==
  /\ customRpcUrl' = url
  /\ networkPassphrase' = network
  /\ networkChosen' = TRUE
  /\ UNCHANGED <<storageOpen, storedUrl, validation, contractVars>>

\* setContractId(): no contract clears the stored one.
StoreSelection(id) ==
  /\ activeContractId' = id
  /\ storedContract' = IF storageOpen THEN id ELSE storedContract
\* storeContracts() stores the custom ones.  A preset that was removed and
\* added by hand is stored too, which a reload does not tell from a preset.
StoreList(ids) ==
  /\ availableContracts' = ids
  /\ storedContracts' = IF storageOpen THEN ids \ DefaultContracts ELSE storedContracts

SetContractId(id) ==
  /\ StoreSelection(id)
  /\ UNCHANGED <<storageOpen, urlVars, storedContracts, availableContracts>>

AddContract(id) ==
  /\ StoreList(availableContracts \union {id})
  /\ UNCHANGED <<storageOpen, urlVars, storedContract, activeContractId>>

\* removeContract(): the default contract takes the place of the active one.
RemoveContract(id) ==
  /\ StoreList(availableContracts \ {id})
  /\ IF activeContractId = id THEN StoreSelection(DefaultContract)
     ELSE UNCHANGED <<activeContractId, storedContract>>
  /\ UNCHANGED <<storageOpen, urlVars>>

ProviderNext ==
  \/ ReloadProvider \/ ClearCustomEndpoint
  \/ \E v \in Validations :
       \/ \E url \in Urls : StartSave(v, url)
       \/ \E answer \in Answers : SaveEnds(v, answer)
  \/ \E url \in Urls, network \in Networks : SetNetwork(url, network)
  \/ \E id \in ContractIds \union {NoContract} : SetContractId(id)
  \/ \E id \in ContractIds : AddContract(id) \/ RemoveContract(id)

-----------------------------------------------------------------------------
(***************************************************************************)
(* Properties.                                                             *)
(***************************************************************************)

\* With a storage that works, a reload brings back what the page shows: the
\* endpoint unless a network was chosen for the session, the selected
\* contract unless none is, and the list but for the preset, which returns
\* when it was removed.
ReloadKeepsChoices ==
  storageOpen =>
    /\ ~networkChosen => storedUrl = customRpcUrl
    /\ activeContractId \in {ChosenAtStart, NoContract}
    /\ availableContracts \ DefaultContracts = storedContracts
=============================================================================
