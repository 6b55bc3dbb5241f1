-------------------------- MODULE MCClientSession --------------------------
(* The parts of the browser session that do not touch one another, side by *)
(* side: in a behaviour one of them moves and the others rest, so that the *)
(* states of the run are the sum of theirs and not the product.            *)
EXTENDS WalletSession, ToastQueue, TxCache, Notifications, DraftPersistence,
        FeatureFlags

CONSTANTS Parts, call1, call2
VARIABLE part

MCWallets == {"freighter", "walletConnect"}
MCAccounts == [w \in MCWallets |-> IF w = "freighter" THEN {"G1"} ELSE {"G1", "G2"}]
MCToasts ==
  {[key |-> "info", priority |-> 0, duration |-> 1, window |-> 1],
   [key |-> "success", priority |-> 1, duration |-> 2, window |-> 1],
   [key |-> "error", priority |-> 3, duration |-> 0, window |-> 2]}
MCPayloads ==
  {NoOverride, [value |-> "off", percentage |-> 100], [value |-> "unset", percentage |-> 50]}

walletRest == part = "wallet" \/ storedWallet = None
toastRest == part = "toasts" \/ maxVisible = 1
cacheRest == part = "cache" \/ persistent
draftRest == part = "draft" \/ (stableValues /\ usesSave /\ stored = NoDraft /\ age = 0)
flagRest == part = "flags" \/
  (storageWorks /\ env = "on" /\ subject = 20 /\ published = NoOverride /\ current = call1)

Init ==
  /\ part \in Parts
  /\ WalletInit /\ walletRest
  /\ ToastInit /\ toastRest
  /\ CacheInit /\ cacheRest
  /\ NoticeInit
  /\ DraftInit /\ draftRest
  /\ FlagInit /\ flagRest

vars == <<part, walletVars, toastVars, cacheVars, noticeVars, draftVars, flagVars>>

Next ==
  \/ part = "wallet" /\ WalletNext
     /\ UNCHANGED <<part, toastVars, cacheVars, noticeVars, draftVars, flagVars>>
  \/ part = "toasts" /\ ToastNext
     /\ UNCHANGED <<part, walletVars, cacheVars, noticeVars, draftVars, flagVars>>
  \/ part = "cache" /\ CacheNext
     /\ UNCHANGED <<part, walletVars, toastVars, noticeVars, draftVars, flagVars>>
  \/ part = "notices" /\ NoticeNext
     /\ UNCHANGED <<part, walletVars, toastVars, cacheVars, draftVars, flagVars>>
  \/ part = "draft" /\ DraftNext
     /\ UNCHANGED <<part, walletVars, toastVars, cacheVars, noticeVars, flagVars>>
  \/ part = "flags" /\ FlagNext
     /\ UNCHANGED <<part, walletVars, toastVars, cacheVars, noticeVars, draftVars>>

Spec == Init /\ [][Next]_vars /\ CacheFairness

\* Each store has its types and is sound by itself: timed toasts have their
\* timers, a cache over its cap has somebody who evicts, no event of the feed
\* is left unnoticed, and a flag that was killed is off.
StoresAreSound ==
  /\ WalletTypeOK
  /\ ToastTypeOK /\ TimedToastEnds
  /\ CacheTypeOK /\ OverCapIsNoticed
  /\ NoticeTypeOK /\ NothingUnnoticed
  /\ DraftTypeOK
  /\ FlagTypeOK /\ KillSwitchHolds
=============================================================================
