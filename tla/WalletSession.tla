---------------------------- MODULE WalletSession ----------------------------
(***************************************************************************)
(* The wallet session of lib/wallet/WalletProvider.tsx: the session that   *)
(* is restored when the page loads, connect() with its three or four       *)
(* awaits, disconnect(), watchAddress() and switchAccount(), over the      *)
(* wallet id that lib/wallet/storage.ts keeps across reloads.  No          *)
(* operation waits for another: late answers of the wallet meet whatever   *)
(* the session has become.                                                 *)
(*                                                                         *)
(* StellarWalletsKit (lib/wallet/kit.ts) is one object for the page: an    *)
(* address is asked of the module that is selected at that moment.         *)
(***************************************************************************)
EXTENDS Integers, FiniteSets

CONSTANTS
  Wallets,            \* product ids of the modules of the kit
  PairedWallets,      \* those that pair over WalletConnect
  Addresses,
  AccountsOf,         \* the addresses a wallet exposes
  WalletCalls,        \* calls of connect() and disconnect() in flight
  None

ASSUME WalletsAssumption ==
  /\ PairedWallets \subseteq Wallets
  /\ AccountsOf \in [Wallets -> (SUBSET Addresses) \ {{}}]
  /\ None \notin Wallets \union Addresses

VARIABLES
  storedWallet,       \* the selected wallet id in localStorage
  selectedModule,     \* the module the kit has selected
  address, accounts, connecting, walletError, pairing, provider, mode,
  walletCall,         \* [WalletCalls -> [at, wallet, address]]
  restore,            \* the effect of the mount: [at, address]
  overlapped          \* history: an operation began while another was pending

session == <<address, accounts, provider, mode>>
walletVars == <<storedWallet, selectedModule, address, accounts, connecting,
                walletError, pairing, provider, mode, walletCall, restore, overlapped>>

ErrorKinds == <<"not-installed", "locked", "rejected", "wrong-network">>
\* classifyWalletError(): the first kind, in that order, one of whose
\* wordings the message of the wallet contains.
Classified(wordings) ==
  LET found == {i \in DOMAIN ErrorKinds : ErrorKinds[i] \in wordings}
  IN  IF found = {} THEN "unknown"
      ELSE ErrorKinds[CHOOSE i \in found : \A j \in found : i <= j]

NoCall == [at |-> "idle", wallet |-> None, asked |-> None, address |-> None]
Restored == [at |-> "off", asked |-> None, address |-> None]
Asking(id) == IF id = None THEN Restored
              ELSE [at |-> "asking", asked |-> id, address |-> None]

Pending == (\E c \in WalletCalls : walletCall[c].at # "idle") \/ restore.at # "off"
Begins == overlapped' = (overlapped \/ Pending)

WalletInit ==
  /\ storedWallet \in Wallets \union {None}
  /\ selectedModule = storedWallet
  /\ address = None /\ accounts = {} /\ connecting = FALSE
  /\ walletError = "none" /\ pairing = FALSE /\ provider = None /\ mode = "wallet"
  /\ walletCall = [c \in WalletCalls |-> NoCall]
  /\ restore = Asking(storedWallet)
  /\ overlapped = FALSE

\* The page is loaded again: only the stored wallet id survives.
Reload ==
  /\ selectedModule' = storedWallet
  /\ address' = None /\ accounts' = {} /\ connecting' = FALSE
  /\ walletError' = "none" /\ pairing' = FALSE /\ provider' = None /\ mode' = "wallet"
  /\ walletCall' = [c \in WalletCalls |-> NoCall]
  /\ restore' = Asking(storedWallet)
  /\ overlapped' = FALSE
  /\ UNCHANGED storedWallet

\* getAddress() of the mount effect answers, then enumerateAccounts().
RestoreAnswers ==
  /\ restore.at = "asking"
  /\ \E a \in AccountsOf[restore.asked] :
       /\ address' = a
       /\ restore' = [at |-> "enumerating", asked |-> selectedModule, address |-> a]
  /\ UNCHANGED <<storedWallet, selectedModule, accounts, connecting, walletError,
                 pairing, provider, mode, walletCall, overlapped>>

\* enumerateAccounts(): all accounts, or the active one only.
Enumerated(call) == {{call.address}, AccountsOf[call.asked] \union {call.address}}

RestoreEnumerates ==
  /\ restore.at = "enumerating"
  /\ accounts' \in Enumerated(restore)
  /\ restore' = Restored
  /\ UNCHANGED <<storedWallet, selectedModule, address, connecting, walletError,
                 pairing, provider, mode, walletCall, overlapped>>

\* The session has expired: the stored id is cleared, whatever it is by now.
RestoreFails ==
  /\ restore.at = "asking"
  /\ storedWallet' = None
  /\ walletError' = "unknown"
  /\ restore' = Restored
  /\ UNCHANGED <<selectedModule, address, accounts, connecting, pairing, provider,
                 mode, walletCall, overlapped>>

\* connect() is offered while no address is shown.
Connect(c) ==
  /\ walletCall[c].at = "idle" /\ address = None
  /\ walletCall' = [walletCall EXCEPT ![c].at = "modal"]
  /\ connecting' = TRUE
  /\ walletError' = "none"
  /\ Begins
  /\ UNCHANGED <<storedWallet, selectedModule, pairing, session, restore>>

\* The modal is closed on a wallet; WalletConnect shows its pairing first.
ModalSelects(c, w) ==
  /\ walletCall[c].at = "modal"
  /\ selectedModule' = w
  /\ walletCall' = [walletCall EXCEPT ![c].wallet = w, ![c].asked = w,
                      ![c].at = IF w \in PairedWallets THEN "pairing" ELSE "address"]
  /\ pairing' = (pairing \/ w \in PairedWallets)
  /\ UNCHANGED <<storedWallet, session, connecting, walletError, restore, overlapped>>

PairingUriKnown(c) ==
  /\ walletCall[c].at = "pairing"
  /\ walletCall' = [walletCall EXCEPT ![c].at = "address", ![c].asked = selectedModule]
  /\ UNCHANGED <<storedWallet, selectedModule, session, connecting, walletError,
                 pairing, restore, overlapped>>

AddressKnown(c) ==
  /\ walletCall[c].at = "address"
  /\ \E a \in AccountsOf[walletCall[c].asked] :
       /\ address' = a
       /\ walletCall' = [walletCall EXCEPT ![c].at = "accounts",
                           ![c].asked = selectedModule, ![c].address = a]
  /\ UNCHANGED <<storedWallet, selectedModule, accounts, provider, mode, connecting,
                 walletError, pairing, restore, overlapped>>

\* The accounts are known: the rest of connect() and its finally block.
Connected(c) ==
  /\ walletCall[c].at = "accounts"
  /\ accounts' \in Enumerated(walletCall[c])
  /\ storedWallet' = walletCall[c].wallet
  /\ provider' = walletCall[c].wallet
  /\ mode' = "wallet"
  /\ connecting' = FALSE /\ pairing' = FALSE
  /\ walletCall' = [walletCall EXCEPT ![c] = NoCall]
  /\ UNCHANGED <<selectedModule, address, walletError, restore, overlapped>>

\* The catch and finally blocks: an answer of the wallet that is an error.
ConnectFails(c) ==
  /\ walletCall[c].at \in {"modal", "address"}
  /\ \E wordings \in SUBSET {"not-installed", "locked", "rejected"} :
       walletError' = Classified(wordings)
  /\ connecting' = FALSE /\ pairing' = FALSE
  /\ walletCall' = [walletCall EXCEPT ![c] = NoCall]
  /\ UNCHANGED <<storedWallet, selectedModule, session, restore, overlapped>>

\* disconnect() awaits the kit, whose errors are ignored.
Disconnect(c) ==
  /\ walletCall[c].at = "idle" /\ address # None
  /\ walletCall' = [walletCall EXCEPT ![c].at = "disconnecting"]
  /\ Begins
  /\ UNCHANGED <<storedWallet, selectedModule, session, connecting, walletError,
                 pairing, restore>>

DisconnectedKeepsId(c) ==
  /\ walletCall[c].at = "disconnecting"
  /\ address' = None /\ accounts' = {} /\ mode' = "wallet"
  /\ pairing' = FALSE
  /\ walletCall' = [walletCall EXCEPT ![c] = NoCall]
  /\ UNCHANGED <<storedWallet, selectedModule, provider, connecting, walletError, restore, overlapped>>
Disconnected(c) ==
  /\ walletCall[c].at = "disconnecting"
  /\ storedWallet' = None
  /\ address' = None /\ accounts' = {} /\ provider' = None /\ mode' = "wallet"
  /\ pairing' = FALSE
  /\ walletCall' = [walletCall EXCEPT ![c] = NoCall]
  /\ UNCHANGED <<selectedModule, connecting, walletError, restore, overlapped>>

\* A read-only session; the stored wallet id stays.
WatchAddress(a) ==
  /\ address' = a /\ accounts' = {a}
  /\ provider' = None /\ mode' = "watch"
  /\ Begins
  /\ UNCHANGED <<storedWallet, selectedModule, connecting, walletError, pairing,
                 walletCall, restore>>

\* switchAccount() adds an account that is not listed; its one caller, the
\* switcher of components/Shell.tsx, offers the listed ones.
SwitchAccount(a) ==
  /\ a \in accounts
  /\ address' = a
  /\ Begins
  /\ UNCHANGED <<storedWallet, selectedModule, accounts, connecting, walletError,
                 pairing, provider, mode, walletCall, restore>>

WalletNext ==
  \/ Reload
  \/ RestoreAnswers \/ RestoreEnumerates \/ RestoreFails
  \/ \E c \in WalletCalls :
       \/ Connect(c) \/ PairingUriKnown(c) \/ AddressKnown(c) \/ Connected(c) \/ ConnectFails(c)
       \/ \E w \in Wallets : ModalSelects(c, w)
       \/ Disconnect(c) \/ Disconnected(c)
  \/ \E a \in Addresses : WatchAddress(a) \/ SwitchAccount(a)

-----------------------------------------------------------------------------
(***************************************************************************)
(* Properties.                                                             *)
(***************************************************************************)

\* The variables have their types.
WalletTypeOK ==
  /\ storedWallet \in Wallets \union {None} /\ selectedModule \in Wallets \union {None}
  /\ address \in Addresses \union {None} /\ accounts \subseteq Addresses
  /\ {connecting, pairing, overlapped} \subseteq BOOLEAN
  /\ walletError \in {"none", "unknown", "not-installed", "locked", "rejected", "wrong-network"}
  /\ provider \in Wallets \union {None} /\ mode \in {"wallet", "watch"}
  /\ restore.at \in {"off", "asking", "enumerating"}
  /\ \A c \in WalletCalls : walletCall[c].at \in
       {"idle", "modal", "pairing", "address", "accounts", "disconnecting"}

\* A read-only session never has a wallet that could sign for it, whichever
\* answers arrive while it is watched: "write actions stay disabled"
\* (lib/wallet/WalletProvider.tsx:171).
WatchIsReadOnly == mode = "watch" => provider = None

\* When no connect() is in flight the interface shows neither a connection
\* in progress nor a pairing, whatever became of the calls (the finally
\* block).
NothingPendingNothingShown ==
  (\A c \in WalletCalls : walletCall[c].at \in {"idle", "disconnecting"})
    => ~connecting /\ ~pairing

\* As long as operations follow one another, the provider is the stored
\* wallet and owns the address, the address is one of the accounts, and no
\* address means no session.
SessionAtRest ==
  ~overlapped /\ ~Pending =>
    /\ provider # None => storedWallet = provider /\ address \in AccountsOf[provider]
    /\ address # None => address \in accounts
    /\ address = None => accounts = {} /\ provider = None /\ storedWallet = None

\* The session is one thing, and what is shown of it is true.
SessionIsCoherent == WatchIsReadOnly /\ NothingPendingNothingShown /\ SessionAtRest
=============================================================================
