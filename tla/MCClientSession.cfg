SPECIFICATION Spec
CONSTANTS
  call1 = call1
  call2 = call2
  None = None
  NoDraft = NoDraft
  Parts = {"wallet", "toasts", "cache", "notices", "draft", "flags"}
  Wallets <- MCWallets
  PairedWallets = {"walletConnect"}
  Addresses = {"G1", "G2"}
  AccountsOf <- MCAccounts
  WalletCalls = {call1, call2}
  ToastIds = {1, 2, 3, 4}
  ToastCalls <- MCToasts
  Capacities = {0, 1, 2}
  Records = {1, 2, 3}
  RetentionCap = 2
  CacheCalls = {call1, call2}
  ContractEvents = {1, 2, 3, 4}
  Noticed = {1, 2, 3}
  FeedCap = 3
  MaxNotifications = 2
  FormValues = {"blank", "x", "y"}
  Blank = "blank"
  MaxAge = 1
  RemotePayloads <- MCPayloads
  EnvValues = {"on"}
  DefaultValue = FALSE
  Subjects = {20, 80}
  Loads = {call1, call2}
  FreshnessWindow = 0
  MaxClock = 1
INVARIANTS StoresAreSound SessionIsCoherent StorageFollowsForm
PROPERTIES ErrorsSurvive OverCapIsEvicted GoneStaysGone NeverBackToEmpty
