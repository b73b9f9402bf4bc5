SPECIFICATION HSpec
CONSTANTS
  Kinds = {"SetRedeemLimits", "SetPublicMint", "SetPremiumMint", "SetAdminTimelock"}
  Levels = {1, 2}
  Ceiling = 2
  PublisherFloor = 2
  MinDelay = 1
  MaxDelay = 2
  MinWindow = 1
  MaxWindow = 2
  MaxActive = 2
  Wallets <- Inventory
  NoWallet = w0
  OracleInputs <- NoArgs
  RedeemInputs <- RedeemArgs
  InitConfigs <- TwoDelays
  MaxTreasury = 0
  Horizon = 3
  NonceBound = 3
  None = None
  w0 = w0
  w1 = w1
  w2 = w2
INVARIANTS
  CountIsAccounts
  OrphansAreRedeemLimits
  MintFrozenWhilePremiumPending
PROPERTIES
  NoChangeWithoutNotice
  DisarmIsFinal
  SlotReleasedByItsOwnFate
  PauseHoldsExposure
  ReopenIsFresh
