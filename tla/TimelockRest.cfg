SPECIFICATION Spec
CONSTANTS
  Kinds = {"SetOracleGuards", "SetComplianceMode", "SetPythFeed", "SetInventoryWallet",
           "WithdrawUsdc", "SetTreasuryFloat", "SetAdminTimelock", "SetPremiumRedeem",
           "UpdateMetadata", "SetPremiumMint", "SetPublicMint"}
  Levels = {1, 2, 3}
  Ceiling = 2
  PublisherFloor = 2
  MinDelay = 1
  MaxDelay = 2
  MinWindow = 1
  MaxWindow = 2
  MaxActive = 2
  Wallets <- Inventory
  NoWallet = w0
  OracleInputs <- OracleArgs
  RedeemInputs <- NoArgs
  InitConfigs <- TwoDelays
  MaxTreasury = 1
  Horizon = 3
  NonceBound = 2
  None = None
  w0 = w0
  w1 = w1
  w2 = w2
INVARIANTS
  QueueInvariant
  ArmedStaysExecutable
PROPERTIES
  PriceInputsLandPaused
