SPECIFICATION RSpec
CONSTANTS
  Kinds = {"SetOracleGuards", "SetRedeemLimits", "SetPythFeed", "SetPublicMint"}
  Levels = {1, 2}
  Ceiling = 2
  PublisherFloor = 2
  MinDelay = 1
  MaxDelay = 1
  MinWindow = 1
  MaxWindow = 1
  MaxActive = 2
  Wallets <- Inventory
  NoWallet = w0
  OracleInputs <- StalenessArgs
  RedeemInputs <- MixedRedeemArgs
  InitConfigs <- OneConfig
  MaxTreasury = 0
  Horizon = 2
  NonceBound = 2
  None = None
  w0 = w0
  w1 = w1
  w2 = w2
PROPERTIES OracleGuardsNeverGoLiveSilently
