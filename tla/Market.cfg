SPECIFICATION Spec
CONSTANTS
  BPS_DENOM = 4
  PRICE_SCALE_FACTOR = 2
  EXPONENT_BASE = 2
  PRICE_SCALE = 1
  MaxExponent = 1
  MaxStaleness = 1
  FutureSkew = 1
  MaxConfidenceBps = 2
  MinPublishers = 2
  MIN_PUBLISHERS_FLOOR_HARD = 2
  MinPrice = 1
  MaxPrice = 3
  MaxPriceDeltaBps = 1
  PriceDeltaDecay = 1
  PriceUpdateMinAmount = 3
  Holders = {alice}
  InventoryWallet = alice
  Purse = 3
  Trades = {2, 3}
  Quotes <- MCQuotes
  Ages <- MCAges
  PremiumMint = 1
  PremiumRedeem = 1
  Caps = {2, 3}
  LaunchCap = 3
  Gates <- MCGates
  ExemptFlags <- MCExemptFlags
  MinOperations = {0, 3}
  MinDeposit = 1
  Floats = {0, 2}
  MaxExemptTerm = 2
  RedeemBudget = 3
  RedeemPeriod = 4
  Horizon = 3
INVARIANTS TypeOK SupplyWithinCap
PROPERTIES PaysWhatWasSigned TradesAreBacked OnePrintOneTrade TradesPayTheirPremium AdminTakesOnlyAboveTheFloat
