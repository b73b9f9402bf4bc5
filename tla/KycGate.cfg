SPECIFICATION Spec
CONSTANTS
  Keys = {k1, k2, k3}
  Wallets = {w1, w2, w3}
  NoKey = NoKey
INVARIANTS CountIsRoster ArmedGateIsStaffed
PROPERTIES GateDropsByAdmin
