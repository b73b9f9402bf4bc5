SPECIFICATION HSpec
CONSTANTS
  Keys = {k1, k2, k3}
  NoKey = NoKey
  MinDelay = 1
  MaxDelay = 2
  Cooldown = 1
  ExecWindow = 1
  AdminExpiry = 1
  MaxGuardians = 3
  Horizon = 6
SYMMETRY KeySymmetry
INVARIANTS
  TypeOK
  CountersAreExact
  SomebodyStaysToReact
  OneVetoPerAppointment
PROPERTIES
  RemovalHasFreshNotice
  HandoverIsAnnounced
