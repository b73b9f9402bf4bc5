\* The bounded clock is the only reason this specification stops.
SPECIFICATION SteadySpec
CONSTANTS
  Budgets = {3, 4}
  Windows = {3, 5}
  LaunchBudget = 4
  LaunchWindow = 3
  Horizon = 11
INVARIANTS TypeOK CountsOnlyWhatWasPaid
PROPERTIES KeepsTheRate
CHECK_DEADLOCK FALSE
