SPECIFICATION Spec
CONSTANTS
  Budgets = {0, 2, 4}
  Windows = {2, 3}
  LaunchBudget = 4
  LaunchWindow = 2
  Horizon = 6
PROPERTIES TighteningNeverFrees ClockSkewNeverRefunds WaitingNeverHurts
