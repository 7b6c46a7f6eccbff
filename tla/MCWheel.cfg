CONSTANTS
  Cost = 2
  Reward = {1, 3}
  Width = 4
  Loss = {3}
  Starts = {1, 5}
  MaxSpins = 3
  MaxSettled = 1
  MaxUnderWay = 3
SPECIFICATION Spec
INVARIANTS BalanceShown TargetIsOwn
CHECK_DEADLOCK FALSE
