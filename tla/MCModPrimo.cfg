SPECIFICATION FairSpec
CONSTANTS
  v = v
  w = w
  Slots = {v, w}
  Configs <- MCConfigs
  MaxBalance = 2
  MaxTop = 1
  Gaps = {1}
  IntMax = 1
INVARIANTS
  TypeOK
  NotChargedInVain
  RepliesAreShapes
PROPERTIES
  ImplementsPaywall
  RightStaysRight
  BalanceSettles
