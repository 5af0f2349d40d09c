SPECIFICATION Spec
CONSTANTS
  Null = Null
  p1 = p1
  p2 = p2
  h1 = h1
  h2 = h2
  Payments <- OnePayment
  Handlers <- TwoHandlers
  Fee = 3
  MaxFaults = 1
  Parts <- TwoParts
INVARIANTS
  RevenueIsReal
PROPERTIES
  NothingForgotten
  LedgerCatchesUp
CHECK_DEADLOCK FALSE
