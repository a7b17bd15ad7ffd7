SPECIFICATION FairSpec
CONSTANT MaxChatter <- MCMaxChatter
CHECK_DEADLOCK FALSE
INVARIANTS
  NeverDowngraded
  InStepWhenReady
  StartsOnALine
PROPERTIES
  ConnectReturns
