SPECIFICATION FairSpec
CONSTANTS
  Tickets = {t1, t2, t3}
  small = small
  mid = mid
  big = big
  mlx = mlx
  Models <- MCModels
  Size <- MCSize
  Exclusive <- MCExclusive
  Budget = 4
  BigGB = 3
INVARIANTS
  TypeOK
  LedgerWithinBudget
  QueueAccounts
PROPERTIES
  SwapsOnlyWhenIdle
  YoungSwapsForInteractive
  EveryTicketSettles
CHECK_DEADLOCK FALSE
