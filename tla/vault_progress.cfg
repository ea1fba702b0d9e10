SPECIFICATION FairSpec
CONSTANTS
  w1 = w1
  d1 = d1
  c1 = c1
  c2 = c2
  Withdrawals <- OneWithdrawal
  Deposits <- OneDeposit
  Cosigners <- TwoCosigners
  Outcomes <- OnlyOk
  Required = 1
  MaxLedger = 2
  MaxInflight = 2
PROPERTIES MonitorProceeds NothingForgotten
