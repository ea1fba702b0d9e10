SPECIFICATION Spec
CONSTANTS
  w1 = w1
  d1 = d1
  c1 = c1
  c2 = c2
  Withdrawals <- OneWithdrawal
  Deposits <- OneDeposit
  Cosigners <- TwoCosigners
  Outcomes <- AllOutcomes
  Required = 2
  MaxLedger = 2
  MaxInflight = 2
INVARIANTS TypeOK PaidAtMostOnce CacheComplete CacheSound NumberBeforeCheck
PROPERTIES PayoutSpec
