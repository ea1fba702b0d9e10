SPECIFICATION FairSpec
CONSTANTS
  N = 8
  Amount <- EightAmounts
  LastCredit <- EightLast
  OneSender = {1, 2, 3, 4, 5, 7, 8}
  ValidMemo <- EightValid
  Unreachable = {}
  WithdrawFee = 1
  Fees = {3}
  Rescans = {FALSE, TRUE}
  HorizonErrors = FALSE
  MaxEpoch = 1
INVARIANTS SavedMeansSettled FeeOnlyIfMinted MintsInOrder
PROPERTY EveryDepositSettles
