SPECIFICATION Spec
CONSTANTS
  N = 1
  Amount <- OneAmount
  LastCredit <- OneAmount
  OneSender = {1}
  ValidMemo <- OneValid
  Unreachable = {}
  WithdrawFee = 1
  Fees = {1}
  Rescans = {FALSE}
  HorizonErrors = FALSE
  MaxEpoch = 2
INVARIANT FeeOnlyIfMinted
