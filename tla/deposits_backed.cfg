SPECIFICATION Spec
CONSTANTS
  N = 4
  Amount <- FourAmounts
  LastCredit <- FourLast
  OneSender = {1, 2, 3, 4}
  ValidMemo <- FourValid
  Unreachable = {3}
  WithdrawFee = 1
  Fees = {3}
  Rescans = {FALSE, TRUE}
  HorizonErrors = TRUE
  MaxEpoch = 2
INVARIANTS TypeOK EachDepositBacked RefundedNotMinted
