SPECIFICATION Spec
CONSTANTS
  N = 1
  Amount <- OneAmount
  LastCredit <- OneAmount
  OneSender = {1}
  ValidMemo = {1}
  ReturnMemo = {}
  Receiver <- OneReceiver
  Unreachable = {}
  WithdrawFee = 1
  DepositFee = 3
  Cosigners = {a, b}
  M = 2
  SigPage = 2
  Reads = {TRUE}
  Rescans = {FALSE}
  QuickRestart = TRUE
  Reused = {}
  MaxOthers = 0
INVARIANT EachDepositBacked
