SPECIFICATION FairSpec
CONSTANTS
  N = 5
  Amount <- FiveAmounts
  LastCredit <- FiveLast
  OneSender = {1, 2, 3, 4, 5}
  ValidMemo = {1, 3, 4}
  ReturnMemo = {}
  Receiver <- FiveReceivers
  Unreachable = {2}
  WithdrawFee = 1
  DepositFee = 3
  Cosigners = {a, b}
  M = 2
  SigPage = 2
  Reads = {TRUE}
  Rescans = {FALSE, TRUE}
  QuickRestart = FALSE
  Reused = {1}
  MaxOthers = 1
INVARIANTS TypeOK EachDepositBacked PendingMintIsOnly FeeOnlyIfMemoSeen SavedMeansSettled
PROPERTY EveryDepositSettles
