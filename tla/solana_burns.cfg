SPECIFICATION FairSpec
CONSTANTS
  Txs <- AllTxs
  WithdrawFee = 1
  SigPage = 1
  MaxTxs = 2
INVARIANTS TypeOK PaidAtMostBurned
PROPERTY EveryBurnPaidIfRestarted
